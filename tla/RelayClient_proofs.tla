--------------------------- MODULE RelayClient_proofs ---------------------------
(***************************************************************************)
(* The relay client implements the one store of RelayStore, for any number *)
(* of parties, relays, configurations, events and outages.  The invariant  *)
(* follows a success from the relay that stored the event to the caller,   *)
(* and an event from that relay to the subscriber.  CallsInv adds the      *)
(* types: a publication has no more results than relays it was sent to.    *)
(* ServedInv says who owes a waiting caller its result, SeenInv where the  *)
(* events are that the pool takes for duplicates.                          *)
(***************************************************************************)
EXTENDS RelayClient, FiniteSetTheorems, TLAPS

\* The variables of the refinement have the types their updates need.
Types ==
  /\ held \in [Relay -> SUBSET Event]
  /\ pubPc \in [Event -> {"idle", "wait", "ok", "failed", "cancelled"}]
  /\ answers \in [Event -> SUBSET [relay : Relay, ok : BOOLEAN]]
  /\ successes \in [Event -> Nat]
  /\ successCh \in [Event -> BOOLEAN]
  /\ errorCh \in [Event -> {"none", "failed", "cancelled"}]
  /\ seen \in [Party -> SUBSET Event]
  /\ relayCh \in [Party -> SUBSET Event]
  /\ got \in [Party -> SUBSET Event]

\* A success anywhere between the pool and the caller is that of a stored event.
SuccessOf(e) == \/ \E a \in answers[e] : a.ok
                \/ successes[e] > 0
                \/ successCh[e]
SuccessInv == \A e \in Event : SuccessOf(e) => e \in Stored

\* The forwarder holds at most one event: stored, addressed to its party, and
\* passed on by the pool for the first time.
ForwardInv ==
  \A p \in Party :
    /\ \A e \in relayCh[p] : e \in Stored /\ e.to = p /\ relayCh[p] = {e} /\ e \notin got[p]
    /\ relayCh[p] \cup got[p] \subseteq seen[p]

IInv == Types /\ SuccessInv /\ ForwardInv

-----------------------------------------------------------------------------
LEMMA InitOk == Init => IInv
  BY DEF Init, IInv, Types, SuccessInv, SuccessOf, ForwardInv

\* Relays forget nothing.
LEMMA StoredGrows ==
  ASSUME NEW e \in Event, NEW r \in Relay, Types,
         held' = [held EXCEPT ![r] = @ \cup {e}]
  PROVE  Stored' = Stored \cup {e} /\ held' \in [Relay -> SUBSET Event]
<1>1. held' \in [Relay -> SUBSET Event]
  BY DEF Types
<1>2. \A q \in Relay : held'[q] = IF q = r THEN held[r] \cup {e} ELSE held[q]
  BY DEF Types
<1>3. Stored' = Stored \cup {e}
  BY <1>2 DEF Stored
<1>4. QED
  BY <1>1, <1>3

\* The steps of NewClient, of the session and of the relays' outages.
LEMMA OthersKeep ==
  ASSUME IInv, UNCHANGED <<held, publishVars, seen, relayCh, got>>
  PROVE  IInv'
BY DEF IInv, Types, SuccessInv, SuccessOf, ForwardInv, Stored, publishVars

LEMMA ForwardKept ==
  ASSUME IInv, UNCHANGED <<seen, relayCh, got>>, Stored \subseteq Stored'
  PROVE  ForwardInv'
BY DEF IInv, ForwardInv

LEMMA PublishingKeeps ==
  ASSUME NEW e \in Event, IInv, PublishWrap(e) \/ Publishes(e) \/ Returns(e)
  PROVE  IInv'
<1>1. CASE PublishWrap(e)
  <2>1. UNCHANGED <<held, answers, successes, successCh, errorCh, seen, relayCh, got>>
        /\ pubPc' = [pubPc EXCEPT ![e] = "wait"]
    BY <1>1 DEF PublishWrap, relayVars, subscribeVars
  <2>2. QED
    BY <2>1 DEF IInv, Types, SuccessInv, SuccessOf, ForwardInv, Stored
<1>2. ASSUME NEW r \in Relay, RelayStores(e, r) \/ RelayRefuses(e, r)
      PROVE  IInv'
  <2>1. PICK ok \in BOOLEAN :
           /\ answers' = [answers EXCEPT ![e] = @ \cup {[relay |-> r, ok |-> ok]}]
           /\ \/ held' = [held EXCEPT ![r] = @ \cup {e}]
              \/ held' = held /\ ~ok
    BY <1>2 DEF RelayStores, RelayRefuses, relayVars
  <2>2. UNCHANGED <<pubPc, successes, successCh, errorCh, seen, relayCh, got>>
    BY <1>2 DEF RelayStores, RelayRefuses, subscribeVars
  <2>3. Stored \subseteq Stored' /\ (ok => e \in Stored') /\ held' \in [Relay -> SUBSET Event]
    BY <2>1, StoredGrows DEF IInv, Types, Stored
  <2>4. Types'
    BY <2>1, <2>2, <2>3 DEF IInv, Types
  <2>5. ASSUME NEW f \in Event, SuccessOf(f)'
        PROVE  f \in Stored'
    <3>1. answers'[f] = IF f = e THEN answers[e] \cup {[relay |-> r, ok |-> ok]} ELSE answers[f]
      BY <2>1 DEF IInv, Types
    <3>2. SuccessOf(f) \/ (f = e /\ ok)
      BY <2>2, <2>5, <3>1 DEF SuccessOf
    <3>3. QED
      BY <2>3, <3>2 DEF IInv, SuccessInv
  <2>6. QED
    BY <2>2, <2>3, <2>4, <2>5, ForwardKept DEF IInv, SuccessInv
<1>3. ASSUME NEW a \in answers[e], Read(e, a)
      PROVE  IInv'
  <2>1. /\ UNCHANGED <<held, pubPc, errorCh, seen, relayCh, got>>
        /\ answers' = [answers EXCEPT ![e] = @ \ {a}]
        /\ \/ a.ok /\ successes' = [successes EXCEPT ![e] = @ + 1]
                   /\ successCh' = [successCh EXCEPT ![e] = TRUE]
           \/ UNCHANGED <<successes, successCh>>
    BY <1>3 DEF Read, relayVars, subscribeVars
  <2>2. Types'
    <3>1. answers' \in [Event -> SUBSET [relay : Relay, ok : BOOLEAN]]
      BY <2>1 DEF IInv, Types
    <3>2. successes' \in [Event -> Nat]
      BY <2>1 DEF IInv, Types
    <3>3. successCh' \in [Event -> BOOLEAN]
      BY <2>1 DEF IInv, Types
    <3>4. QED
      BY <2>1, <3>1, <3>2, <3>3 DEF IInv, Types
  <2>3. Stored' = Stored
    BY <2>1 DEF Stored
  <2>4. ASSUME NEW f \in Event, SuccessOf(f)'
        PROVE  SuccessOf(f)
    <3>1. CASE f = e /\ ~UNCHANGED <<successes, successCh>>
      BY <2>1, <3>1 DEF SuccessOf
    <3>2. CASE f # e \/ UNCHANGED <<successes, successCh>>
      BY <2>1, <2>4, <3>2 DEF SuccessOf, IInv, Types
    <3>3. QED
      BY <3>1, <3>2
  <2>5. QED
    BY <2>1, <2>2, <2>3, <2>4, ForwardKept DEF IInv, SuccessInv
<1>4. CASE AllRead(e) \/ WorkerCancelled(e)
  <2>1. PICK error \in {"failed", "cancelled"} : WorkerEnds(e, error)
    BY <1>4 DEF AllRead, WorkerCancelled
  <2>2. /\ UNCHANGED <<held, pubPc, answers, successes, seen, relayCh, got>>
        /\ \/ /\ successes[e] > 0 /\ UNCHANGED errorCh
              /\ successCh' = [successCh EXCEPT ![e] = TRUE]
           \/ UNCHANGED successCh /\ errorCh' = [errorCh EXCEPT ![e] = error]
    BY <2>1 DEF WorkerEnds, relayVars, subscribeVars
  <2>3. Types'
    BY <2>2 DEF IInv, Types
  <2>4. Stored' = Stored
    BY <2>2 DEF Stored
  <2>5. ASSUME NEW f \in Event, SuccessOf(f)'
        PROVE  SuccessOf(f)
    BY <2>2, <2>5 DEF SuccessOf, IInv, Types
  <2>6. QED
    BY <2>2, <2>3, <2>4, <2>5, ForwardKept DEF IInv, SuccessInv
<1>5. CASE Returns(e)
  <2>1. UNCHANGED <<held, answers, successes, successCh, errorCh, seen, relayCh, got>>
    BY <1>5 DEF Returns, relayVars, subscribeVars
  <2>2. \E pc \in {"ok", "failed", "cancelled"} : pubPc' = [pubPc EXCEPT ![e] = pc]
    BY <1>5 DEF Returns, IInv, Types
  <2>3. QED
    BY <2>1, <2>2 DEF IInv, Types, SuccessInv, SuccessOf, ForwardInv, Stored
<1>6. QED
  BY <1>1, <1>2, <1>3, <1>4, <1>5 DEF Publishes

LEMMA FollowingKeeps ==
  ASSUME NEW p \in Party, IInv,
         Subscribe(p) \/ Follows(p, Relay) \/ Receive(p) \/ SubscriptionEnds(p)
  PROVE  IInv'
<1>1. UNCHANGED <<held, publishVars>>
  BY DEF Subscribe, Follows, Attach, Forward, Receive, SubscriptionEnds, relayVars
<1>2. SuccessInv' /\ Stored' = Stored
  BY <1>1 DEF IInv, SuccessInv, SuccessOf, Stored, publishVars
<1>3. CASE Subscribe(p) \/ \E r \in Relay : Attach(p, r)
  BY <1>1, <1>3, OthersKeep DEF Subscribe, Attach
<1>4. ASSUME NEW r \in Relay, NEW e \in Event, Forward(p, r, e)
      PROVE  IInv'
  <2>1. /\ relayCh[p] = {} /\ e \in Stored /\ e \notin seen[p] /\ e.to = p
        /\ seen' = [seen EXCEPT ![p] = @ \cup {e}]
        /\ relayCh' = [relayCh EXCEPT ![p] = {e}]
        /\ UNCHANGED got
    BY <1>4 DEF Forward, Stored
  <2>2. Types'
    BY <1>1, <2>1 DEF IInv, Types, publishVars
  <2>3. ForwardInv'
    BY <1>2, <2>1 DEF IInv, Types, ForwardInv
  <2>4. QED
    BY <1>2, <2>2, <2>3 DEF IInv
<1>5. CASE Receive(p)
  <2>1. /\ got' = [got EXCEPT ![p] = @ \cup relayCh[p]]
        /\ relayCh' = [relayCh EXCEPT ![p] = {}]
        /\ UNCHANGED seen
    BY <1>5 DEF Receive
  <2>2. Types'
    BY <1>1, <2>1 DEF IInv, Types, publishVars
  <2>3. ForwardInv'
    BY <1>2, <2>1 DEF IInv, Types, ForwardInv
  <2>4. QED
    BY <1>2, <2>2, <2>3 DEF IInv
<1>6. CASE SubscriptionEnds(p)
  <2>1. /\ got' = [got EXCEPT ![p] = {}]
        /\ relayCh' = [relayCh EXCEPT ![p] = {}]
        /\ seen' = [seen EXCEPT ![p] = {}]
    BY <1>6 DEF SubscriptionEnds
  <2>2. Types'
    BY <1>1, <2>1 DEF IInv, Types, publishVars
  <2>3. ForwardInv'
    BY <1>2, <2>1 DEF IInv, Types, ForwardInv
  <2>4. QED
    BY <1>2, <2>2, <2>3 DEF IInv
<1>7. QED
  BY <1>3, <1>4, <1>5, <1>6 DEF Follows

\* Everything else leaves the publications and the subscriptions alone.
Elsewhere ==
  \/ \E p \in Party : \/ Dials(p) \/ FirstConnected(p) \/ Close(p) \/ Cancel(p)
                      \/ \E r \in Relay : Connected(p, r) \/ ConnectFails(p, r)
  \/ \E r \in Relay : RelayStops(r) \/ RelayStarts(r)

LEMMA ElsewhereIdle == Elsewhere => UNCHANGED <<held, publishVars, seen, relayCh, got>>
BY DEF Elsewhere, Dials, Dial, DialTimeout, FirstConnected, Close, Cancel, Connected,
       ConnectFails, RelayStops, RelayStarts, relayVars, subscribeVars

LEMMA StepOk == IInv /\ [Next]_vars => IInv'
<1> SUFFICES ASSUME IInv, [Next]_vars
             PROVE  IInv'
  OBVIOUS
<1>1. CASE Elsewhere
  BY <1>1, ElsewhereIdle, OthersKeep
<1>2. ASSUME NEW e \in Event, PublishWrap(e) \/ Publishes(e) \/ Returns(e)
      PROVE  IInv'
  BY <1>2, PublishingKeeps
<1>3. ASSUME NEW p \in Party,
             Subscribe(p) \/ Follows(p, Relay) \/ Receive(p) \/ SubscriptionEnds(p)
      PROVE  IInv'
  BY <1>3, FollowingKeeps
<1>4. CASE UNCHANGED vars
  BY <1>4, OthersKeep DEF vars, relayVars, subscribeVars
<1>5. QED
  BY <1>1, <1>2, <1>3, <1>4 DEF Next, Elsewhere

THEOREM Invariance == Spec => []IInv
BY InitOk, StepOk, PTL DEF Spec

-----------------------------------------------------------------------------
\* PublishWrap returns nil for stored events only.
LEMMA ReturnsReports ==
  ASSUME NEW e \in Event, IInv, Returns(e)
  PROVE  Store!Report(e)
<1>1. UNCHANGED <<Stored, got>>
  BY DEF Returns, relayVars, subscribeVars, Stored
<1>2. PICK pc \in {"ok", "failed", "cancelled"} : /\ pubPc' = [pubPc EXCEPT ![e] = pc]
                                                  /\ pc = "ok" => successCh[e]
  BY DEF Returns, IInv, Types
<1>3. pubPc[e] = "wait" /\ pubPc \in [Event -> {"idle", "wait", "ok", "failed", "cancelled"}]
  BY DEF Returns, IInv, Types
<1>4. Reported[e] = "none"
  BY <1>3 DEF Reported
<1>5. Reported' = [Reported EXCEPT ![e] = IF pc = "ok" THEN "ok" ELSE "error"]
  BY <1>2, <1>3 DEF Reported
<1>6. pc = "ok" => e \in Stored
  BY <1>2 DEF IInv, SuccessInv, SuccessOf
<1>7. QED
  BY <1>1, <1>4, <1>5, <1>6 DEF Store!Report

\* The relays of the client are one store: every step of the client puts an
\* event into it, reports a publication, streams a stored event to whom it is
\* addressed and who has not had it, starts a subscription anew, or is none of
\* the store's business.
THEOREM ImplementsStore == Spec => ClientImplementsStore
<1>1. Init => Store!StoreInit
  BY DEF Init, Store!StoreInit, Stored, Reported
<1>2. IInv /\ [Next]_vars => [Store!StoreNext]_<<Stored, Reported, got>>
  <2> SUFFICES ASSUME IInv, [Next]_vars
               PROVE  Store!StoreNext \/ UNCHANGED <<Stored, Reported, got>>
    OBVIOUS
  <2>1. CASE Elsewhere \/ UNCHANGED vars
    <3>1. UNCHANGED <<held, pubPc, got>>
      BY <2>1, ElsewhereIdle DEF vars, relayVars, publishVars, subscribeVars
    <3>2. QED
      BY <3>1 DEF Stored, Reported
  <2>2. ASSUME NEW e \in Event, NEW r \in Relay, RelayStores(e, r)
        PROVE  Store!StoreNext \/ UNCHANGED <<Stored, Reported, got>>
    <3>1. Stored' = Stored \cup {e}
      BY <2>2, StoredGrows DEF RelayStores, IInv
    <3>2. UNCHANGED <<Reported, got>>
      BY <2>2 DEF RelayStores, subscribeVars, Reported
    <3>3. CASE e \in Stored
      BY <3>1, <3>2, <3>3
    <3>4. CASE e \notin Stored
      BY <3>1, <3>2, <3>4 DEF Store!StoreNext, Store!Put
    <3>5. QED
      BY <3>3, <3>4
  <2>3. ASSUME NEW e \in Event, Returns(e)
        PROVE  Store!StoreNext
    BY <2>3, ReturnsReports DEF Store!StoreNext
  <2>4. ASSUME NEW e \in Event, PublishWrap(e)
        PROVE  UNCHANGED <<Stored, Reported, got>>
    <3>1. UNCHANGED <<held, got>> /\ pubPc[e] = "idle" /\ pubPc' = [pubPc EXCEPT ![e] = "wait"]
      BY <2>4 DEF PublishWrap, relayVars, subscribeVars
    <3>2. UNCHANGED Reported
      BY <3>1 DEF Reported, IInv, Types
    <3>3. QED
      BY <3>1, <3>2 DEF Stored
  <2>5. ASSUME NEW e \in Event,
               \/ \E r \in Relay : RelayRefuses(e, r)
               \/ \E a \in answers[e] : Read(e, a)
               \/ AllRead(e) \/ WorkerCancelled(e)
        PROVE  UNCHANGED <<Stored, Reported, got>>
    <3>1. UNCHANGED <<held, pubPc, got>>
      BY <2>5 DEF RelayRefuses, Read, AllRead, WorkerCancelled, WorkerEnds, relayVars, subscribeVars
    <3>2. QED
      BY <3>1 DEF Stored, Reported
  <2>6. ASSUME NEW p \in Party, Subscribe(p) \/ Follows(p, Relay)
        PROVE  UNCHANGED <<Stored, Reported, got>>
    <3>1. UNCHANGED <<held, pubPc, got>>
      BY <2>6 DEF Subscribe, Follows, Attach, Forward, relayVars, publishVars
    <3>2. QED
      BY <3>1 DEF Stored, Reported
  <2>7. ASSUME NEW p \in Party, Receive(p)
        PROVE  Store!StoreNext
    <3>1. PICK e \in Event : e \in relayCh[p]
      BY <2>7 DEF Receive, IInv, Types
    <3>2. e \in Stored /\ e.to = p /\ relayCh[p] = {e} /\ e \notin got[p]
      BY <3>1 DEF IInv, ForwardInv
    <3>3. got' = [got EXCEPT ![p] = @ \cup {e}]
      BY <2>7, <3>2 DEF Receive
    <3>4. UNCHANGED <<Stored, Reported>>
      BY <2>7 DEF Receive, relayVars, publishVars, Stored, Reported
    <3>5. QED
      BY <3>2, <3>3, <3>4 DEF Store!StoreNext, Store!Stream
  <2>8. ASSUME NEW p \in Party, SubscriptionEnds(p)
        PROVE  Store!StoreNext
    <3>1. got' = [got EXCEPT ![p] = {}] /\ UNCHANGED <<Stored, Reported>>
      BY <2>8 DEF SubscriptionEnds, relayVars, publishVars, Stored, Reported
    <3>2. QED
      BY <3>1 DEF Store!StoreNext, Store!Renew
  <2>9. QED
    BY <2>1, <2>2, <2>3, <2>4, <2>5, <2>6, <2>7, <2>8 DEF Next, Publishes, Elsewhere
<1>3. QED
  BY <1>1, <1>2, Invariance, PTL DEF Spec, ClientImplementsStore, Store!StoreSpec, Store!storeVars
-----------------------------------------------------------------------------
(* Types, and the results of a publication *)

RelaysInv == /\ up \subseteq Relay /\ flaky \subseteq Relay
             /\ outages \in 0..MaxOutages /\ done \subseteq Party

\* NewClient: a client publishes to the relay that was connected first, and the
\* channel of connections never overflows.
ConnectInv ==
  /\ cPc \in [Party -> {"dial", "wait", "open", "closed"}]
  /\ dials \in [Party -> SUBSET Relay]
  /\ connectedCh \in [Party -> Seq(Relay)] /\ urls \in [Party -> Seq(Relay)]
  /\ \A p \in Party :
       /\ dials[p] \subseteq Relays[p] /\ connectedCh[p] \in Seq(Relays[p])
       /\ Len(connectedCh[p]) <= Cardinality(Relays[p])
       /\ urls[p] = <<>> \/ \E r \in Relays[p] : urls[p] = <<r>>

\* Each relay of a publication is asked, or its result waits to be read, or it was
\* counted: once.  Nothing is published before the client has its relays.
ResultsOf(e) == Cardinality(asked[e]) + Cardinality(answers[e]) + successes[e] + failures[e]
PublishInv ==
  /\ worker \in [Event -> {"off", "run", "end"}]
  /\ asked \in [Event -> SUBSET Relay] /\ failures \in [Event -> Nat]
  /\ \A e \in Event :
       /\ asked[e] \subseteq Range(urls[e.from])
       /\ IsFiniteSet(asked[e]) /\ IsFiniteSet(answers[e])
       /\ ResultsOf(e) <= Len(urls[e.from])
       /\ pubPc[e] = "idle" => /\ asked[e] = {} /\ answers[e] = {}
                               /\ successes[e] = 0 /\ failures[e] = 0
       /\ cPc[e.from] \in {"dial", "wait"} => pubPc[e] = "idle"

StreamsInv == /\ sPc \in [Party -> {"idle", "open", "closed"}]
              /\ streams \in [Party -> SUBSET Relay]
              /\ \A p \in Party : streams[p] \subseteq Relays[p]

CallsInv == RelaysInv /\ ConnectInv /\ PublishInv /\ StreamsInv

LEMMA CallsInit == Init => CallsInv
<1> SUFFICES ASSUME Init  PROVE CallsInv
  OBVIOUS
<1>1. RelaysInv /\ StreamsInv
  BY ClientAssumption DEF Init, RelaysInv, StreamsInv
<1>2. ConnectInv
  <2>1. ASSUME NEW p \in Party  PROVE Cardinality(Relays[p]) \in Nat
    BY ClientAssumption, FS_Subset, FS_CardinalityType
  <2>2. ASSUME NEW S  PROVE <<>> \in Seq(S) /\ Len(<<>>) = 0
    OBVIOUS
  <2>3. QED
    BY <2>1, <2>2 DEF Init, ConnectInv
<1>3. PublishInv
  <2>1. IsFiniteSet({}) /\ Cardinality({}) = 0
    BY FS_EmptySet
  <2>2. \A e \in Event : ResultsOf(e) = 0 /\ urls[e.from] = <<>>
    BY <2>1, ClientAssumption DEF Init, ResultsOf
  <2>3. QED
    BY <2>1, <2>2 DEF Init, PublishInv
<1>4. QED
  BY <1>1, <1>2, <1>3 DEF CallsInv

\* The steps of NewClient before it returns.
LEMMA DialSteps ==
  ASSUME CallsInv, NEW p \in Party,
         Dials(p) \/ \E r \in Relay : Connected(p, r) \/ ConnectFails(p, r)
  PROVE  CallsInv'
<1>1. /\ UNCHANGED <<up, flaky, outages, done, urls, publishVars, sPc, streams>>
      /\ \/ cPc' = cPc
         \/ cPc[p] \in {"dial", "wait"} /\ \E c \in {"dial", "wait"} : cPc' = [cPc EXCEPT ![p] = c]
  BY DEF Dials, Dial, DialTimeout, Connected, ConnectFails, relayVars, subscribeVars
<1>2. /\ cPc' \in [Party -> {"dial", "wait", "open", "closed"}]
      /\ \A q \in Party : cPc'[q] \in {"dial", "wait"} <=> cPc[q] \in {"dial", "wait"}
  BY <1>1 DEF CallsInv, ConnectInv
<1>3. RelaysInv' /\ StreamsInv'
  BY <1>1 DEF CallsInv, RelaysInv, StreamsInv
<1>4. PublishInv'
  BY <1>1, <1>2, ClientAssumption DEF CallsInv, PublishInv, ResultsOf, publishVars
<1>5. ConnectInv'
  <2>1. /\ dials' \in [Party -> SUBSET Relay]
        /\ \A q \in Party : dials'[q] \subseteq Relays[q]
    <3>1. \/ dials' = dials \/ dials' = [dials EXCEPT ![p] = Relays[p]]
          \/ \E r \in Relay : dials' = [dials EXCEPT ![p] = @ \ {r}]
      BY DEF Dials, Dial, DialTimeout, Connected, ConnectFails
    <3>2. /\ dials \in [Party -> SUBSET Relay]
          /\ \A q \in Party : Relays[q] \subseteq Relay /\ dials[q] \subseteq Relays[q]
      BY ClientAssumption DEF CallsInv, ConnectInv
    <3>3. QED
      BY <3>1, <3>2
  <2>2. /\ connectedCh' \in [Party -> Seq(Relay)]
        /\ \A q \in Party : /\ connectedCh'[q] \in Seq(Relays[q])
                            /\ Len(connectedCh'[q]) <= Cardinality(Relays[q])
    <3>1. CASE connectedCh' = connectedCh
      BY <3>1 DEF CallsInv, ConnectInv
    <3>2. ASSUME NEW r \in Relay, Connected(p, r)
          PROVE  /\ connectedCh' \in [Party -> Seq(Relay)]
                 /\ \A q \in Party : /\ connectedCh'[q] \in Seq(Relays[q])
                                     /\ Len(connectedCh'[q]) <= Cardinality(Relays[q])
      <4>1. /\ r \in Relays[p] /\ Len(connectedCh[p]) < Cardinality(Relays[p])
            /\ connectedCh' = [connectedCh EXCEPT ![p] = Append(@, r)]
        BY <3>2 DEF Connected, CallsInv, ConnectInv
      <4>2. Cardinality(Relays[p]) \in Nat
        BY ClientAssumption, FS_Subset, FS_CardinalityType
      <4>3. /\ Append(connectedCh[p], r) \in Seq(Relays[p])
            /\ Append(connectedCh[p], r) \in Seq(Relay)
            /\ Len(Append(connectedCh[p], r)) <= Cardinality(Relays[p])
        BY <4>1, <4>2 DEF CallsInv, ConnectInv
      <4>4. QED
        BY <4>1, <4>3 DEF CallsInv, ConnectInv
    <3>3. QED
      BY <3>1, <3>2 DEF Dials, Dial, DialTimeout, ConnectFails
  <2>3. QED
    BY <1>1, <1>2, <2>1, <2>2 DEF CallsInv, ConnectInv
<1>6. QED
  BY <1>3, <1>4, <1>5 DEF CallsInv

\* NewClient returns: nothing was published with the client before.
LEMMA ReturnStep == ASSUME CallsInv, NEW p \in Party, FirstConnected(p)  PROVE CallsInv'
<1>1. /\ cPc[p] = "wait" /\ cPc' = [cPc EXCEPT ![p] = "open"]
      /\ connectedCh[p] # <<>> /\ urls' = [urls EXCEPT ![p] = <<Head(connectedCh[p])>>]
      /\ dials' = [dials EXCEPT ![p] = {}] /\ connectedCh' = [connectedCh EXCEPT ![p] = <<>>]
      /\ UNCHANGED <<up, flaky, outages, done, publishVars, sPc, streams>>
  BY DEF FirstConnected, relayVars, subscribeVars
<1>2. Head(connectedCh[p]) \in Relays[p] /\ Relays[p] \subseteq Relay
  <2>1. connectedCh[p] \in Seq(Relays[p]) /\ connectedCh[p] # <<>>
    BY <1>1 DEF CallsInv, ConnectInv
  <2>2. Head(connectedCh[p]) \in Relays[p]
    BY <2>1
  <2>3. QED
    BY <2>2, ClientAssumption
<1>3. RelaysInv' /\ StreamsInv'
  BY <1>1 DEF CallsInv, RelaysInv, StreamsInv
<1>4. ConnectInv'
  <2>1. <<Head(connectedCh[p])>> \in Seq(Relay)
    BY <1>2
  <2>2. Cardinality(Relays[p]) \in Nat
    BY ClientAssumption, FS_Subset, FS_CardinalityType
  <2>3. <<>> \in Seq(Relays[p]) /\ <<>> \in Seq(Relay) /\ Len(<<>>) <= Cardinality(Relays[p])
    BY <2>2
  <2>4. QED
    BY <1>1, <1>2, <2>1, <2>3 DEF CallsInv, ConnectInv
<1>5. PublishInv'
  <2>1. \A q \in Party \ {p} : urls'[q] = urls[q] /\ cPc'[q] = cPc[q]
    BY <1>1 DEF CallsInv, ConnectInv
  <2>2. cPc'[p] = "open" /\ Len(urls'[p]) = 1
    BY <1>1 DEF CallsInv, ConnectInv
  <2>3. ASSUME NEW e \in Event, e.from = p
        PROVE  asked[e] = {} /\ ResultsOf(e) = 0
    <3>1. /\ asked[e] = {} /\ answers[e] = {} /\ successes[e] = 0 /\ failures[e] = 0
      BY <1>1, <2>3 DEF CallsInv, PublishInv
    <3>2. QED
      BY <3>1, FS_EmptySet DEF ResultsOf
  <2>4. ASSUME NEW e \in Event
        PROVE  /\ asked[e] \subseteq Range(urls'[e.from])
               /\ ResultsOf(e) <= Len(urls'[e.from])
               /\ cPc'[e.from] \in {"dial", "wait"} => pubPc[e] = "idle"
    <3>1. CASE e.from = p
      BY <2>2, <2>3, <3>1
    <3>2. CASE e.from # p
      BY <2>1, <3>2, ClientAssumption DEF CallsInv, PublishInv
    <3>3. QED
      BY <3>1, <3>2
  <2>5. QED
    BY <1>1, <2>4 DEF CallsInv, PublishInv, ResultsOf, publishVars
<1>6. QED
  BY <1>3, <1>4, <1>5 DEF CallsInv

\* The session, the subscriptions and the relays' outages leave calls alone.
LEMMA QuietSteps ==
  ASSUME CallsInv,
         \/ \E p \in Party : \/ Close(p) \/ Cancel(p) \/ Subscribe(p) \/ Follows(p, Relay)
                             \/ Receive(p) \/ SubscriptionEnds(p)
         \/ \E r \in Relay : RelayStops(r) \/ RelayStarts(r)
         \/ UNCHANGED vars
  PROVE  CallsInv'
<1>1. UNCHANGED <<dials, connectedCh, urls, publishVars>>
  BY DEF Close, Cancel, Subscribe, Follows, Attach, Forward, Receive, SubscriptionEnds,
         RelayStops, RelayStarts, vars, clientVars
<1>2. \/ cPc' = cPc
      \/ \E p \in Party : cPc[p] = "open" /\ cPc' = [cPc EXCEPT ![p] = "closed"]
  BY DEF Close, Cancel, Subscribe, Follows, Attach, Forward, Receive, SubscriptionEnds,
         RelayStops, RelayStarts, vars, clientVars
<1>3. /\ cPc' \in [Party -> {"dial", "wait", "open", "closed"}]
      /\ \A q \in Party : cPc'[q] \in {"dial", "wait"} <=> cPc[q] \in {"dial", "wait"}
  BY <1>2 DEF CallsInv, ConnectInv
<1>4. ConnectInv' /\ PublishInv'
  BY <1>1, <1>3, ClientAssumption DEF CallsInv, ConnectInv, PublishInv, ResultsOf, publishVars
<1>5. RelaysInv'
  BY ClientAssumption
     DEF Close, Cancel, Subscribe, Follows, Attach, Forward, Receive, SubscriptionEnds,
         RelayStops, RelayStarts, vars, relayVars, CallsInv, RelaysInv
<1>6. StreamsInv'
  <2>1. CASE \E p \in Party : Close(p) \/ Cancel(p) \/ Subscribe(p) \/ Receive(p) \/ SubscriptionEnds(p)
    BY <2>1 DEF Close, Cancel, Subscribe, Receive, SubscriptionEnds, CallsInv, StreamsInv, subscribeVars
  <2>2. CASE \E p \in Party : Follows(p, Relay)
    BY <2>2 DEF Follows, Attach, Forward, Followed, CallsInv, StreamsInv
  <2>3. CASE \E r \in Relay : RelayStops(r) \/ RelayStarts(r)
    BY <2>3 DEF RelayStops, RelayStarts, CallsInv, StreamsInv, subscribeVars
  <2>4. CASE UNCHANGED vars
    BY <2>4 DEF vars, CallsInv, StreamsInv, subscribeVars
  <2>5. QED
    BY <2>1, <2>2, <2>3, <2>4
<1>7. QED
  BY <1>4, <1>5, <1>6 DEF CallsInv

\* What one publication changes is its own: the others keep their accounts.
PublishOk(e) ==
  /\ asked[e] \subseteq Range(urls[e.from])
  /\ IsFiniteSet(asked[e]) /\ IsFiniteSet(answers[e])
  /\ ResultsOf(e) <= Len(urls[e.from])
  /\ pubPc[e] = "idle" => /\ asked[e] = {} /\ answers[e] = {}
                          /\ successes[e] = 0 /\ failures[e] = 0
  /\ cPc[e.from] \in {"dial", "wait"} => pubPc[e] = "idle"

LEMMA OnePublication ==
  ASSUME CallsInv, NEW e \in Event, UNCHANGED clientVars,
         UNCHANGED <<up, flaky, outages, done, sPc, streams>>,
         worker' \in [Event -> {"off", "run", "end"}],
         asked' \in [Event -> SUBSET Relay], failures' \in [Event -> Nat],
         \A f \in Event \ {e} : /\ asked'[f] = asked[f] /\ answers'[f] = answers[f]
                                /\ successes'[f] = successes[f] /\ failures'[f] = failures[f]
                                /\ pubPc'[f] = pubPc[f],
         PublishOk(e)'
  PROVE  CallsInv'
<1>1. RelaysInv' /\ ConnectInv' /\ StreamsInv'
  BY DEF CallsInv, RelaysInv, ConnectInv, StreamsInv, clientVars
<1>2. \A f \in Event : PublishOk(f)'
  <2> TAKE f \in Event
  <2>1. CASE f = e
    BY <2>1
  <2>2. CASE f # e
    BY <2>2 DEF CallsInv, PublishInv, PublishOk, ResultsOf, clientVars
  <2>3. QED
    BY <2>1, <2>2
<1>3. PublishInv'
  BY <1>2 DEF PublishInv, PublishOk
<1>4. QED
  BY <1>1, <1>3 DEF CallsInv

\* PublishWrap asks each relay of urls.
LEMMA WrapStep == ASSUME Types, CallsInv, NEW e \in Event, PublishWrap(e)  PROVE CallsInv'
<1>1. /\ pubPc[e] = "idle" /\ cPc[e.from] = "open"
      /\ pubPc' = [pubPc EXCEPT ![e] = "wait"]
      /\ asked' = [asked EXCEPT ![e] = Range(urls[e.from])]
      /\ worker' = [worker EXCEPT ![e] = "run"]
      /\ UNCHANGED <<answers, successes, failures, clientVars>>
      /\ UNCHANGED <<up, flaky, outages, done, sPc, streams>>
  BY DEF PublishWrap, relayVars, subscribeVars
<1>2. e.from \in Party
  BY ClientAssumption
<1>3. /\ Range(urls[e.from]) \subseteq Relay
      /\ IsFiniteSet(Range(urls[e.from])) /\ Cardinality(Range(urls[e.from])) = Len(urls[e.from])
  <2>1. CASE urls[e.from] = <<>>
    <3>1. Range(urls[e.from]) = {}
      BY <2>1 DEF Range
    <3>2. QED
      BY <2>1, <3>1, FS_EmptySet
  <2>2. ASSUME NEW r \in Relays[e.from], urls[e.from] = <<r>>
        PROVE  <1>3
    <3>1. Range(urls[e.from]) = {r} /\ r \in Relay /\ Len(urls[e.from]) = 1
      BY <1>2, <2>2, ClientAssumption DEF Range
    <3>2. QED
      BY <3>1, FS_Singleton
  <2>3. QED
    BY <1>2, <2>1, <2>2 DEF CallsInv, ConnectInv
<1>4. /\ worker' \in [Event -> {"off", "run", "end"}]
      /\ asked' \in [Event -> SUBSET Relay] /\ failures' \in [Event -> Nat]
  BY <1>1, <1>3 DEF CallsInv, PublishInv
<1>5. PublishOk(e)'
  <2>1. answers[e] = {} /\ successes[e] = 0 /\ failures[e] = 0
    BY <1>1 DEF CallsInv, PublishInv
  <2>2. /\ asked'[e] = Range(urls[e.from]) /\ pubPc'[e] = "wait"
        /\ answers'[e] = {} /\ successes'[e] = 0 /\ failures'[e] = 0
        /\ urls' = urls /\ cPc' = cPc
    BY <1>1, <2>1 DEF CallsInv, PublishInv, Types, clientVars
  <2>3. Cardinality({}) = 0 /\ IsFiniteSet({})
    BY FS_EmptySet
  <2>4. ResultsOf(e)' <= Len(urls[e.from])
    <3>1. Len(urls[e.from]) \in Nat
      BY <1>2 DEF CallsInv, ConnectInv
    <3>2. QED
      BY <1>3, <2>2, <2>3, <3>1 DEF ResultsOf
  <2>5. QED
    BY <1>1, <1>3, <2>2, <2>3, <2>4 DEF PublishOk
<1>6. \A f \in Event \ {e} : /\ asked'[f] = asked[f] /\ answers'[f] = answers[f]
                             /\ successes'[f] = successes[f] /\ failures'[f] = failures[f]
                             /\ pubPc'[f] = pubPc[f]
  BY <1>1 DEF CallsInv, PublishInv, Types
<1>7. QED
  BY <1>1, <1>4, <1>5, <1>6, OnePublication

\* A relay that was asked has one result, and is asked no more.
LEMMA ResultStep ==
  ASSUME Types, CallsInv, NEW e \in Event, NEW r \in Relay,
         RelayStores(e, r) \/ RelayRefuses(e, r)
  PROVE  CallsInv'
<1>1. /\ r \in asked[e] /\ asked' = [asked EXCEPT ![e] = @ \ {r}]
      /\ UNCHANGED <<worker, pubPc, successes, failures, clientVars>>
      /\ UNCHANGED <<up, flaky, outages, done, sPc, streams>>
  BY DEF RelayStores, RelayRefuses, relayVars, subscribeVars
<1>2. PICK a \in [relay : Relay, ok : BOOLEAN] : answers' = [answers EXCEPT ![e] = @ \cup {a}]
  BY DEF RelayStores, RelayRefuses
<1>3. e.from \in Party
  BY ClientAssumption
<1>4. PublishOk(e)
  BY DEF CallsInv, PublishInv, PublishOk
<1>5. /\ worker' \in [Event -> {"off", "run", "end"}]
      /\ asked' \in [Event -> SUBSET Relay] /\ failures' \in [Event -> Nat]
  BY <1>1 DEF CallsInv, PublishInv
<1>6. asked'[e] = asked[e] \ {r} /\ answers'[e] = answers[e] \cup {a}
  BY <1>1, <1>2 DEF CallsInv, PublishInv, Types
<1>7. /\ IsFiniteSet(asked[e]) /\ Cardinality(asked[e]) \in Nat
      /\ IsFiniteSet(answers[e]) /\ Cardinality(answers[e]) \in Nat
  BY <1>4, FS_CardinalityType DEF PublishOk
<1>8. /\ IsFiniteSet(asked'[e]) /\ Cardinality(asked'[e]) = Cardinality(asked[e]) - 1
  BY <1>1, <1>6, <1>7, FS_RemoveElement
<1>9. /\ IsFiniteSet(answers'[e]) /\ Cardinality(answers'[e]) \in Nat
      /\ Cardinality(answers'[e]) <= Cardinality(answers[e]) + 1
  <2>1. /\ IsFiniteSet(answers[e] \cup {a})
        /\ Cardinality(answers[e] \cup {a}) =
             IF a \in answers[e] THEN Cardinality(answers[e]) ELSE Cardinality(answers[e]) + 1
    BY <1>7, FS_AddElement
  <2>2. QED
    BY <1>6, <1>7, <2>1
<1>10. ResultsOf(e)' <= Len(urls[e.from])
  <2>1. /\ successes[e] \in Nat /\ failures[e] \in Nat /\ Len(urls[e.from]) \in Nat
    BY <1>3 DEF CallsInv, ConnectInv, PublishInv, Types
  <2>2. ResultsOf(e)' = Cardinality(asked'[e]) + Cardinality(answers'[e]) + successes[e] + failures[e]
    BY <1>1 DEF ResultsOf
  <2>3. Cardinality(asked[e]) + Cardinality(answers[e]) + successes[e] + failures[e] <= Len(urls[e.from])
    BY <1>4 DEF PublishOk, ResultsOf
  <2>4. QED
    BY <1>7, <1>8, <1>9, <2>1, <2>2, <2>3
<1>11. PublishOk(e)'
  <2>1. pubPc[e] # "idle"
    BY <1>1, <1>4 DEF PublishOk
  <2>2. QED
    BY <1>1, <1>4, <1>6, <1>8, <1>9, <1>10, <2>1 DEF PublishOk, clientVars
<1>12. \A f \in Event \ {e} : /\ asked'[f] = asked[f] /\ answers'[f] = answers[f]
                              /\ successes'[f] = successes[f] /\ failures'[f] = failures[f]
                              /\ pubPc'[f] = pubPc[f]
  BY <1>1, <1>2 DEF CallsInv, PublishInv, Types
<1>13. QED
  BY <1>1, <1>5, <1>11, <1>12, OnePublication

\* A result is read once and counted once.
LEMMA ReadStep ==
  ASSUME Types, CallsInv, NEW e \in Event, NEW a \in answers[e], Read(e, a)
  PROVE  CallsInv'
<1>1. /\ answers' = [answers EXCEPT ![e] = @ \ {a}]
      /\ \/ successes' = [successes EXCEPT ![e] = @ + 1] /\ failures' = failures
         \/ failures' = [failures EXCEPT ![e] = @ + 1] /\ successes' = successes
      /\ UNCHANGED <<worker, pubPc, asked, clientVars>>
      /\ UNCHANGED <<up, flaky, outages, done, sPc, streams>>
  BY DEF Read, relayVars, subscribeVars
<1>2. e.from \in Party
  BY ClientAssumption
<1>3. PublishOk(e)
  BY DEF CallsInv, PublishInv, PublishOk
<1>4. /\ worker' \in [Event -> {"off", "run", "end"}]
      /\ asked' \in [Event -> SUBSET Relay] /\ failures' \in [Event -> Nat]
  BY <1>1 DEF CallsInv, PublishInv
<1>5. /\ answers'[e] = answers[e] \ {a}
      /\ successes[e] \in Nat /\ failures[e] \in Nat
      /\ successes'[e] + failures'[e] = successes[e] + failures[e] + 1
      /\ successes'[e] \in Nat /\ failures'[e] \in Nat
  <2>1. /\ successes \in [Event -> Nat] /\ failures \in [Event -> Nat]
        /\ answers \in [Event -> SUBSET [relay : Relay, ok : BOOLEAN]]
    BY DEF CallsInv, PublishInv, Types
  <2>2. CASE successes' = [successes EXCEPT ![e] = @ + 1] /\ failures' = failures
    BY <1>1, <2>1, <2>2
  <2>3. CASE failures' = [failures EXCEPT ![e] = @ + 1] /\ successes' = successes
    BY <1>1, <2>1, <2>3
  <2>4. QED
    BY <1>1, <2>2, <2>3
<1>6. /\ IsFiniteSet(asked[e]) /\ Cardinality(asked[e]) \in Nat
      /\ IsFiniteSet(answers[e]) /\ Cardinality(answers[e]) \in Nat
  BY <1>3, FS_CardinalityType DEF PublishOk
<1>7. /\ IsFiniteSet(answers'[e]) /\ Cardinality(answers'[e]) = Cardinality(answers[e]) - 1
      /\ Cardinality(answers'[e]) \in Nat
  BY <1>5, <1>6, FS_RemoveElement, FS_CardinalityType
<1>8. ResultsOf(e)' <= Len(urls[e.from])
  <2>1. Len(urls[e.from]) \in Nat
    BY <1>2 DEF CallsInv, ConnectInv
  <2>2. ResultsOf(e)' = Cardinality(asked[e]) + Cardinality(answers'[e]) + successes'[e] + failures'[e]
    BY <1>1 DEF ResultsOf
  <2>3. Cardinality(asked[e]) + Cardinality(answers[e]) + successes[e] + failures[e] <= Len(urls[e.from])
    BY <1>3 DEF PublishOk, ResultsOf
  <2>4. Cardinality(asked[e]) + Cardinality(answers'[e]) + successes'[e] + failures'[e]
          <= Len(urls[e.from])
    <3> DEFINE k == Cardinality(asked[e])
               n == Cardinality(answers[e])
               m == Cardinality(answers'[e])
               s == successes[e] + failures[e]
               t == successes'[e] + failures'[e]
               l == Len(urls[e.from])
    <3>1. /\ k \in Nat /\ n \in Nat /\ m \in Nat /\ l \in Nat
          /\ m = n - 1
      BY <1>6, <1>7, <2>1
    <3>2. s \in Nat /\ t = s + 1
      BY <1>5
    <3>3. k + n + s <= l
      BY <1>5, <2>3, <3>1
    <3>4. k + m + t <= l
      <4> HIDE DEF k, n, m, s, t, l
      <4> QED BY <3>1, <3>2, <3>3
    <3>5. QED
      BY <1>5, <3>1, <3>4
  <2>5. QED
    BY <2>2, <2>4
<1>9. PublishOk(e)'
  <2>1. pubPc[e] # "idle"
    BY <1>3 DEF PublishOk
  <2>2. QED
    BY <1>1, <1>3, <1>7, <1>8, <2>1 DEF PublishOk, clientVars
<1>10. \A f \in Event \ {e} : /\ asked'[f] = asked[f] /\ answers'[f] = answers[f]
                              /\ successes'[f] = successes[f] /\ failures'[f] = failures[f]
                              /\ pubPc'[f] = pubPc[f]
  BY <1>1 DEF CallsInv, PublishInv, Types
<1>11. QED
  BY <1>1, <1>4, <1>9, <1>10, OnePublication

\* The worker and the caller end, and count nothing more.
LEMMA EndStep ==
  ASSUME Types, CallsInv, NEW e \in Event, AllRead(e) \/ WorkerCancelled(e) \/ Returns(e)
  PROVE  CallsInv'
<1>1. /\ UNCHANGED <<asked, answers, successes, failures, clientVars>>
      /\ UNCHANGED <<up, flaky, outages, done, sPc, streams>>
  BY DEF AllRead, WorkerCancelled, WorkerEnds, Returns, relayVars, subscribeVars
<1>2. worker' \in [Event -> {"off", "run", "end"}]
  BY DEF AllRead, WorkerCancelled, WorkerEnds, Returns, CallsInv, PublishInv
<1>3. \/ pubPc' = pubPc
      \/ pubPc[e] = "wait" /\ \E c \in {"ok", "failed", "cancelled"} : pubPc' = [pubPc EXCEPT ![e] = c]
  BY DEF AllRead, WorkerCancelled, WorkerEnds, Returns, Types
<1>4. \A f \in Event : /\ f # e => pubPc'[f] = pubPc[f]
                       /\ pubPc'[f] = "idle" <=> pubPc[f] = "idle"
  BY <1>3 DEF Types
<1>5. PublishOk(e)'
  BY <1>1, <1>4 DEF CallsInv, PublishInv, PublishOk, ResultsOf, clientVars
<1>6. asked' \in [Event -> SUBSET Relay] /\ failures' \in [Event -> Nat]
  BY <1>1 DEF CallsInv, PublishInv
<1>7. QED
  BY <1>1, <1>2, <1>4, <1>5, <1>6, OnePublication

LEMMA CallsStep == IInv /\ CallsInv /\ [Next]_vars => CallsInv'
<1> SUFFICES ASSUME IInv, CallsInv, [Next]_vars  PROVE CallsInv'
  OBVIOUS
<1>1. Types
  BY DEF IInv
<1>2. CASE \E p \in Party : Dials(p) \/ \E r \in Relay : Connected(p, r) \/ ConnectFails(p, r)
  BY <1>2, DialSteps
<1>3. CASE \E p \in Party : FirstConnected(p)
  BY <1>3, ReturnStep
<1>4. CASE \/ \E p \in Party : \/ Close(p) \/ Cancel(p) \/ Subscribe(p) \/ Follows(p, Relay)
                               \/ Receive(p) \/ SubscriptionEnds(p)
           \/ \E r \in Relay : RelayStops(r) \/ RelayStarts(r)
           \/ UNCHANGED vars
  BY <1>4, QuietSteps
<1>5. CASE \E e \in Event : PublishWrap(e) \/ Publishes(e) \/ Returns(e)
  BY <1>1, <1>5, WrapStep, ResultStep, ReadStep, EndStep DEF Publishes
<1>6. QED
  BY <1>2, <1>3, <1>4, <1>5 DEF Next

\* Every variable has its type: connections and subscriptions are to configured
\* relays, the channel of connections holds, and a relay's result is counted once.
THEOREM TypeCorrect == Spec => []TypeOK
<1>1. IInv /\ CallsInv => TypeOK
  <2> SUFFICES ASSUME IInv, CallsInv  PROVE TypeOK
    OBVIOUS
  <2>1. ASSUME NEW e \in Event  PROVE successes[e] + failures[e] <= Len(urls[e.from])
    <3>1. /\ Cardinality(asked[e]) \in Nat /\ Cardinality(answers[e]) \in Nat
      BY FS_CardinalityType DEF CallsInv, PublishInv
    <3>2. /\ successes[e] \in Nat /\ failures[e] \in Nat /\ Len(urls[e.from]) \in Nat
      BY ClientAssumption DEF IInv, Types, CallsInv, ConnectInv, PublishInv
    <3>3. ResultsOf(e) <= Len(urls[e.from])
      BY DEF CallsInv, PublishInv
    <3>4. QED
      BY <3>1, <3>2, <3>3 DEF ResultsOf
  <2>2. ASSUME NEW p \in Party  PROVE urls[p] \in Seq(Relays[p])
    <3>1. CASE urls[p] = <<>>
      BY <3>1
    <3>2. ASSUME NEW r \in Relays[p], urls[p] = <<r>>
          PROVE  urls[p] \in Seq(Relays[p])
      <4>1. \A S : \A x \in S : <<x>> \in Seq(S)
        OBVIOUS
      <4>2. QED
        BY <3>2, <4>1
    <3>3. QED
      BY <3>1, <3>2 DEF CallsInv, ConnectInv
  <2>3. QED
    BY <2>1, <2>2 DEF IInv, Types, ForwardInv, CallsInv, RelaysInv, ConnectInv, PublishInv,
                      StreamsInv, TypeOK
<1>2. QED
  BY <1>1, CallsInit, CallsStep, Invariance, PTL DEF Spec
-----------------------------------------------------------------------------
(* What a publication reports, and what a subscription keeps *)

\* A caller that waits has its worker, or the worker's result in a channel.  The
\* worker gives an error only when it has read no success, and, while the context
\* lasts, only when every relay has answered.
Served(e) ==
  /\ pubPc[e] = "idle" <=> worker[e] = "off"
  /\ pubPc[e] = "wait" => worker[e] = "run" \/ successCh[e] \/ errorCh[e] # "none"
  /\ pubPc[e] = "failed" => errorCh[e] = "failed"
  /\ pubPc[e] = "cancelled" => e.from \in done
  /\ successCh[e] => successes[e] > 0
  /\ errorCh[e] # "none" => worker[e] = "end" /\ successes[e] = 0
  /\ errorCh[e] # "none" /\ e.from \notin done =>
       errorCh[e] = "failed" /\ asked[e] = {} /\ answers[e] = {}
ServedInv == \A e \in Event : Served(e)

\* The pool takes for a duplicate only what the forwarder or the subscriber has.
SeenInv == \A p \in Party : seen[p] \subseteq relayCh[p] \cup got[p]

LEMMA ServedStep == ASSUME IInv, CallsInv, ServedInv, [Next]_vars  PROVE ServedInv'
<1>0. Types /\ PublishInv
  BY DEF IInv, CallsInv
<1>1. CASE Elsewhere \/ UNCHANGED vars
  <2>1. UNCHANGED publishVars /\ done \subseteq done'
    BY <1>1, ElsewhereIdle DEF Elsewhere, Dials, Dial, DialTimeout, FirstConnected, Close, Cancel,
       Connected, ConnectFails, RelayStops, RelayStarts, relayVars, vars
  <2>2. QED
    BY <2>1 DEF publishVars, ServedInv, Served
<1>2. ASSUME NEW p \in Party,
             Subscribe(p) \/ Follows(p, Relay) \/ Receive(p) \/ SubscriptionEnds(p)
      PROVE  ServedInv'
  <2>1. UNCHANGED publishVars /\ done' = done
    BY <1>2 DEF Subscribe, Follows, Attach, Forward, Receive, SubscriptionEnds
  <2>2. QED
    BY <2>1 DEF publishVars, ServedInv, Served
<1>3. ASSUME NEW e \in Event, PublishWrap(e) \/ Publishes(e) \/ Returns(e)
      PROVE  /\ done' = done
             /\ \A f \in Event \ {e} : UNCHANGED <<pubPc[f], asked[f], answers[f], worker[f],
                                                   successes[f], successCh[f], errorCh[f]>>
  <2>1. done' = done
    BY <1>3 DEF PublishWrap, Publishes, RelayStores, RelayRefuses, Read, AllRead, WorkerCancelled,
                WorkerEnds, Returns
  <2>2. /\ pubPc' = pubPc \/ \E x : pubPc' = [pubPc EXCEPT ![e] = x]
        /\ asked' = asked \/ \E x : asked' = [asked EXCEPT ![e] = x]
        /\ answers' = answers \/ \E x : answers' = [answers EXCEPT ![e] = x]
        /\ worker' = worker \/ \E x : worker' = [worker EXCEPT ![e] = x]
        /\ successes' = successes \/ \E x : successes' = [successes EXCEPT ![e] = x]
        /\ successCh' = successCh \/ successCh' = [successCh EXCEPT ![e] = TRUE]
        /\ errorCh' = errorCh \/ \E x : errorCh' = [errorCh EXCEPT ![e] = x]
    <3>1. CASE PublishWrap(e)
      BY <3>1 DEF PublishWrap
    <3>2. CASE \E r \in Relay : RelayStores(e, r) \/ RelayRefuses(e, r)
      BY <3>2 DEF RelayStores, RelayRefuses
    <3>3. CASE \E a \in answers[e] : Read(e, a)
      BY <3>3 DEF Read
    <3>4. CASE AllRead(e) \/ WorkerCancelled(e)
      BY <3>4 DEF AllRead, WorkerCancelled, WorkerEnds
    <3>5. CASE Returns(e)
      BY <3>5 DEF Returns
    <3>6. QED
      BY <1>3, <3>1, <3>2, <3>3, <3>4, <3>5 DEF Publishes
  <2>3. QED
    BY <1>0, <2>1, <2>2 DEF Types, PublishInv
<1>4. ASSUME NEW e \in Event, PublishWrap(e) \/ Publishes(e) \/ Returns(e)
      PROVE  Served(e)'
  <2>0. Served(e) /\ done' = done
    BY <1>3, <1>4 DEF ServedInv
  <2>1. CASE PublishWrap(e)
    <3>1. pubPc'[e] = "wait" /\ worker'[e] = "run" /\ pubPc[e] = "idle"
      BY <1>0, <2>1 DEF PublishWrap, Types, PublishInv
    <3>2. UNCHANGED <<successes, successCh, errorCh>>
      BY <2>1 DEF PublishWrap
    <3>3. errorCh[e] = "none"
      BY <2>0, <3>1 DEF Served
    <3>4. QED
      BY <2>0, <3>1, <3>2, <3>3 DEF Served
  <2>2. ASSUME NEW r \in Relay, RelayStores(e, r) \/ RelayRefuses(e, r)
        PROVE  Served(e)'
    <3>1. UNCHANGED <<pubPc, worker, successes, successCh, errorCh>> /\ asked[e] # {}
      BY <2>2 DEF RelayStores, RelayRefuses
    <3>2. QED
      BY <2>0, <3>1 DEF Served
  <2>3. ASSUME NEW a \in answers[e], Read(e, a)
        PROVE  Served(e)'
    <3>1. UNCHANGED <<pubPc, worker, errorCh>> /\ worker[e] = "run"
      BY <2>3 DEF Read
    <3>2. \/ successes'[e] = successes[e] + 1 /\ successCh'[e]
          \/ UNCHANGED <<successes, successCh>>
      BY <1>0, <2>3 DEF Read, Types
    <3>3. successes[e] \in Nat
      BY <1>0 DEF Types
    <3>4. successCh'[e] => successes'[e] > 0
      BY <2>0, <3>2, <3>3 DEF Served
    <3>5. successCh[e] => successCh'[e]
      BY <3>2
    <3>6. QED
      BY <2>0, <3>1, <3>4, <3>5 DEF Served
  <2>4. ASSUME NEW error \in {"failed", "cancelled"}, WorkerEnds(e, error), worker[e] = "run",
               e.from \notin done => error = "failed" /\ asked[e] = {} /\ answers[e] = {}
        PROVE  Served(e)'
    <3>1. /\ UNCHANGED <<pubPc, asked, answers, successes>> /\ worker'[e] = "end"
          /\ \/ successes[e] > 0 /\ successCh'[e] /\ errorCh' = errorCh
             \/ successes[e] = 0 /\ errorCh'[e] = error /\ successCh' = successCh
      BY <1>0, <2>4 DEF WorkerEnds, Types, PublishInv
    <3>2. errorCh[e] = "none" /\ pubPc[e] # "failed"
      BY <2>0, <2>4 DEF Served
    <3>3. CASE successes[e] > 0 /\ successCh'[e] /\ errorCh' = errorCh
      BY <2>0, <2>4, <3>1, <3>2, <3>3 DEF Served
    <3>4. CASE successes[e] = 0 /\ errorCh'[e] = error /\ successCh' = successCh
      BY <2>0, <2>4, <3>1, <3>2, <3>4 DEF Served
    <3>5. QED
      BY <3>1, <3>3, <3>4
  <2>5. CASE Returns(e)
    <3>1. UNCHANGED <<asked, answers, worker, successes, successCh, errorCh>>
      BY <2>5 DEF Returns
    <3>2. /\ pubPc[e] = "wait"
          /\ \/ pubPc'[e] = "ok"
             \/ errorCh[e] # "none" /\ pubPc'[e] = errorCh[e]
             \/ e.from \in done /\ pubPc'[e] = "cancelled"
      BY <1>0, <2>5 DEF Returns, Types
    <3>3. errorCh[e] \in {"none", "failed", "cancelled"}
      BY <1>0 DEF Types
    <3>4. QED
      BY <2>0, <3>1, <3>2, <3>3 DEF Served
  <2>6. AllRead(e) => /\ WorkerEnds(e, "failed") /\ worker[e] = "run"
                      /\ asked[e] = {} /\ answers[e] = {}
    BY DEF AllRead
  <2>7. WorkerCancelled(e) => /\ worker[e] = "run" /\ e.from \in done
                              /\ \E error \in {"failed", "cancelled"} : WorkerEnds(e, error)
    BY DEF WorkerCancelled
  <2>8. QED
    BY <1>4, <2>1, <2>2, <2>3, <2>4, <2>5, <2>6, <2>7 DEF Publishes
<1>5. ASSUME NEW e \in Event, PublishWrap(e) \/ Publishes(e) \/ Returns(e)
      PROVE  ServedInv'
  <2> SUFFICES ASSUME NEW f \in Event  PROVE Served(f)'
    BY DEF ServedInv
  <2>1. CASE f = e
    BY <1>4, <1>5, <2>1
  <2>2. CASE f # e
    BY <1>3, <1>5, <2>2 DEF ServedInv, Served
  <2>3. QED
    BY <2>1, <2>2
<1>6. QED
  BY <1>1, <1>2, <1>5 DEF Next, Elsewhere

\* PublishWrap's caller never waits for a worker that has ended without a word, and an
\* error is the last word: unless its context is done, every relay was asked, each
\* answer was read, and none was a success.
THEOREM ErrorsAreUnanimous ==
  Spec => [](\A e \in Event :
               /\ pubPc[e] = "wait" => worker[e] = "run" \/ successCh[e] \/ errorCh[e] # "none"
               /\ pubPc[e] = "failed" => successes[e] = 0
               /\ pubPc[e] \in {"failed", "cancelled"} /\ e.from \notin done =>
                    pubPc[e] = "failed" /\ asked[e] = {} /\ answers[e] = {})
<1>1. Init => ServedInv
  <2>1. \A e \in Event : e.from \in Party
    BY ClientAssumption
  <2>2. QED
    BY <2>1 DEF Init, ServedInv, Served
<1>2. IInv /\ CallsInv /\ ServedInv /\ [Next]_vars => ServedInv'
  BY ServedStep
<1>3. Spec => []CallsInv
  BY CallsInit, CallsStep, Invariance, PTL DEF Spec
<1>4. Spec => []ServedInv
  BY <1>1, <1>2, <1>3, Invariance, PTL DEF Spec
<1>5. ServedInv => \A e \in Event :
               /\ pubPc[e] = "wait" => worker[e] = "run" \/ successCh[e] \/ errorCh[e] # "none"
               /\ pubPc[e] = "failed" => successes[e] = 0
               /\ pubPc[e] \in {"failed", "cancelled"} /\ e.from \notin done =>
                    pubPc[e] = "failed" /\ asked[e] = {} /\ answers[e] = {}
  BY DEF ServedInv, Served
<1>6. QED
  BY <1>4, <1>5, PTL

LEMMA SeenStep == ASSUME IInv, SeenInv, [Next]_vars  PROVE SeenInv'
<1>0. Types
  BY DEF IInv
<1>1. ASSUME NEW p \in Party, NEW r \in Relay, NEW e \in Event, Forward(p, r, e)
      PROVE  SeenInv'
  <2>1. /\ relayCh[p] = {} /\ seen' = [seen EXCEPT ![p] = @ \cup {e}]
        /\ relayCh' = [relayCh EXCEPT ![p] = {e}] /\ got' = got
    BY <1>1 DEF Forward
  <2>2. QED
    BY <1>0, <2>1 DEF Types, SeenInv
<1>2. ASSUME NEW p \in Party, Receive(p)
      PROVE  SeenInv'
  <2>1. /\ got' = [got EXCEPT ![p] = @ \cup relayCh[p]]
        /\ relayCh' = [relayCh EXCEPT ![p] = {}] /\ seen' = seen
    BY <1>2 DEF Receive
  <2>2. QED
    BY <1>0, <2>1 DEF Types, SeenInv
<1>3. ASSUME NEW p \in Party, SubscriptionEnds(p)
      PROVE  SeenInv'
  <2>1. /\ got' = [got EXCEPT ![p] = {}] /\ relayCh' = [relayCh EXCEPT ![p] = {}]
        /\ seen' = [seen EXCEPT ![p] = {}]
    BY <1>3 DEF SubscriptionEnds
  <2>2. QED
    BY <1>0, <2>1 DEF Types, SeenInv
<1>4. CASE UNCHANGED <<seen, relayCh, got>>
  BY <1>4 DEF SeenInv
<1>5. ASSUME NEW p \in Party, Subscribe(p) \/ \E r \in Relay : Attach(p, r)
      PROVE  UNCHANGED <<seen, relayCh, got>>
  BY <1>5 DEF Subscribe, Attach
<1>6. ASSUME NEW e \in Event, PublishWrap(e) \/ Publishes(e) \/ Returns(e)
      PROVE  UNCHANGED <<seen, relayCh, got>>
  BY <1>6 DEF PublishWrap, Publishes, RelayStores, RelayRefuses, Read, AllRead, WorkerCancelled,
              WorkerEnds, Returns, subscribeVars
<1>7. CASE Elsewhere \/ UNCHANGED vars
  BY <1>4, <1>7, ElsewhereIdle DEF vars, subscribeVars
<1>8. QED
  BY <1>1, <1>2, <1>3, <1>4, <1>5, <1>6, <1>7 DEF Next, Elsewhere, Follows

\* Following several relays at once loses nothing and repeats nothing: what the pool
\* drops as a duplicate is exactly what the subscriber has read or the forwarder holds,
\* so that an event of any relay is still to come, on its way or read.
THEOREM StreamLosesNothing == Spec => [](\A p \in Party : seen[p] = got[p] \cup relayCh[p])
<1>1. Init => SeenInv
  BY DEF Init, SeenInv
<1>2. IInv /\ SeenInv /\ [Next]_vars => SeenInv'
  BY SeenStep
<1>3. IInv /\ SeenInv => \A p \in Party : seen[p] = got[p] \cup relayCh[p]
  BY DEF IInv, ForwardInv, SeenInv
<1>4. QED
  BY <1>1, <1>2, <1>3, Invariance, PTL DEF Spec
================================================================================
