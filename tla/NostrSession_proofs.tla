-------------------------- MODULE NostrSession_proofs --------------------------
(***************************************************************************)
(* The barrier of AwaitPeers is sound for any committee, any timeouts and  *)
(* any number of calls with the same session id: who passes it was told by *)
(* every peer, lately, that it is ready.                                   *)
(*                                                                         *)
(* The invariant follows the evidence from the relays to the barrier: what *)
(* a subscription is about to stream is recent, and so is the wrap behind  *)
(* each peer that was seen.  A new AwaitPeers forgets both.  GapInv is the *)
(* other direction: no wrap falls between the query and the subscription.  *)
(***************************************************************************)
EXTENDS NostrSession, TLAPS

\* Each peer counted so far has told p lately.
SeenInv ==
  \A p \in Party : pc[p] \in Waiting =>
    \A q \in seen[p] : ToldRecently(p, q)

\* A subscription exists while AwaitPeers waits; it streams recent wraps.
StreamInv ==
  \A p \in Party : /\ pc[p] # "waiting" => pending[p] = {}
                   /\ pending[p] \subseteq Matching(p)

\* AwaitPeers began in the past.
ClockInv == \A p \in Party : awaitFrom[p] <= now

IInv == TypeOK /\ SeenInv /\ StreamInv /\ ClockInv /\ BarrierIsRecent

\* Matching, of the wraps and the beginning it is given.
MatchingOf(p, W, from) == {w \in W : w.to = p /\ w.at >= from - Lookback}

\* The two halves of TypeOK: the call of a party, and the sets of its barrier.
CallType ==
  /\ now \in Nat
  /\ pc \in [Party -> {"idle", "publish", "await", "query", "waiting", "protocol",
                       "complete", "returned"}]
  /\ calls \in [Party -> Nat] /\ \A p \in Party : calls[p] <= MaxCalls[p]
  /\ outcome \in [Party -> {"none", "ok", "publish error", "protocol error",
                            "timeout", "closed"}]
  /\ start \in [Party -> Nat] /\ awaitFrom \in [Party -> Nat]
  /\ querying \in [Party -> BOOLEAN]

SetType ==
  /\ seen \in [Party -> SUBSET Party] /\ todo \in [Party -> SUBSET Party]
  /\ \A p \in Party : seen[p] \subseteq Peers[p] /\ todo[p] \subseteq Peers[p]
  /\ wraps \in SUBSET Wrap
  /\ pending \in [Party -> SUBSET Wrap]
  /\ \A p \in Party : pending[p] \subseteq {w \in wraps : w.to = p}
-----------------------------------------------------------------------------
\* The halves make the whole.
LEMMA TypeParts == TypeOK <=> CallType /\ SetType
  BY DEF TypeOK, CallType, SetType

LEMMA TypePartsNext == TypeOK' <=> CallType' /\ SetType'
  BY DEF TypeOK, CallType, SetType

\* A step at one party leaves the values of the others.
LEMMA Domains ==
  ASSUME CallType, SetType
  PROVE  /\ DOMAIN pc = Party /\ DOMAIN awaitFrom = Party
         /\ DOMAIN seen = Party /\ DOMAIN pending = Party
  BY DEF CallType, SetType

\* What the assumption says of a committee.
LEMMA PeersType ==
  /\ Peers \in [Party -> SUBSET Party]
  /\ \A p \in Party : Peers[p] \in SUBSET Party
  BY SessionAssumption

LEMMA CallsType == MaxCalls \in [Party -> Nat]
  BY SessionAssumption

\* Wraps stay at the relays: what was told stays told until AwaitPeers starts
\* over.
LEMMA ToldStays ==
  ASSUME NEW p \in Party, NEW q \in Party,
         wraps \subseteq wraps', awaitFrom'[p] = awaitFrom[p], ToldRecently(p, q)
  PROVE  ToldRecently(p, q)'
  BY DEF ToldRecently

\* A wrap that a filter of p matches and that counts is p's evidence.
LEMMA SendersTold ==
  ASSUME NEW p \in Party, NEW W \in SUBSET Matching(p), NEW q \in Senders(p, W)
  PROVE  q \in Peers[p] /\ ToldRecently(p, q)
  BY DEF Senders, Matching, Counts, ToldRecently

\* Initially nobody waits.
LEMMA InitIInv == Init => IInv
<1> SUFFICES ASSUME Init PROVE IInv
  OBVIOUS
<1>1. CallType
  BY CallsType DEF Init, CallType
<1>2. SetType
  BY PeersType DEF Init, SetType
<1>3. SeenInv /\ StreamInv /\ ClockInv /\ BarrierIsRecent
  BY DEF Init, SeenInv, StreamInv, ClockInv, BarrierIsRecent, Waiting
<1> QED
  BY <1>1, <1>2, <1>3, TypeParts DEF IInv

\* The sets of the barrier when a step leaves the relays alone.
LEMMA SetFrame ==
  ASSUME SetType, UNCHANGED <<seen, pending, wraps>>,
         todo' = todo \/ \E p \in Party, S \in SUBSET Party :
                            todo' = [todo EXCEPT ![p] = S] /\ S \subseteq Peers[p]
  PROVE  SetType'
<1>1. todo' \in [Party -> SUBSET Party] /\ \A q \in Party : todo'[q] \subseteq Peers[q]
  BY DEF SetType
<1>2. /\ seen' = seen /\ pending' = pending /\ wraps' = wraps
  OBVIOUS
<1>3. \A p \in Party : pending'[p] \subseteq {w \in wraps' : w.to = p}
  BY <1>2 DEF SetType
<1> QED
  BY <1>1, <1>2, <1>3 DEF SetType

\* The call's variables when a step moves one party's call.
LEMMA CallFrame ==
  ASSUME CallType, UNCHANGED <<now, calls, start>>, NEW p \in Party,
         pc' = pc \/ \E s \in {"await", "query", "waiting", "protocol", "returned"} :
                        pc' = [pc EXCEPT ![p] = s],
         outcome' = outcome \/ \E s \in {"ok", "publish error", "timeout", "closed"} :
                                  outcome' = [outcome EXCEPT ![p] = s],
         awaitFrom' = awaitFrom \/ awaitFrom' = [awaitFrom EXCEPT ![p] = now],
         querying' = querying \/ \E b \in BOOLEAN : querying' = [querying EXCEPT ![p] = b]
  PROVE  CallType'
<1>1. pc' \in [Party -> {"idle", "publish", "await", "query", "waiting", "protocol",
                       "complete", "returned"}]
  BY DEF CallType
<1>2. outcome' \in [Party -> {"none", "ok", "publish error", "protocol error",
                            "timeout", "closed"}]
  BY DEF CallType
<1>3. awaitFrom' \in [Party -> Nat]
  <2>1. now \in Nat /\ awaitFrom \in [Party -> Nat]
    BY DEF CallType
  <2> QED
    BY <2>1
<1>4. querying' \in [Party -> BOOLEAN]
  <2>1. querying \in [Party -> BOOLEAN]
    BY DEF CallType
  <2> QED
    BY <2>1
<1> QED
  BY <1>1, <1>2, <1>3, <1>4 DEF CallType

\* Steps that touch neither a barrier nor the relays.
LEMMA QuietStep ==
  ASSUME IInv, TypeOK', UNCHANGED <<awaitFrom, seen, pending, wraps>>, now' \in {now, now + 1},
         \A p \in Party : /\ pc'[p] = "waiting" <=> pc[p] = "waiting"
                          /\ pc'[p] \in Waiting => pc[p] \in Waiting
                          /\ pc'[p] = "protocol" => pc[p] = "protocol"
  PROVE  IInv'
<1>1. SeenInv' /\ StreamInv' /\ BarrierIsRecent'
  BY DEF IInv, SeenInv, StreamInv, BarrierIsRecent, AllReady, ToldRecently, Matching
<1>2. ClockInv'
  <2>1. now \in Nat /\ awaitFrom \in [Party -> Nat]
    BY DEF IInv, TypeOK
  <2> QED
    BY <2>1 DEF IInv, ClockInv
<1> QED
  BY <1>1, <1>2 DEF IInv

\* A party's own step in AwaitPeers.
LEMMA BarrierStep ==
  ASSUME IInv, TypeOK', UNCHANGED <<now, wraps>>, NEW p \in Party,
         \A r \in Party \ {p} : /\ pc'[r] = pc[r] /\ awaitFrom'[r] = awaitFrom[r]
                                /\ seen'[r] = seen[r] /\ pending'[r] = pending[r],
         pc'[p] \in Waiting => \A q \in seen'[p] : ToldRecently(p, q)',
         pc'[p] # "waiting" => pending'[p] = {},
         pending'[p] \subseteq MatchingOf(p, wraps', awaitFrom'[p]),
         pc'[p] = "protocol" => AllReady(p)',
         awaitFrom'[p] <= now
  PROVE  IInv'
<1>1. SeenInv'
  BY DEF IInv, SeenInv, ToldRecently
<1>2. StreamInv'
  BY DEF IInv, StreamInv, Matching, MatchingOf
<1>3. BarrierIsRecent'
  BY DEF IInv, BarrierIsRecent, AllReady, ToldRecently
<1>4. ClockInv'
  BY DEF IInv, ClockInv
<1> QED
  BY <1>1, <1>2, <1>3, <1>4 DEF IInv

\* A step that hands the relays a wrap.
LEMMA RelayStep ==
  ASSUME IInv, TypeOK', UNCHANGED <<now, awaitFrom, seen>>, wraps \subseteq wraps',
         \A p \in Party : /\ pc'[p] = "waiting" <=> pc[p] = "waiting"
                          /\ pc'[p] \in Waiting => pc[p] \in Waiting
                          /\ pc'[p] = "protocol" => pc[p] = "protocol"
                          /\ pc[p] # "waiting" => pending'[p] = pending[p]
                          /\ pending'[p] \subseteq MatchingOf(p, wraps', awaitFrom'[p])
  PROVE  IInv'
<1>1. SeenInv'
  <2>1. \A p \in Party : seen[p] \subseteq Party
    BY DEF IInv, TypeOK
  <2> QED
    BY <2>1, ToldStays DEF IInv, SeenInv
<1>2. StreamInv'
  BY DEF IInv, StreamInv, Matching, MatchingOf
<1>3. BarrierIsRecent'
  BY PeersType, ToldStays DEF IInv, BarrierIsRecent, AllReady
<1>4. ClockInv'
  BY DEF IInv, ClockInv
<1> QED
  BY <1>1, <1>2, <1>3, <1>4 DEF IInv

\* The clock, a new call and the end of the protocol are such steps.
LEMMA CallSteps ==
  ASSUME IInv, Tick \/ \E p \in Party : Call(p) \/ ProtocolEnds(p) PROVE IInv'
<1>0. CallType /\ SetType
  BY TypeParts DEF IInv
<1>1. CASE Tick
  <2>1. CallType'
    <3>1. /\ now' = now + 1 /\ pc' = pc /\ calls' = calls /\ start' = start
          /\ outcome' = outcome /\ awaitFrom' = awaitFrom /\ querying' = querying
      BY <1>1 DEF Tick, callVars
    <3>2. now' \in Nat
      <4>1. now \in Nat
        BY <1>0 DEF CallType
      <4> QED
        BY <4>1, <3>1
    <3> QED
      BY <1>0, <3>1, <3>2 DEF CallType
  <2>2. SetType'
    <3>1. /\ seen' = seen /\ todo' = todo /\ pending' = pending /\ wraps' = wraps
      BY <1>1 DEF Tick
    <3> QED
      BY <1>0, <3>1, SetFrame
  <2> QED
    BY <1>1, <2>1, <2>2, TypePartsNext, QuietStep DEF Tick, callVars
<1>2. ASSUME NEW p \in Party, Call(p) PROVE IInv'
  <2>1. calls' \in [Party -> Nat] /\ \A q \in Party : calls'[q] <= MaxCalls[q]
    <3>1. calls[p] \in Nat /\ MaxCalls[p] \in Nat /\ calls[p] < MaxCalls[p]
          /\ calls' = [calls EXCEPT ![p] = @ + 1]
      BY <1>0, <1>2, CallsType DEF CallType, Call
    <3>2. calls[p] + 1 \in Nat /\ calls[p] + 1 <= MaxCalls[p]
      BY <3>1
    <3> QED
      BY <1>0, <3>1, <3>2 DEF CallType
  <2>4. CallType'
    BY <1>0, <1>2, <2>1 DEF CallType, Call
  <2>2. SetType'
    BY <1>0, <1>2, PeersType, SetFrame DEF Call
  <2>3. UNCHANGED <<now, awaitFrom, seen, pending, wraps>> /\ pc' = [pc EXCEPT ![p] = "publish"]
        /\ pc[p] \in {"idle", "returned"} /\ DOMAIN pc = Party
    BY <1>0, <1>2 DEF Call, CallType
  <2> QED
    BY <2>4, <2>2, <2>3, TypePartsNext, QuietStep DEF Waiting
<1>3. ASSUME NEW p \in Party, ProtocolEnds(p) PROVE IInv'
  <2>1. CallType'
    BY <1>0, <1>3 DEF CallType, ProtocolEnds, Return, callVars
  <2>2. SetType'
    BY <1>0, <1>3, PeersType, SetFrame DEF ProtocolEnds
  <2>3. UNCHANGED <<now, awaitFrom, seen, pending, wraps>> /\ pc[p] = "protocol"
        /\ (pc' = [pc EXCEPT ![p] = "complete"] \/ pc' = [pc EXCEPT ![p] = "returned"])
        /\ DOMAIN pc = Party
    BY <1>0, <1>3 DEF ProtocolEnds, Return, CallType
  <2> QED
    BY <2>1, <2>2, <2>3, TypePartsNext, QuietStep DEF Waiting
<1> QED
  BY <1>1, <1>2, <1>3

\* Putting a wrap at the relays keeps the streams sound: the wrap is new, and q
\* came to the barrier before.
LEMMA PutFacts ==
  ASSUME IInv, NEW p \in Party, NEW q \in Party, NEW phase \in {"ready", "complete"},
         Put(p, q, phase) \/ UNCHANGED <<wraps, pending>>, UNCHANGED awaitFrom
  PROVE  /\ wraps \subseteq wraps' /\ wraps' \in SUBSET Wrap
         /\ pending' \in [Party -> SUBSET Wrap]
         /\ \A r \in Party : /\ pc[r] # "waiting" => pending'[r] = pending[r]
                             /\ pending'[r] \subseteq MatchingOf(r, wraps', awaitFrom'[r])
<1> DEFINE w == [from |-> p, to |-> q, phase |-> phase, at |-> now]
<1>1. /\ now \in Nat /\ Lookback \in Nat /\ awaitFrom \in [Party -> Nat]
      /\ wraps \in SUBSET Wrap /\ pending \in [Party -> SUBSET Wrap]
  BY SessionAssumption DEF IInv, TypeOK
<1>2. w \in Wrap /\ w.to = q /\ w.at = now
  BY <1>1 DEF Wrap
<1>3. w.at >= awaitFrom[q] - Lookback
  <2>1. awaitFrom[q] <= now /\ awaitFrom[q] \in Nat
    BY <1>1 DEF IInv, ClockInv
  <2> QED
    BY <1>1, <1>2, <2>1
<1>4. \A r \in Party : pending[r] \subseteq MatchingOf(r, wraps, awaitFrom[r])
  BY DEF IInv, StreamInv, Matching, MatchingOf
<1>5. CASE UNCHANGED <<wraps, pending>>
  BY <1>1, <1>4, <1>5
<1>6. CASE Put(p, q, phase)
  <2> HIDE DEF w
  <2>1. /\ wraps' = wraps \cup {w}
        /\ pending' = IF pc[q] = "waiting" THEN [pending EXCEPT ![q] = @ \cup {w}] ELSE pending
    BY <1>6 DEF Put, w
  <2>2. \A r \in Party : \/ pending'[r] = pending[r]
                         \/ r = q /\ pc[q] = "waiting" /\ pending'[r] = pending[r] \cup {w}
    BY <1>1, <2>1
  <2>3. w \in MatchingOf(q, wraps', awaitFrom'[q])
    BY <1>2, <1>3, <2>1 DEF MatchingOf
  <2>4. \A r \in Party :
          MatchingOf(r, wraps, awaitFrom[r]) \subseteq MatchingOf(r, wraps', awaitFrom'[r])
    BY <2>1 DEF MatchingOf
  <2>5. \A r \in Party : pending'[r] \subseteq MatchingOf(r, wraps', awaitFrom'[r])
    BY <1>4, <2>2, <2>3, <2>4
  <2> QED
    BY <1>1, <1>2, <2>1, <2>2, <2>5
<1> QED
  BY <1>5, <1>6

\* The sets of the barrier when p has published to q, or tried.
LEMMA PublishSets ==
  ASSUME IInv, NEW p \in Party, NEW q \in Party, NEW phase \in {"ready", "complete"},
         Put(p, q, phase) \/ UNCHANGED <<wraps, pending>>,
         NEW T \in SUBSET todo[p], todo' = [todo EXCEPT ![p] = T], UNCHANGED <<awaitFrom, seen>>
  PROVE  SetType'
<1>1. SetType
  BY TypeParts DEF IInv
<1>a. awaitFrom' = awaitFrom /\ seen' = seen
  OBVIOUS
<1>2. /\ wraps \subseteq wraps' /\ wraps' \in SUBSET Wrap
      /\ pending' \in [Party -> SUBSET Wrap]
      /\ \A r \in Party : /\ pc[r] # "waiting" => pending'[r] = pending[r]
                          /\ pending'[r] \subseteq MatchingOf(r, wraps', awaitFrom'[r])
  BY <1>a, PutFacts
<1>3. \A r \in Party : pending'[r] \subseteq {w \in wraps' : w.to = r}
  <2> TAKE r \in Party
  <2>1. pending'[r] \subseteq MatchingOf(r, wraps', awaitFrom'[r])
    BY <1>2
  <2> QED
    BY <2>1 DEF MatchingOf
<1>4. todo' \in [Party -> SUBSET Party] /\ \A r \in Party : todo'[r] \subseteq Peers[r]
  BY <1>1 DEF SetType
<1>5. seen' \in [Party -> SUBSET Party] /\ \A r \in Party : seen'[r] \subseteq Peers[r]
  BY <1>1 DEF SetType
<1> QED
  BY <1>2, <1>3, <1>4, <1>5 DEF SetType

\* PublishReady and PublishComplete are steps of a party outside the barrier.
LEMMA PublishSteps ==
  ASSUME IInv, NEW p \in Party, PublishReady(p) \/ PublishComplete(p) PROVE IInv'
<1>0. CallType /\ SetType
  BY TypeParts DEF IInv
<1>1. PICK q \in todo[p], phase \in {"ready", "complete"} :
        /\ Put(p, q, phase) \/ UNCHANGED <<wraps, pending>>
        /\ todo' = [todo EXCEPT ![p] = @ \ {q}] \/ todo' = [todo EXCEPT ![p] = {}]
  BY DEF PublishReady, PublishComplete, Published, PublishFailed
<1>2. q \in Party
  BY <1>0 DEF SetType
<1>3. /\ UNCHANGED <<now, calls, start, awaitFrom, querying, seen>>
      /\ pc[p] \in {"publish", "complete"}
      /\ pc' = pc \/ \E s \in {"await", "returned"} : pc' = [pc EXCEPT ![p] = s]
      /\ outcome' = outcome \/ \E s \in {"ok", "publish error"} :
                                  outcome' = [outcome EXCEPT ![p] = s]
  <2>1. CASE PublishReady(p)
    <3>1. \/ UNCHANGED outcome /\ pc' = [pc EXCEPT ![p] = IF todo[p] = {q} THEN "await" ELSE @]
          \/ UNCHANGED outcome /\ pc' = [pc EXCEPT ![p] = "await"]
          \/ UNCHANGED outcome /\ pc' = [pc EXCEPT ![p] = pc[p]]
          \/ Return(p, "publish error")
      BY <2>1 DEF PublishReady
    <3> QED
      BY <1>0, <2>1, <3>1 DEF PublishReady, Return, callVars, CallType
  <2>2. CASE PublishComplete(p)
    BY <1>0, <2>2 DEF PublishComplete, Return, callVars, CallType
  <2> QED
    BY <2>1, <2>2
<1>a. /\ now' = now /\ calls' = calls /\ start' = start /\ awaitFrom' = awaitFrom
      /\ querying' = querying /\ seen' = seen
  BY <1>3
<1>b. /\ pc' = pc \/ \E s \in {"await", "query", "waiting", "protocol", "returned"} :
                        pc' = [pc EXCEPT ![p] = s]
      /\ outcome' = outcome \/ \E s \in {"ok", "publish error", "timeout", "closed"} :
                                  outcome' = [outcome EXCEPT ![p] = s]
  BY <1>3
<1>4. CallType'
  BY <1>0, <1>a, <1>b, CallFrame
<1>5. SetType'
  <2>1. PICK T \in SUBSET todo[p] : todo' = [todo EXCEPT ![p] = T]
    BY <1>1
  <2> QED
    <3>1. Put(p, q, phase) \/ UNCHANGED <<wraps, pending>>
      BY <1>1
    <3>2. UNCHANGED <<awaitFrom, seen>>
      BY <1>a
    <3>3. QED
      BY <1>1, <1>2, <2>1, <3>1, <3>2, PublishSets
<1>6. \A r \in Party : /\ pc'[r] = "waiting" <=> pc[r] = "waiting"
                       /\ pc'[r] \in Waiting => pc[r] \in Waiting
                       /\ pc'[r] = "protocol" => pc[r] = "protocol"
  BY <1>0, <1>3 DEF CallType, Waiting
<1>7. /\ wraps \subseteq wraps'
      /\ \A r \in Party : /\ pc[r] # "waiting" => pending'[r] = pending[r]
                          /\ pending'[r] \subseteq MatchingOf(r, wraps', awaitFrom'[r])
  BY <1>1, <1>2, <1>a, PutFacts
<1>8. TypeOK'
  BY <1>4, <1>5, TypePartsNext
<1>9. \A r \in Party : /\ pc'[r] = "waiting" <=> pc[r] = "waiting"
                       /\ pc'[r] \in Waiting => pc[r] \in Waiting
                       /\ pc'[r] = "protocol" => pc[r] = "protocol"
                       /\ pc[r] # "waiting" => pending'[r] = pending[r]
                       /\ pending'[r] \subseteq MatchingOf(r, wraps', awaitFrom'[r])
  <2> TAKE r \in Party
  <2>1. pc[r] # "waiting" => pending'[r] = pending[r]
    BY <1>7
  <2>2. pending'[r] \subseteq MatchingOf(r, wraps', awaitFrom'[r])
    BY <1>7
  <2> QED
    BY <1>6, <2>1, <2>2
<1> QED
  BY <1>a, <1>7, <1>8, <1>9, RelayStep

\* The sets of the barrier when p's step leaves the relays alone.
LEMMA BarrierSets ==
  ASSUME SetType, wraps' = wraps, todo' = todo, NEW p \in Party,
         seen' = seen \/ \E S \in SUBSET Peers[p] : seen' = [seen EXCEPT ![p] = S],
         pending' = pending
           \/ \E S \in SUBSET Matching(p) : pending' = [pending EXCEPT ![p] = S]
  PROVE  SetType'
<1>1. seen' \in [Party -> SUBSET Party] /\ \A r \in Party : seen'[r] \subseteq Peers[r]
  BY PeersType DEF SetType
<1>2. Matching(p) \subseteq {w \in wraps : w.to = p}
  BY DEF Matching
<1>3. /\ pending' \in [Party -> SUBSET Wrap]
      /\ \A r \in Party : pending'[r] \subseteq {w \in wraps : w.to = r}
  BY <1>2 DEF SetType
<1>4. todo' \in [Party -> SUBSET Party] /\ \A r \in Party : todo'[r] \subseteq Peers[r]
  BY DEF SetType
<1> QED
  BY <1>1, <1>3, <1>4 DEF SetType

\* A new AwaitPeers has seen nobody and has no stream.
LEMMA AwaitStep == ASSUME IInv, NEW p \in Party, AwaitPeers(p) PROVE IInv'
<1>0. CallType /\ SetType
  BY TypeParts DEF IInv
<1>1. /\ now' = now /\ calls' = calls /\ start' = start /\ outcome' = outcome
      /\ todo' = todo /\ pending' = pending /\ wraps' = wraps /\ pc[p] = "await"
      /\ pc' = [pc EXCEPT ![p] = "query"] /\ awaitFrom' = [awaitFrom EXCEPT ![p] = now]
      /\ querying' = [querying EXCEPT ![p] = TRUE] /\ seen' = [seen EXCEPT ![p] = {}]
  BY DEF AwaitPeers, callVars
<1>2. CallType'
  BY <1>0, <1>1, CallFrame
<1>3. SetType'
  BY <1>0, <1>1, BarrierSets
<1>4. pc'[p] = "query" /\ awaitFrom'[p] = now /\ seen'[p] = {} /\ pending'[p] = {}
  BY <1>0, <1>1 DEF CallType, SetType, IInv, StreamInv
<1>5. \A r \in Party \ {p} : /\ pc'[r] = pc[r] /\ awaitFrom'[r] = awaitFrom[r]
                             /\ seen'[r] = seen[r] /\ pending'[r] = pending[r]
  BY <1>0, <1>1 DEF CallType, SetType
<1>6. now \in Nat
  BY <1>0 DEF CallType
<1>7. TypeOK'
  BY <1>2, <1>3, TypePartsNext
<1> QED
  BY <1>1, <1>4, <1>5, <1>6, <1>7, BarrierStep

\* What the query finds is evidence.
LEMMA QueryStep == ASSUME IInv, NEW p \in Party, QueryAnswers(p) PROVE IInv'
<1>0. CallType /\ SetType
  BY TypeParts DEF IInv
<1>1. PICK W \in SUBSET Matching(p) : seen' = [seen EXCEPT ![p] = @ \cup Senders(p, W)]
  BY DEF QueryAnswers
<1>2. /\ now' = now /\ calls' = calls /\ start' = start /\ outcome' = outcome /\ pc' = pc
      /\ awaitFrom' = awaitFrom /\ todo' = todo /\ pending' = pending /\ wraps' = wraps
      /\ pc[p] \in Waiting /\ querying' = [querying EXCEPT ![p] = FALSE]
  BY DEF QueryAnswers, callVars
<1>3. /\ Senders(p, W) \subseteq Peers[p]
      /\ \A q \in Senders(p, W) : ToldRecently(p, q)
  BY SendersTold
<1>4. CallType'
  BY <1>0, <1>2, CallFrame
<1>5. SetType'
  <2>1. seen[p] \cup Senders(p, W) \in SUBSET Peers[p]
    BY <1>0, <1>3 DEF SetType
  <2> QED
    BY <1>0, <1>1, <1>2, <2>1, BarrierSets
<1>6. \A q \in seen'[p] : ToldRecently(p, q)'
  <2>1. \A q \in seen'[p] : q \in Party /\ ToldRecently(p, q)
    BY <1>0, <1>1, <1>2, <1>3, PeersType DEF SetType, IInv, SeenInv
  <2> QED
    BY <1>2, <2>1, ToldStays
<1>7. \A r \in Party \ {p} : /\ pc'[r] = pc[r] /\ awaitFrom'[r] = awaitFrom[r]
                             /\ seen'[r] = seen[r] /\ pending'[r] = pending[r]
  BY <1>0, <1>1, <1>2 DEF SetType
<1>8. TypeOK'
  BY <1>4, <1>5, TypePartsNext
<1>9. /\ pc'[p] # "waiting" => pending'[p] = {}
      /\ pending'[p] \subseteq MatchingOf(p, wraps', awaitFrom'[p])
      /\ pc'[p] # "protocol" /\ awaitFrom'[p] <= now
  BY <1>2 DEF IInv, StreamInv, ClockInv, Matching, MatchingOf, Waiting
<1> QED
  BY <1>2, <1>6, <1>7, <1>8, <1>9, BarrierStep

\* The subscription starts with what its filter matches.
LEMMA SubscribeStep == ASSUME IInv, NEW p \in Party, Subscribe(p) PROVE IInv'
<1>0. CallType /\ SetType
  BY TypeParts DEF IInv
<1>1. /\ now' = now /\ calls' = calls /\ start' = start /\ outcome' = outcome
      /\ awaitFrom' = awaitFrom /\ todo' = todo /\ seen' = seen /\ wraps' = wraps
      /\ querying' = querying /\ pc[p] = "query" /\ pc' = [pc EXCEPT ![p] = "waiting"]
      /\ pending' = [pending EXCEPT ![p] = Matching(p)]
  BY DEF Subscribe, callVars
<1>2. CallType'
  BY <1>0, <1>1, CallFrame
<1>3. SetType'
  BY <1>0, <1>1, BarrierSets
<1>4. pc'[p] = "waiting" /\ pending'[p] = Matching(p)
  BY <1>0, <1>1 DEF CallType, SetType
<1>5. \A r \in Party \ {p} : /\ pc'[r] = pc[r] /\ awaitFrom'[r] = awaitFrom[r]
                             /\ seen'[r] = seen[r] /\ pending'[r] = pending[r]
  BY <1>0, <1>1 DEF CallType, SetType
<1>6. \A q \in seen'[p] : ToldRecently(p, q)'
  <2>1. \A q \in seen'[p] : q \in Party /\ ToldRecently(p, q)
    BY <1>0, <1>1 DEF SetType, IInv, SeenInv, Waiting
  <2> QED
    BY <1>1, <2>1, ToldStays
<1>7. TypeOK'
  BY <1>2, <1>3, TypePartsNext
<1>8. pending'[p] \subseteq MatchingOf(p, wraps', awaitFrom'[p]) /\ awaitFrom'[p] <= now
  BY <1>1, <1>4 DEF IInv, ClockInv, Matching, MatchingOf
<1> QED
  BY <1>1, <1>4, <1>5, <1>6, <1>7, <1>8, BarrierStep

\* What the subscription streams is evidence; the last peer opens the barrier.
LEMMA ReceiveStep ==
  ASSUME IInv, NEW p \in Party, NEW w \in pending[p], Receive(p, w) PROVE IInv'
<1>0. CallType /\ SetType
  BY TypeParts DEF IInv
<1>1. /\ now' = now /\ calls' = calls /\ start' = start /\ outcome' = outcome
      /\ awaitFrom' = awaitFrom /\ todo' = todo /\ wraps' = wraps /\ pc[p] = "waiting"
      /\ seen' = [seen EXCEPT ![p] = @ \cup Senders(p, {w})]
  BY DEF Receive, callVars
<1>2. \/ /\ AllPeersSeen(p, seen'[p]) /\ pc' = [pc EXCEPT ![p] = "protocol"]
         /\ querying' = [querying EXCEPT ![p] = FALSE]
         /\ pending' = [pending EXCEPT ![p] = {}]
      \/ /\ pc' = pc /\ querying' = querying
         /\ pending' = [pending EXCEPT ![p] = @ \ {w}]
  BY DEF Receive, EnterProtocol, StopAwaiting
<1>3. /\ Senders(p, {w}) \subseteq Peers[p]
      /\ \A q \in Senders(p, {w}) : ToldRecently(p, q)
  <2>1. {w} \in SUBSET Matching(p)
    BY DEF IInv, StreamInv
  <2> QED
    BY <2>1, SendersTold
<1>4. CallType'
  BY <1>0, <1>1, <1>2, CallFrame
<1>5. SetType'
  <2>1. seen[p] \cup Senders(p, {w}) \in SUBSET Peers[p]
    BY <1>0, <1>3 DEF SetType
  <2>2. {} \in SUBSET Matching(p) /\ pending[p] \ {w} \in SUBSET Matching(p)
    BY DEF IInv, StreamInv
  <2>3. \E S \in SUBSET Matching(p) : pending' = [pending EXCEPT ![p] = S]
    BY <1>2, <2>2
  <2> QED
    BY <1>0, <1>1, <2>1, <2>3, BarrierSets
<1>6. \A q \in seen'[p] : q \in Party /\ ToldRecently(p, q)'
  <2>1. \A q \in seen'[p] : q \in Party /\ ToldRecently(p, q)
    BY <1>0, <1>1, <1>3, PeersType DEF SetType, IInv, SeenInv, Waiting
  <2> QED
    BY <1>1, <2>1, ToldStays
<1>7. AllPeersSeen(p, seen'[p]) => AllReady(p)'
  BY <1>6 DEF AllPeersSeen, AllReady
<1>8. \A r \in Party \ {p} : /\ pc'[r] = pc[r] /\ awaitFrom'[r] = awaitFrom[r]
                             /\ seen'[r] = seen[r] /\ pending'[r] = pending[r]
  BY <1>0, <1>1, <1>2, Domains
<1>9. TypeOK'
  BY <1>4, <1>5, TypePartsNext
<1>10. /\ pc'[p] # "waiting" => pending'[p] = {}
       /\ pending'[p] \subseteq MatchingOf(p, wraps', awaitFrom'[p])
       /\ pc'[p] = "protocol" => AllReady(p)'
       /\ awaitFrom'[p] <= now
  <2>1. pending[p] \subseteq MatchingOf(p, wraps', awaitFrom'[p]) /\ awaitFrom'[p] <= now
    BY <1>1 DEF IInv, StreamInv, ClockInv, Matching, MatchingOf
  <2> QED
    <3>1. CASE pc' = [pc EXCEPT ![p] = "protocol"] /\ pending' = [pending EXCEPT ![p] = {}]
               /\ AllPeersSeen(p, seen'[p])
      <4>1. pc'[p] = "protocol" /\ pending'[p] = {}
        BY <1>0, <3>1 DEF CallType, SetType
      <4> QED
        BY <1>7, <2>1, <3>1, <4>1
    <3>2. CASE pc' = pc /\ pending' = [pending EXCEPT ![p] = @ \ {w}]
      <4>1. pc'[p] = "waiting" /\ pending'[p] \subseteq pending[p]
        BY <1>0, <1>1, <3>2 DEF SetType
      <4> QED
        BY <2>1, <4>1
    <3> QED
      BY <1>2, <3>1, <3>2
<1> QED
  BY <1>1, <1>6, <1>8, <1>9, <1>10, BarrierStep

\* Leaving the barrier closes the stream; the ticker opens it on what was seen.
LEMMA LeaveSteps ==
  ASSUME IInv, NEW p \in Party, CheckSeen(p) \/ TimeOut(p) \/ Disconnect(p) PROVE IInv'
<1>0. CallType /\ SetType
  BY TypeParts DEF IInv
<1>1. /\ now' = now /\ calls' = calls /\ start' = start /\ seen' = seen
      /\ awaitFrom' = awaitFrom /\ todo' = todo /\ wraps' = wraps /\ pc[p] = "waiting"
      /\ querying' = [querying EXCEPT ![p] = FALSE] /\ pending' = [pending EXCEPT ![p] = {}]
      /\ \/ /\ AllPeersSeen(p, seen[p]) /\ outcome' = outcome
            /\ pc' = [pc EXCEPT ![p] = "protocol"]
         \/ /\ pc' = [pc EXCEPT ![p] = "returned"]
            /\ \E how \in {"timeout", "closed"} : outcome' = [outcome EXCEPT ![p] = how]
  BY DEF CheckSeen, TimeOut, Disconnect, EnterProtocol, StopAwaiting, Return, callVars
<1>2. CallType'
  BY <1>0, <1>1, CallFrame
<1>3. SetType'
  <2>1. {} \in SUBSET Matching(p)
    OBVIOUS
  <2> QED
    BY <1>0, <1>1, <2>1, BarrierSets
<1>4. \A q \in seen'[p] : q \in Party /\ ToldRecently(p, q)'
  <2>1. \A q \in seen'[p] : q \in Party /\ ToldRecently(p, q)
    BY <1>0, <1>1 DEF SetType, IInv, SeenInv, Waiting
  <2> QED
    BY <1>1, <2>1, ToldStays
<1>5. pc'[p] = "protocol" => AllReady(p)'
  BY <1>0, <1>1, <1>4 DEF CallType, AllPeersSeen, AllReady
<1>6. \A r \in Party \ {p} : /\ pc'[r] = pc[r] /\ awaitFrom'[r] = awaitFrom[r]
                             /\ seen'[r] = seen[r] /\ pending'[r] = pending[r]
  BY <1>0, <1>1, Domains
<1>7. TypeOK'
  BY <1>2, <1>3, TypePartsNext
<1>8. pending'[p] = {} /\ awaitFrom'[p] <= now
  BY <1>0, <1>1 DEF SetType, IInv, ClockInv
<1> QED
  BY <1>1, <1>4, <1>5, <1>6, <1>7, <1>8, BarrierStep

\* Every step keeps the invariant.
LEMMA NextIInv == ASSUME IInv, [Next]_vars PROVE IInv'
<1>1. CASE Tick
  BY <1>1, CallSteps
<1>2. ASSUME NEW p \in Party, Call(p) \/ ProtocolEnds(p) PROVE IInv'
  BY <1>2, CallSteps
<1>3. ASSUME NEW p \in Party, PublishReady(p) \/ PublishComplete(p) PROVE IInv'
  BY <1>3, PublishSteps
<1>4. ASSUME NEW p \in Party, AwaitPeers(p) PROVE IInv'
  BY <1>4, AwaitStep
<1>5. ASSUME NEW p \in Party, QueryAnswers(p) PROVE IInv'
  BY <1>5, QueryStep
<1>6. ASSUME NEW p \in Party, Subscribe(p) PROVE IInv'
  BY <1>6, SubscribeStep
<1>7. ASSUME NEW p \in Party, NEW w \in pending[p], Receive(p, w) PROVE IInv'
  BY <1>7, ReceiveStep
<1>8. ASSUME NEW p \in Party, CheckSeen(p) \/ TimeOut(p) \/ Disconnect(p) PROVE IInv'
  BY <1>8, LeaveSteps
<1>9. CASE UNCHANGED vars
  <2>1. /\ now' = now /\ pc' = pc /\ calls' = calls /\ outcome' = outcome /\ start' = start
        /\ awaitFrom' = awaitFrom /\ todo' = todo /\ querying' = querying /\ seen' = seen
        /\ pending' = pending /\ wraps' = wraps
    BY <1>9 DEF vars
  <2>2. CallType' /\ SetType'
    BY <2>1, TypeParts DEF IInv, CallType, SetType
  <2> QED
    BY <2>1, <2>2, TypePartsNext, QuietStep
<1> QED
  BY <1>1, <1>2, <1>3, <1>4, <1>5, <1>6, <1>7, <1>8, <1>9 DEF Next

\* The invariant holds for ever.
THEOREM Invariance == Spec => []IInv
<1>1. IInv /\ [Next]_vars => IInv'
  BY NextIInv
<1> QED
  BY <1>1, InitIInv, PTL DEF Spec

\* Type correctness: only peers are awaited and told, and a stream holds stored
\* wraps of its party only.
THEOREM TypeCorrect == Spec => []TypeOK
<1>1. IInv => TypeOK
  BY DEF IInv
<1> QED
  BY <1>1, Invariance, PTL

\* The barrier of AwaitPeers: whoever enters the protocol was told by every peer
\* that it is ready, within the lookback before it came.
THEOREM BarrierSound == Spec => []BarrierIsRecent
<1>1. IInv => BarrierIsRecent
  BY DEF IInv
<1> QED
  BY <1>1, Invariance, PTL
-----------------------------------------------------------------------------
(* Nothing falls between the query and the subscription *)

\* While AwaitPeers waits, a ready wrap that its filter matches is still to be
\* streamed, or its sender was seen.
StreamedOrSeen(p) == \A w \in Matching(p) : Counts(p, w) => w \in pending[p] \/ w.from \in seen[p]
GapInv == \A p \in Party : pc[p] = "waiting" => StreamedOrSeen(p)

\* What a step may do to a barrier that waits: its subscription streams what is new
\* at the relays, and what it takes from the stream it counts.
LEMMA WaitingStep ==
  ASSUME NEW r \in Party, StreamedOrSeen(r), awaitFrom'[r] = awaitFrom[r],
         seen[r] \subseteq seen'[r],
         \A w \in wraps' \ wraps : w.to = r => w \in pending'[r],
         \A w \in pending[r] \ pending'[r] : Counts(r, w) => w.from \in seen'[r]
  PROVE  StreamedOrSeen(r)'
<1>1. SUFFICES ASSUME NEW w \in Matching(r)', Counts(r, w)
               PROVE  w \in pending'[r] \/ w.from \in seen'[r]
  BY DEF StreamedOrSeen, Counts
<1>2. CASE w \in wraps
  <2>1. w \in Matching(r)
    BY <1>1, <1>2 DEF Matching
  <2>2. w \in pending[r] \/ w.from \in seen[r]
    BY <1>1, <2>1 DEF StreamedOrSeen
  <2>3. QED
    BY <1>1, <2>2
<1>3. CASE w \notin wraps
  BY <1>1, <1>3 DEF Matching
<1>4. QED
  BY <1>2, <1>3

\* Steps outside the barriers, which may hand the relays a wrap.
LEMMA GapPublish ==
  ASSUME IInv, GapInv, NEW p \in Party, PublishReady(p) \/ PublishComplete(p)  PROVE GapInv'
<1>0. CallType /\ SetType
  BY TypeParts DEF IInv
<1>1. PICK q \in todo[p], phase \in {"ready", "complete"} :
        Put(p, q, phase) \/ UNCHANGED <<wraps, pending>>
  BY DEF PublishReady, PublishComplete, Published, PublishFailed
<1>2. q \in Party /\ awaitFrom' = awaitFrom /\ seen' = seen
  BY <1>0 DEF SetType, PublishReady, PublishComplete
<1>3. \A r \in Party : pc'[r] = "waiting" => pc[r] = "waiting"
  <2>1. pc[p] \in {"publish", "complete"}
        /\ (pc' = pc \/ \E s \in {"await", "returned"} : pc' = [pc EXCEPT ![p] = s])
    <3>1. CASE PublishReady(p)
      <4>1. \/ \E x \in todo[p] : pc' = [pc EXCEPT ![p] = IF todo[p] = {x} THEN "await" ELSE @]
            \/ pc' = [pc EXCEPT ![p] = "returned"]
        BY <3>1 DEF PublishReady, Return
      <4>2. pc[p] = "publish"
        BY <3>1 DEF PublishReady
      <4>3. QED
        BY <1>0, <4>1, <4>2 DEF CallType
    <3>2. CASE PublishComplete(p)
      BY <3>2 DEF PublishComplete, Return
    <3>3. QED
      BY <3>1, <3>2
  <2>2. QED
    BY <1>0, <2>1 DEF CallType
<1>4. ASSUME NEW r \in Party, pc[r] = "waiting"
      PROVE  /\ \A w \in wraps' \ wraps : w.to = r => w \in pending'[r]
             /\ pending[r] \subseteq pending'[r]
  BY <1>0, <1>1, <1>2, <1>4 DEF Put, SetType
<1>5. QED
  BY <1>2, <1>3, <1>4, WaitingStep DEF GapInv

\* The steps of AwaitPeers itself.
LEMMA GapBarrier ==
  ASSUME IInv, GapInv, NEW p \in Party,
         \/ AwaitPeers(p) \/ QueryAnswers(p) \/ Subscribe(p)
         \/ \E w \in pending[p] : Receive(p, w)
         \/ CheckSeen(p) \/ TimeOut(p) \/ Disconnect(p)
  PROVE  GapInv'
<1>0. CallType /\ SetType
  BY TypeParts DEF IInv
<1>1. wraps' = wraps
  BY DEF AwaitPeers, QueryAnswers, Subscribe, Receive, CheckSeen, TimeOut, Disconnect
<1>2. ASSUME NEW r \in Party \ {p}
      PROVE  pc'[r] = pc[r] /\ awaitFrom'[r] = awaitFrom[r] /\ seen'[r] = seen[r]
             /\ pending'[r] = pending[r]
  <2>1. CASE AwaitPeers(p)
    <3>1. /\ pc' = [pc EXCEPT ![p] = "query"] /\ awaitFrom' = [awaitFrom EXCEPT ![p] = now]
          /\ seen' = [seen EXCEPT ![p] = {}] /\ pending' = pending
      BY <2>1 DEF AwaitPeers
    <3>2. QED
      BY <1>0, <3>1, Domains
  <2>b. CASE Subscribe(p)
    <3>1. /\ pc' = [pc EXCEPT ![p] = "waiting"] /\ UNCHANGED <<awaitFrom, seen>>
          /\ pending' = [pending EXCEPT ![p] = Matching(p)]
      BY <2>b DEF Subscribe
    <3>2. QED
      BY <1>0, <3>1, Domains
  <2>a. CASE QueryAnswers(p)
    <3>1. PICK W \in SUBSET Matching(p) : seen' = [seen EXCEPT ![p] = @ \cup Senders(p, W)]
      BY <2>a DEF QueryAnswers
    <3>2. UNCHANGED <<pc, awaitFrom, pending>>
      BY <2>a DEF QueryAnswers
    <3>3. QED
      BY <1>0, <3>1, <3>2 DEF SetType
  <2>2. ASSUME NEW w \in pending[p], Receive(p, w)
        PROVE  pc'[r] = pc[r] /\ awaitFrom'[r] = awaitFrom[r] /\ seen'[r] = seen[r]
               /\ pending'[r] = pending[r]
    <3>1. /\ awaitFrom' = awaitFrom /\ seen' = [seen EXCEPT ![p] = @ \cup Senders(p, {w})]
          /\ pc' = pc \/ pc' = [pc EXCEPT ![p] = "protocol"]
          /\ pending' = [pending EXCEPT ![p] = {}] \/ pending' = [pending EXCEPT ![p] = @ \ {w}]
      BY <2>2 DEF Receive, EnterProtocol, StopAwaiting
    <3>2. QED
      BY <1>0, <3>1, Domains
  <2>3. CASE CheckSeen(p) \/ TimeOut(p) \/ Disconnect(p)
    <3>1. /\ pc' = [pc EXCEPT ![p] = "protocol"] \/ pc' = [pc EXCEPT ![p] = "returned"]
          /\ pending' = [pending EXCEPT ![p] = {}] /\ UNCHANGED <<awaitFrom, seen>>
      BY <2>3 DEF CheckSeen, TimeOut, Disconnect, EnterProtocol, StopAwaiting, Return
    <3>2. QED
      BY <1>0, <3>1, Domains
  <2>4. QED
    BY <2>1, <2>a, <2>b, <2>2, <2>3
<1>3. pc'[p] = "waiting" => StreamedOrSeen(p)'
  <2>1. CASE AwaitPeers(p) \/ CheckSeen(p) \/ TimeOut(p) \/ Disconnect(p)
    <3>1. pc'[p] # "waiting"
      BY <1>0, <2>1 DEF CallType, AwaitPeers, CheckSeen, TimeOut, Disconnect, EnterProtocol, Return
    <3>2. QED
      BY <3>1
  <2>2. CASE QueryAnswers(p)
    <3>1. pc' = pc /\ awaitFrom' = awaitFrom /\ pending' = pending /\ seen[p] \subseteq seen'[p]
      BY <1>0, <2>2 DEF SetType, QueryAnswers
    <3>2. QED
      BY <1>1, <3>1, WaitingStep DEF GapInv
  <2>3. CASE Subscribe(p)
    <3>1. pending'[p] = Matching(p) /\ awaitFrom' = awaitFrom
      BY <1>0, <2>3 DEF SetType, Subscribe
    <3>2. QED
      BY <1>1, <3>1 DEF StreamedOrSeen, Matching
  <2>4. ASSUME NEW w \in pending[p], Receive(p, w), pc'[p] = "waiting"
        PROVE  StreamedOrSeen(p)'
    <3>1. /\ pc[p] = "waiting" /\ awaitFrom' = awaitFrom
          /\ seen' = [seen EXCEPT ![p] = @ \cup Senders(p, {w})]
      BY <2>4 DEF Receive
    <3>2. pending' = [pending EXCEPT ![p] = @ \ {w}]
      BY <1>0, <2>4 DEF Receive, EnterProtocol, CallType
    <3>3. seen'[p] = seen[p] \cup Senders(p, {w}) /\ pending'[p] = pending[p] \ {w}
      BY <1>0, <3>1, <3>2 DEF SetType
    <3>4. Counts(p, w) => w.from \in Senders(p, {w})
      BY DEF Senders
    <3>5. QED
      BY <1>1, <3>1, <3>3, <3>4, WaitingStep DEF GapInv
  <2>5. QED
    BY <2>1, <2>2, <2>3, <2>4
<1>4. ASSUME NEW r \in Party \ {p}, pc'[r] = "waiting"  PROVE StreamedOrSeen(r)'
  <2>1. StreamedOrSeen(r)
    BY <1>2, <1>4 DEF GapInv
  <2>2. QED
    BY <1>1, <1>2, <2>1, WaitingStep
<1>5. QED
  BY <1>3, <1>4 DEF GapInv

LEMMA GapStep == IInv /\ GapInv /\ [Next]_vars => GapInv'
<1> SUFFICES ASSUME IInv, GapInv, [Next]_vars  PROVE GapInv'
  OBVIOUS
<1>0. CallType
  BY TypeParts DEF IInv
<1>1. CASE Tick \/ UNCHANGED vars
  BY <1>1 DEF Tick, vars, GapInv, StreamedOrSeen, Matching, Counts
<1>2. ASSUME NEW p \in Party, Call(p) \/ ProtocolEnds(p)  PROVE GapInv'
  <2>1. /\ UNCHANGED <<awaitFrom, seen, pending, wraps>>
        /\ \E s \in {"publish", "complete", "returned"} : pc' = [pc EXCEPT ![p] = s]
    BY <1>2 DEF Call, ProtocolEnds, Return
  <2>2. \A r \in Party : pc'[r] = "waiting" => pc[r] = "waiting"
    BY <1>0, <2>1 DEF CallType
  <2>3. QED
    BY <2>1, <2>2 DEF GapInv, StreamedOrSeen, Matching, Counts
<1>3. QED
  BY <1>1, <1>2, GapPublish, GapBarrier DEF Next

\* Once every peer's ready wrap of the last minute is at the relays, a barrier that
\* waits can always go on: all peers were seen, or the wrap of one that was not is
\* about to be streamed, whether it was published before, between or after the query
\* and the subscription.
THEOREM ReadyIsOnItsWay ==
  Spec => [](\A p \in Party : pc[p] = "waiting" /\ AllReady(p) =>
               \/ AllPeersSeen(p, seen[p])
               \/ \E w \in pending[p] : Counts(p, w) /\ w.from \notin seen[p])
<1>1. Init => GapInv
  BY DEF Init, GapInv
<1>2. Spec => []GapInv
  BY <1>1, GapStep, Invariance, PTL DEF Spec
<1>3. GapInv => \A p \in Party : pc[p] = "waiting" /\ AllReady(p) =>
                  \/ AllPeersSeen(p, seen[p])
                  \/ \E w \in pending[p] : Counts(p, w) /\ w.from \notin seen[p]
  <2>1. SUFFICES ASSUME GapInv, NEW p \in Party, pc[p] = "waiting", AllReady(p),
                        NEW q \in Peers[p], q \notin seen[p]
                 PROVE  \E w \in pending[p] : Counts(p, w) /\ w.from \notin seen[p]
    BY DEF AllPeersSeen
  <2>2. PICK w \in wraps : /\ w.from = q /\ w.to = p /\ w.phase = "ready"
                           /\ w.at >= awaitFrom[p] - Lookback
    BY <2>1 DEF AllReady, ToldRecently
  <2>3. w \in Matching(p) /\ Counts(p, w)
    BY <2>1, <2>2 DEF Matching, Counts
  <2>4. QED
    BY <2>1, <2>2, <2>3 DEF GapInv, StreamedOrSeen
<1>4. QED
  BY <1>2, <1>3, PTL
================================================================================
