------------------------------ MODULE RelayClient ------------------------------
(***************************************************************************)
(* The Nostr relay client of tss/nostrtransport/client.go over several     *)
(* relays: NewClient connects until one relay answers, PublishWrap sends   *)
(* to the relays in urls and returns at the first success, Subscribe       *)
(* follows every relay of the configuration.  Relays go down and come back.*)
(*                                                                         *)
(* The pool of go-nostr is external: PublishMany dials, sends and reports  *)
(* one result per relay; SubscribeMany dials every relay again when it     *)
(* comes back and drops the duplicates of an event.  NewClient's background*)
(* connections only warm that pool, so they are left out.                  *)
(***************************************************************************)
EXTENDS Naturals, Sequences, FiniteSets, Functions

CONSTANTS
  Party,
  Relay,
  Relays,      \* Relays[p]: validRelays of p's client
  Event,       \* the events published: records with from, to
  MaxOutages   \* bound: how often a relay goes down

ASSUME ClientAssumption ==
  /\ IsFiniteSet(Relay) /\ Relays \in [Party -> (SUBSET Relay) \ {{}}]
  /\ \A e \in Event : {e.from, e.to} \subseteq Party
  /\ MaxOutages \in Nat

VARIABLES
  up, outages, \* relays that run; how often one stopped
  flaky,       \* history: relays that were down at some time
  held,        \* events each relay holds
  cPc,         \* NewClient of each party, and its client once it is open
  dials,       \* running tryConnect calls
  connectedCh, \* the channel they report to
  urls,        \* the client's urls: the relays it publishes to
  done,        \* parties whose session context is done
  pubPc,       \* the PublishWrap call of each event, or its result
  asked,       \* relays PublishMany has no result of
  answers,     \* its results the worker has not read
  worker,      \* the goroutine that reads them
  successes, failures,  \* its counters
  successCh, errorCh,   \* what it has for the caller
  sPc,         \* the subscription of each party
  streams,     \* relays it is open at
  seen,        \* events the pool has passed on
  relayCh,     \* the one the forwarder holds
  got          \* events the subscriber has read

clientVars    == <<cPc, dials, connectedCh, urls>>
publishVars   == <<pubPc, asked, answers, worker, successes, failures, successCh, errorCh>>
subscribeVars == <<sPc, streams, seen, relayCh, got>>
relayVars     == <<up, outages, flaky, held>>
vars == <<relayVars, clientVars, done, publishVars, subscribeVars>>

TypeOK ==
  /\ up \subseteq Relay /\ flaky \subseteq Relay /\ outages \in 0..MaxOutages
  /\ held \in [Relay -> SUBSET Event] /\ done \subseteq Party
  /\ cPc \in [Party -> {"dial", "wait", "open", "closed"}]
  /\ \A p \in Party :
       /\ dials[p] \subseteq Relays[p]
       /\ connectedCh[p] \in Seq(Relays[p]) /\ urls[p] \in Seq(Relays[p])
       /\ Len(connectedCh[p]) <= Cardinality(Relays[p])
  /\ pubPc \in [Event -> {"idle", "wait", "ok", "failed", "cancelled"}]
  /\ worker \in [Event -> {"off", "run", "end"}]
  /\ \A e \in Event : /\ asked[e] \subseteq Range(urls[e.from])
                      /\ answers[e] \subseteq [relay : Relay, ok : BOOLEAN]
                      /\ successes[e] + failures[e] <= Len(urls[e.from])
  /\ successCh \in [Event -> BOOLEAN]
  /\ errorCh \in [Event -> {"none", "failed", "cancelled"}]
  /\ sPc \in [Party -> {"idle", "open", "closed"}]
  /\ \A p \in Party : /\ streams[p] \subseteq Relays[p]
                      /\ relayCh[p] \cup got[p] \subseteq seen[p]
                      /\ seen[p] \subseteq Event

Init ==
  /\ up \in SUBSET Relay /\ flaky = Relay \ up /\ outages = 0 /\ done = {}
  /\ held = [r \in Relay |-> {}]
  /\ cPc = [p \in Party |-> "dial"] /\ sPc = [p \in Party |-> "idle"]
  /\ dials = [p \in Party |-> {}] /\ connectedCh = [p \in Party |-> <<>>]
  /\ urls = [p \in Party |-> <<>>]
  /\ pubPc = [e \in Event |-> "idle"] /\ worker = [e \in Event |-> "off"]
  /\ asked = [e \in Event |-> {}] /\ answers = [e \in Event |-> {}]
  /\ successes = [e \in Event |-> 0] /\ failures = [e \in Event |-> 0]
  /\ successCh = [e \in Event |-> FALSE] /\ errorCh = [e \in Event |-> "none"]
  /\ streams = [p \in Party |-> {}] /\ seen = [p \in Party |-> {}]
  /\ relayCh = [p \in Party |-> {}] /\ got = [p \in Party |-> {}]

(***************************************************************************)
(* NewClient and Close                                                     *)
(***************************************************************************)
\* Every round dials all relays: connectedSet is empty until the call returns.
Dial(p) ==
  /\ cPc[p] = "dial"
  /\ cPc' = [cPc EXCEPT ![p] = "wait"]
  /\ dials' = [dials EXCEPT ![p] = Relays[p]]
  /\ UNCHANGED <<relayVars, connectedCh, urls, done, publishVars, subscribeVars>>

\* tryConnect; its send blocks while connectedCh is full.
Connected(p, r) ==
  /\ r \in dials[p] /\ r \in up /\ Len(connectedCh[p]) < Cardinality(Relays[p])
  /\ dials' = [dials EXCEPT ![p] = @ \ {r}]
  /\ connectedCh' = [connectedCh EXCEPT ![p] = Append(@, r)]
  /\ UNCHANGED <<relayVars, cPc, urls, done, publishVars, subscribeVars>>

ConnectFails(p, r) ==
  /\ r \in dials[p] /\ r \notin up
  /\ dials' = [dials EXCEPT ![p] = @ \ {r}]
  /\ UNCHANGED <<relayVars, cPc, connectedCh, urls, done, publishVars, subscribeVars>>

\* The first connection: the call returns with this relay alone.
FirstConnected(p) ==
  /\ cPc[p] = "wait" /\ connectedCh[p] # <<>>
  /\ cPc' = [cPc EXCEPT ![p] = "open"]
  /\ urls' = [urls EXCEPT ![p] = <<Head(connectedCh[p])>>]
  /\ dials' = [dials EXCEPT ![p] = {}]
  /\ connectedCh' = [connectedCh EXCEPT ![p] = <<>>]
  /\ UNCHANGED <<relayVars, done, publishVars, subscribeVars>>

\* Five seconds without a connection; a second later the relays are dialled again.
DialTimeout(p) ==
  /\ cPc[p] = "wait"
  /\ cPc' = [cPc EXCEPT ![p] = "dial"]
  /\ UNCHANGED <<relayVars, dials, connectedCh, urls, done, publishVars, subscribeVars>>

Close(p) ==
  /\ cPc[p] = "open"
  /\ cPc' = [cPc EXCEPT ![p] = "closed"]
  /\ streams' = [streams EXCEPT ![p] = {}]
  /\ UNCHANGED <<relayVars, dials, connectedCh, urls, done, publishVars,
                 sPc, seen, relayCh, got>>

(***************************************************************************)
(* PublishWrap: the caller, its worker, and the pool's PublishMany         *)
(***************************************************************************)
PublishWrap(e) ==
  /\ pubPc[e] = "idle" /\ cPc[e.from] = "open"
  /\ pubPc' = [pubPc EXCEPT ![e] = "wait"]
  /\ asked' = [asked EXCEPT ![e] = Range(urls[e.from])]
  /\ worker' = [worker EXCEPT ![e] = "run"]
  /\ UNCHANGED <<relayVars, clientVars, done, answers, successes, failures,
                 successCh, errorCh, subscribeVars>>

\* A relay stores the event; its confirmation may not come back.
RelayStores(e, r) ==
  /\ r \in asked[e] /\ r \in up /\ cPc[e.from] = "open"
  /\ held' = [held EXCEPT ![r] = @ \cup {e}]
  /\ asked' = [asked EXCEPT ![e] = @ \ {r}]
  /\ \E ok \in BOOLEAN : answers' = [answers EXCEPT ![e] = @ \cup {[relay |-> r, ok |-> ok]}]
  /\ UNCHANGED <<up, outages, flaky, clientVars, done, pubPc, worker, successes,
                 failures, successCh, errorCh, subscribeVars>>

\* A relay is not reached, or refuses the event.
RelayRefuses(e, r) ==
  /\ r \in asked[e]
  /\ asked' = [asked EXCEPT ![e] = @ \ {r}]
  /\ answers' = [answers EXCEPT ![e] = @ \cup {[relay |-> r, ok |-> FALSE]}]
  /\ UNCHANGED <<relayVars, clientVars, done, pubPc, worker, successes,
                 failures, successCh, errorCh, subscribeVars>>

\* Mutants: the result stays in the channel; its Error is not looked at.
ReadKeeps(e, a) ==
  /\ worker[e] = "run" /\ a \in answers[e]
  /\ failures' = [failures EXCEPT ![e] = @ + 1]
  /\ UNCHANGED <<relayVars, clientVars, done, pubPc, asked, answers, worker,
                 successes, successCh, errorCh, subscribeVars>>
ReadAsSuccess(e, a) ==
  /\ worker[e] = "run" /\ a \in answers[e]
  /\ answers' = [answers EXCEPT ![e] = @ \ {a}]
  /\ successes' = [successes EXCEPT ![e] = @ + 1]
  /\ successCh' = [successCh EXCEPT ![e] = TRUE]
  /\ UNCHANGED <<relayVars, clientVars, done, pubPc, asked, worker,
                 failures, errorCh, subscribeVars>>

\* The first success is reported at once.
Read(e, a) ==
  /\ worker[e] = "run" /\ a \in answers[e]
  /\ answers' = [answers EXCEPT ![e] = @ \ {a}]
  /\ \/ /\ a.ok
        /\ successes' = [successes EXCEPT ![e] = @ + 1]
        /\ successCh' = [successCh EXCEPT ![e] = TRUE]
        /\ UNCHANGED failures
     \/ /\ ~a.ok
        /\ failures' = [failures EXCEPT ![e] = @ + 1]
        /\ UNCHANGED <<successes, successCh>>
  /\ UNCHANGED <<relayVars, clientVars, done, pubPc, asked, worker, errorCh, subscribeVars>>

\* The worker ends with a success, or with an error for the caller.
WorkerEnds(e, error) ==
  /\ worker' = [worker EXCEPT ![e] = "end"]
  /\ \/ /\ successes[e] > 0
        /\ successCh' = [successCh EXCEPT ![e] = TRUE]
        /\ UNCHANGED errorCh
     \/ /\ successes[e] = 0
        /\ errorCh' = [errorCh EXCEPT ![e] = error]
        /\ UNCHANGED successCh
  /\ UNCHANGED <<relayVars, clientVars, done, pubPc, asked, answers,
                 successes, failures, subscribeVars>>

\* Mutant: nothing is reported when every relay failed.
AllReadSilently(e) == worker[e] = "run" /\ asked[e] = {} /\ answers[e] = {} /\ WorkerEnds(e, "none")

\* The channel of results is closed.
AllRead(e) == worker[e] = "run" /\ asked[e] = {} /\ answers[e] = {} /\ WorkerEnds(e, "failed")

WorkerCancelled(e) ==
  /\ worker[e] = "run" /\ e.from \in done
  /\ WorkerEnds(e, IF failures[e] > 0 THEN "failed" ELSE "cancelled")

\* The caller's select, and the second look at successCh when the context is done.
Returns(e) ==
  /\ pubPc[e] = "wait"
  /\ \/ successCh[e] /\ pubPc' = [pubPc EXCEPT ![e] = "ok"]
     \/ errorCh[e] # "none" /\ pubPc' = [pubPc EXCEPT ![e] = errorCh[e]]
     \/ e.from \in done /\ ~successCh[e] /\ pubPc' = [pubPc EXCEPT ![e] = "cancelled"]
  /\ UNCHANGED <<relayVars, clientVars, done, asked, answers, worker, successes,
                 failures, successCh, errorCh, subscribeVars>>

(***************************************************************************)
(* Subscribe: the pool's SubscribeMany and the forwarding goroutine        *)
(***************************************************************************)
\* Mutant: only the relays the client publishes to.
FollowedConnected(p) == Range(urls[p])

\* All valid relays, not just the one connected initially.
Followed(p) == Relays[p]

\* Only subscriptions that have something to stream matter.
Subscribe(p) ==
  /\ p \in {e.to : e \in Event}
  /\ sPc[p] # "open" /\ cPc[p] = "open" /\ p \notin done
  /\ sPc' = [sPc EXCEPT ![p] = "open"]
  /\ UNCHANGED <<relayVars, clientVars, done, publishVars, streams, seen, relayCh, got>>

Attach(p, r) ==
  /\ sPc[p] = "open" /\ cPc[p] = "open" /\ r \in (Followed(p) \cap up) \ streams[p]
  /\ streams' = [streams EXCEPT ![p] = @ \cup {r}]
  /\ UNCHANGED <<relayVars, clientVars, done, publishVars, sPc, seen, relayCh, got>>

\* The pool hands an event to the forwarder, once per subscription.
Forward(p, r, e) ==
  /\ sPc[p] = "open" /\ relayCh[p] = {}
  /\ r \in streams[p] /\ e \in held[r] \ seen[p] /\ e.to = p
  /\ seen' = [seen EXCEPT ![p] = @ \cup {e}]
  /\ relayCh' = [relayCh EXCEPT ![p] = {e}]
  /\ UNCHANGED <<relayVars, clientVars, done, publishVars, sPc, streams, got>>

\* The subscriber reads the event the forwarder holds.
Receive(p) ==
  /\ sPc[p] = "open" /\ relayCh[p] # {}
  /\ got' = [got EXCEPT ![p] = @ \cup relayCh[p]]
  /\ relayCh' = [relayCh EXCEPT ![p] = {}]
  /\ UNCHANGED <<relayVars, clientVars, done, publishVars, sPc, streams, seen>>

\* The context is done, or the pool closes its channel: the client was closed
\* or no relay is left.
SubscriptionEnds(p) ==
  /\ sPc[p] = "open"
  /\ \/ p \in done
     \/ relayCh[p] = {} /\ (cPc[p] = "closed" \/ Followed(p) \cap up = {})
  /\ sPc' = [sPc EXCEPT ![p] = "closed"]
  /\ streams' = [streams EXCEPT ![p] = {}] /\ relayCh' = [relayCh EXCEPT ![p] = {}]
  /\ seen' = [seen EXCEPT ![p] = {}] /\ got' = [got EXCEPT ![p] = {}]
  /\ UNCHANGED <<relayVars, clientVars, done, publishVars>>

(***************************************************************************)
(* The session's context and the relays                                    *)
(***************************************************************************)
Cancel(p) ==
  /\ done' = done \cup {p} /\ p \notin done
  /\ UNCHANGED <<relayVars, clientVars, publishVars, subscribeVars>>

RelayStops(r) ==
  /\ r \in up /\ outages < MaxOutages
  /\ up' = up \ {r} /\ flaky' = flaky \cup {r} /\ outages' = outages + 1
  /\ streams' = [p \in Party |-> streams[p] \ {r}]
  /\ UNCHANGED <<held, clientVars, done, publishVars, sPc, seen, relayCh, got>>

RelayStarts(r) ==
  /\ r \notin up /\ up' = up \cup {r}
  /\ UNCHANGED <<outages, flaky, held, clientVars, done, publishVars, subscribeVars>>

Dials(p)  == Dial(p) \/ DialTimeout(p)
Publishes(e) == \/ \E r \in Relay : RelayStores(e, r) \/ RelayRefuses(e, r)
                \/ \E a \in answers[e] : Read(e, a)
                \/ AllRead(e) \/ WorkerCancelled(e)
Follows(p, R) == \E r \in R : Attach(p, r) \/ \E e \in Event : Forward(p, r, e)

Next ==
  \/ \E p \in Party : \/ Dials(p) \/ FirstConnected(p)
                      \/ \E r \in Relay : Connected(p, r) \/ ConnectFails(p, r)
                      \/ Close(p) \/ Cancel(p)
                      \/ Subscribe(p) \/ Follows(p, Relay) \/ Receive(p) \/ SubscriptionEnds(p)
  \/ \E e \in Event : PublishWrap(e) \/ Publishes(e) \/ Returns(e)
  \/ \E r \in Relay : RelayStops(r) \/ RelayStarts(r)

Spec == Init /\ [][Next]_vars

\* Goroutines that can step do and a connection is made or refused in time;
\* a select that keeps finding a connection ready takes it in the end.  Calls,
\* cancellations and the relays' outages are nobody's duty, and a relay that
\* was down owes nothing.
FairSpec ==
  /\ Spec
  /\ \A p \in Party : /\ WF_vars(Dials(p)) /\ SF_vars(FirstConnected(p))
                      /\ WF_vars(\E r \in Relay : Connected(p, r))
                      /\ WF_vars(Follows(p, Relay \ flaky)) /\ WF_vars(Receive(p))
  /\ \A e \in Event : WF_vars(Publishes(e)) /\ WF_vars(Returns(e))

(***************************************************************************)
(* Properties                                                              *)
(***************************************************************************)
\* The relays as one store, and what the publications have returned.
Stored == UNION {held[r] : r \in Relay}
Reported == [e \in Event |-> CASE pubPc[e] = "ok" -> "ok"
                              [] pubPc[e] \in {"failed", "cancelled"} -> "error"
                              [] OTHER -> "none"]

Store == INSTANCE RelayStore WITH
  stored <- Stored, reported <- Reported, streamed <- got

\* The relays look like one store, whatever relay connects first, fails or
\* comes back: nil is returned only for an event a relay holds, and what a
\* subscription streams is stored, addressed to the party, and new to it.
ClientImplementsStore == Store!StoreSpec

\* NewClient ends as soon as a configured relay stays reachable, and PublishWrap
\* always ends: with a success, when all its relays failed, or with its context.
CallsSettle ==
  <>[](/\ \A p \in Party : cPc[p] \in {"dial", "wait"} => Relays[p] \cap up = {}
       /\ \A e \in Event : pubPc[e] # "wait")

\* An event a relay holds reaches the addressee's subscription, unless its client
\* is closed or its context done, if the addressee has configured that relay too
\* and the relay stays up: the client publishes to one relay only, so the others
\* are no help.
SharedRelayDelivers ==
  <>[](\A e \in Event :
         (/\ sPc[e.to] = "open" /\ cPc[e.to] = "open" /\ e.to \notin done
          /\ \E r \in Relays[e.to] \ flaky : e \in held[r])
           => e \in got[e.to])
================================================================================
