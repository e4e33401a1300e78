----------------------------- MODULE NostrSession -----------------------------
(***************************************************************************)
(* The phases of a Nostr session around the protocol: PublishReady tells   *)
(* every peer, AwaitPeers is the barrier, PublishComplete says goodbye.    *)
(* A call that returned may be repeated with the same session id, and a    *)
(* relay still holds the wraps of the first one.                           *)
(*                                                                         *)
(* The protocol itself is MpcSession; here it ends with or without an      *)
(* error.  Time is counted in units of ConnectTimeout.                     *)
(***************************************************************************)
EXTENDS Integers, FiniteSets

CONSTANTS
  Party,
  Peers,           \* Peers[p]: p's Config.PeersNpub
  ConnectTimeout,  \* Config.ConnectTimeout (20 seconds)
  MaxTimeout,      \* Config.MaxTimeout (90 seconds, or the -timeout flag)
  Lookback,        \* the Since window of AwaitPeers (1 minute)
  MaxCalls,        \* MaxCalls[p]: bound on the calls p makes
  MaxNow           \* bound on the clock

ASSUME SessionAssumption ==
  /\ Peers \in [Party -> SUBSET Party]
  /\ \A p \in Party : p \notin Peers[p] /\ Peers[p] # {}
  /\ MaxCalls \in [Party -> Nat]
  /\ {ConnectTimeout, MaxTimeout, Lookback, MaxNow} \subseteq Nat

VARIABLES
  now,
  pc,         \* where the call of a party stands
  calls,      \* calls it has made
  outcome,    \* how its latest call went
  start,      \* when that call began
  awaitFrom,  \* when its AwaitPeers began
  todo,       \* peers it has yet to publish to
  querying,   \* the query goroutine of AwaitPeers runs
  seen,       \* peers whose ready wrap AwaitPeers has seen
  pending,    \* wraps its subscription has yet to stream
  wraps       \* wraps the relays hold

vars == <<now, pc, calls, outcome, start, awaitFrom, todo, querying, seen, pending, wraps>>
callVars == <<calls, start>>

Wrap == [from : Party, to : Party, phase : {"ready", "complete"}, at : Nat]

Waiting == {"query", "waiting"}

\* Mutants: the subscription streams new events only; the filter lacks the
\* recipient.
MatchingLive(p) == {}
MatchingForAnyone(p) == {w \in wraps : w.at >= awaitFrom[p] - Lookback}

\* The filter of AwaitPeers.
Matching(p) == {w \in wraps : w.to = p /\ w.at >= awaitFrom[p] - Lookback}

\* Mutant: the phase is not looked at.
CountsAnyPhase(p, w) == w.from \in Peers[p]

\* A wrap that AwaitPeers counts.
Counts(p, w) == w.from \in Peers[p] /\ w.phase = "ready"

Senders(p, W) == {w.from : w \in {v \in W : Counts(p, v)}}
AllPeersSeen(p, s) == Peers[p] \subseteq s

-----------------------------------------------------------------------------
Init ==
  /\ now = 0
  /\ pc = [p \in Party |-> "idle"]
  /\ calls = [p \in Party |-> 0]
  /\ outcome = [p \in Party |-> "none"]
  /\ start = [p \in Party |-> 0]
  /\ awaitFrom = [p \in Party |-> 0]
  /\ todo = [p \in Party |-> {}]
  /\ querying = [p \in Party |-> FALSE]
  /\ seen = [p \in Party |-> {}]
  /\ pending = [p \in Party |-> {}]
  /\ wraps = {}

Tick == /\ now < MaxNow
        /\ now' = now + 1
        /\ UNCHANGED <<pc, callVars, outcome, awaitFrom, todo, querying, seen, pending, wraps>>

Call(p) ==
  /\ pc[p] \in {"idle", "returned"} /\ calls[p] < MaxCalls[p]
  /\ calls' = [calls EXCEPT ![p] = @ + 1]
  /\ start' = [start EXCEPT ![p] = now]
  /\ pc' = [pc EXCEPT ![p] = "publish"]
  /\ outcome' = [outcome EXCEPT ![p] = "none"]
  /\ todo' = [todo EXCEPT ![p] = Peers[p]]
  /\ UNCHANGED <<now, awaitFrom, querying, seen, pending, wraps>>

Return(p, how) == /\ pc' = [pc EXCEPT ![p] = "returned"]
                  /\ outcome' = [outcome EXCEPT ![p] = how]

(* PublishReady and PublishComplete *)

\* A relay stores the wrap and streams it to a subscription of q.
Put(p, q, phase) ==
  LET w == [from |-> p, to |-> q, phase |-> phase, at |-> now]
  IN  /\ wraps' = wraps \cup {w}
      /\ pending' = IF pc[q] = "waiting" THEN [pending EXCEPT ![q] = @ \cup {w}] ELSE pending

\* PublishWrap returned nil for q.
Published(p, q, phase) == /\ Put(p, q, phase)
                          /\ todo' = [todo EXCEPT ![p] = @ \ {q}]

\* PublishWrap returned an error for q, with or without the wrap stored: the
\* peers after q hear nothing.
PublishFailed(p, q, phase) == /\ Put(p, q, phase) \/ UNCHANGED <<wraps, pending>>
                              /\ todo' = [todo EXCEPT ![p] = {}]

PublishReady(p) ==
  /\ pc[p] = "publish"
  /\ \E q \in todo[p] :
       \/ /\ Published(p, q, "ready")
          /\ pc' = [pc EXCEPT ![p] = IF todo[p] = {q} THEN "await" ELSE @]
          /\ UNCHANGED outcome
       \/ PublishFailed(p, q, "ready") /\ Return(p, "publish error")
  /\ UNCHANGED <<now, callVars, awaitFrom, querying, seen>>

PublishComplete(p) ==
  /\ pc[p] = "complete"
  /\ \E q \in todo[p] :
       \/ /\ Published(p, q, "complete")
          /\ IF todo[p] = {q} THEN Return(p, "ok") ELSE UNCHANGED <<pc, outcome>>
       \/ PublishFailed(p, q, "complete") /\ Return(p, "ok")
  /\ UNCHANGED <<now, callVars, awaitFrom, querying, seen>>

(* AwaitPeers *)

AwaitPeers(p) ==
  /\ pc[p] = "await"
  /\ pc' = [pc EXCEPT ![p] = "query"]
  /\ awaitFrom' = [awaitFrom EXCEPT ![p] = now]
  /\ querying' = [querying EXCEPT ![p] = TRUE]
  /\ seen' = [seen EXCEPT ![p] = {}]
  /\ UNCHANGED <<now, callVars, outcome, todo, pending, wraps>>

\* The query asks the first connected relay only, and may fail: it finds some of
\* the wraps.  It may answer when AwaitPeers no longer waits for it.
QueryAnswers(p) ==
  /\ pc[p] \in Waiting /\ querying[p]
  /\ \E W \in SUBSET Matching(p) : seen' = [seen EXCEPT ![p] = @ \cup Senders(p, W)]
  /\ querying' = [querying EXCEPT ![p] = FALSE]
  /\ UNCHANGED <<now, pc, callVars, outcome, awaitFrom, todo, pending, wraps>>

\* The query is done or took 8 seconds.
Subscribe(p) ==
  /\ pc[p] = "query"
  /\ pc' = [pc EXCEPT ![p] = "waiting"]
  /\ pending' = [pending EXCEPT ![p] = Matching(p)]
  /\ UNCHANGED <<now, callVars, outcome, awaitFrom, todo, querying, seen, wraps>>

\* AwaitPeers ends, and its query and subscription with it.
StopAwaiting(p) == /\ querying' = [querying EXCEPT ![p] = FALSE]
                   /\ pending' = [pending EXCEPT ![p] = {}]

EnterProtocol(p) == /\ pc' = [pc EXCEPT ![p] = "protocol"]
                    /\ StopAwaiting(p)

Receive(p, w) ==
  /\ pc[p] = "waiting" /\ w \in pending[p]
  /\ seen' = [seen EXCEPT ![p] = @ \cup Senders(p, {w})]
  /\ IF Counts(p, w) /\ AllPeersSeen(p, seen'[p])
       THEN EnterProtocol(p)
       ELSE pending' = [pending EXCEPT ![p] = @ \ {w}] /\ UNCHANGED <<pc, querying>>
  /\ UNCHANGED <<now, callVars, outcome, awaitFrom, todo, wraps>>

\* The 5 second ticker finds what the query has seen.
CheckSeen(p) ==
  /\ pc[p] = "waiting" /\ AllPeersSeen(p, seen[p])
  /\ EnterProtocol(p)
  /\ UNCHANGED <<now, callVars, outcome, awaitFrom, todo, seen, wraps>>

DeadlinePassed(p) == \/ now >= awaitFrom[p] + ConnectTimeout
                     \/ now >= start[p] + MaxTimeout

TimeOut(p) ==
  /\ pc[p] = "waiting" /\ DeadlinePassed(p)
  /\ Return(p, "timeout") /\ StopAwaiting(p)
  /\ UNCHANGED <<now, callVars, awaitFrom, todo, seen, wraps>>

\* The subscription breaks: unlike the pump, AwaitPeers does not renew it.
Disconnect(p) ==
  /\ pc[p] = "waiting"
  /\ Return(p, "closed") /\ StopAwaiting(p)
  /\ UNCHANGED <<now, callVars, awaitFrom, todo, seen, wraps>>

(* KeygenECDSA or KeysignECDSA *)

ProtocolEnds(p) ==
  /\ pc[p] = "protocol"
  /\ \/ /\ pc' = [pc EXCEPT ![p] = "complete"]
        /\ todo' = [todo EXCEPT ![p] = Peers[p]]
        /\ UNCHANGED outcome
     \/ Return(p, "protocol error") /\ UNCHANGED todo
  /\ UNCHANGED <<now, callVars, awaitFrom, querying, seen, pending, wraps>>

-----------------------------------------------------------------------------
Next ==
  \/ Tick
  \/ \E p \in Party :
       \/ Call(p) \/ PublishReady(p) \/ AwaitPeers(p) \/ QueryAnswers(p) \/ Subscribe(p)
       \/ \E w \in pending[p] : Receive(p, w)
       \/ CheckSeen(p) \/ TimeOut(p) \/ Disconnect(p) \/ ProtocolEnds(p) \/ PublishComplete(p)

Spec == Init /\ [][Next]_vars

\* AwaitPeers runs and its subscription streams; the query may never answer,
\* nothing obliges a call, the clock or the relays' other answers.
Fairness == \A p \in Party : /\ WF_vars(AwaitPeers(p))
                             /\ WF_vars(Subscribe(p))
                             /\ WF_vars(CheckSeen(p))
                             /\ WF_vars(\E w \in pending[p] : Receive(p, w))

FairSpec == Spec /\ Fairness

-----------------------------------------------------------------------------
(* Properties *)

\* Only peers are awaited and told, and a subscription streams only stored wraps
\* addressed to its party.
TypeOK ==
  /\ now \in Nat
  /\ pc \in [Party -> {"idle", "publish", "await", "query", "waiting", "protocol",
                       "complete", "returned"}]
  /\ calls \in [Party -> Nat] /\ \A p \in Party : calls[p] <= MaxCalls[p]
  /\ outcome \in [Party -> {"none", "ok", "publish error", "protocol error",
                            "timeout", "closed"}]
  /\ start \in [Party -> Nat] /\ awaitFrom \in [Party -> Nat]
  /\ querying \in [Party -> BOOLEAN]
  /\ seen \in [Party -> SUBSET Party] /\ todo \in [Party -> SUBSET Party]
  /\ \A p \in Party : seen[p] \subseteq Peers[p] /\ todo[p] \subseteq Peers[p]
  /\ wraps \in SUBSET Wrap
  /\ pending \in [Party -> SUBSET Wrap]
  /\ \A p \in Party : pending[p] \subseteq {w \in wraps : w.to = p}

\* q has told p lately that it is ready; all peers have.
ToldRecently(p, q) == \E w \in wraps : /\ w.from = q /\ w.to = p /\ w.phase = "ready"
                                       /\ w.at >= awaitFrom[p] - Lookback
AllReady(p) == \A q \in Peers[p] : ToldRecently(p, q)

\* Who passes the barrier was told so by every peer within the last minute
\* before it came: a goodbye of an earlier call, or a stranger's word, is none.
\* (session.go:111, 182-190, 265-275)
BarrierIsRecent == \A p \in Party : pc[p] = "protocol" => AllReady(p)

\* No ready wrap falls between the query and the subscription: when all of them
\* are at the relays, AwaitPeers goes through before its deadline unless its
\* subscription breaks.
ReadyIsSeen ==
  \A p \in Party : (pc[p] \in Waiting /\ AllReady(p))
                     ~> (pc[p] = "protocol" \/ outcome[p] = "closed" \/ DeadlinePassed(p))
=============================================================================
