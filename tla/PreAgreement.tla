----------------------------- MODULE PreAgreement -----------------------------
(***************************************************************************)
(* runNostrPreAgreementSendBTC: before two parties sign a payment, each    *)
(* sends the other a fresh nonce with its fee estimate and both derive the *)
(* session id and the fee from the two messages.  The exchange itself runs *)
(* under a session id made of the addresses, the balance and the amount:   *)
(* a payment that is tried again meets the wraps of the attempt before.    *)
(*                                                                         *)
(* The nonce of an attempt is its number; a message fits in one chunk.     *)
(* Time is counted in minutes.                                             *)
(***************************************************************************)
EXTENDS Integers

CONSTANTS
  Party,        \* the two parties of the payment
  Fee,          \* Fee[p][n]: p's estimate in its n-th attempt
  Timeout,      \* the exchange's deadline (2 minutes)
  Lookback,     \* the pump's Since window (1 minute)
  RetryGap,     \* a caller waits longer than that before it tries again
  MaxAttempts,  \* MaxAttempts[p]: bound on p's attempts
  MaxNow

ASSUME AgreementAssumption ==
  /\ \E p, q \in Party : p # q /\ Party = {p, q}
  /\ {Timeout, Lookback, RetryGap, MaxNow} \subseteq Nat
  /\ MaxAttempts \in [Party -> Nat]
  /\ \A p \in Party : Fee[p] \in [1 .. MaxAttempts[p] -> Nat]

VARIABLES
  now,
  pc,        \* where the call of a party stands
  attempt,   \* its number
  began,     \* when it began
  ended,     \* when the one before ended
  stored,    \* messages the relays hold
  listening, \* its pump is subscribed
  since,     \* the Since of its pump
  pending,   \* messages the pump has yet to stream
  inbox,     \* peerMessageCh, of capacity 1
  result     \* what the call returned: two messages and a fee

vars == <<now, pc, attempt, began, ended, stored, listening, since, pending, inbox, result>>
pumpVars == <<listening, since, pending, inbox>>

Peer(p) == CHOOSE q \in Party : q # p

\* "<peerNonce>:<satoshiFees>", and when its wrap was made.
Message == [from : Party, nonce : Nat]
Stored == [msg : Message, at : Nat]
Own(p) == [from |-> p, nonce |-> attempt[p]]

FeeOf(m) == Fee[m.from][m.nonce]
NoResult == [nonces |-> {}, fee |-> 0]

\* Mutant: each party keeps its own estimate.
ResultOwnFee(mine, other) == [nonces |-> {mine, other}, fee |-> FeeOf(mine)]

\* The sorted join of the nonces, and the average of the fees.
Result(mine, other) ==
  [nonces |-> {mine, other}, fee |-> (FeeOf(mine) + FeeOf(other)) \div 2]

\* Mutants: the relays send new messages only; the filter lacks the recipient.
MatchingLive(p) == {}
MatchingForAnyone(p) == {w \in stored : w.at >= now - Lookback}

\* The pump's filter.
Matching(p) == {w \in stored : w.msg.from = Peer(p) /\ w.at >= now - Lookback}

-----------------------------------------------------------------------------
Init ==
  /\ now = 0
  /\ pc = [p \in Party |-> "idle"]
  /\ attempt = [p \in Party |-> 0]
  /\ began = [p \in Party |-> 0]
  /\ ended = [p \in Party |-> 0]
  /\ stored = {}
  /\ listening = [p \in Party |-> FALSE]
  /\ since = [p \in Party |-> 0]
  /\ pending = [p \in Party |-> {}]
  /\ inbox = [p \in Party |-> {}]
  /\ result = [p \in Party |-> NoResult]

Tick == /\ now < MaxNow
        /\ now' = now + 1
        /\ UNCHANGED <<pc, attempt, began, ended, stored, pumpVars, result>>

\* The caller tries again when the exchange failed, or the payment after it.
MayBegin(p) == \/ pc[p] = "idle"
               \/ pc[p] \in {"ok", "error"} /\ now > ended[p] + RetryGap

\* No relay may be reachable: NewClient fails before anything is sent.
Begin(p) ==
  /\ MayBegin(p) /\ attempt[p] < MaxAttempts[p]
  /\ attempt' = [attempt EXCEPT ![p] = @ + 1]
  /\ began' = [began EXCEPT ![p] = now]
  /\ inbox' = [inbox EXCEPT ![p] = {}]
  /\ result' = [result EXCEPT ![p] = NoResult]
  /\ \/ pc' = [pc EXCEPT ![p] = "send"] /\ UNCHANGED ended
     \/ /\ pc' = [pc EXCEPT ![p] = "error"]
        /\ ended' = [ended EXCEPT ![p] = now]
  /\ UNCHANGED <<now, stored, listening, since, pending>>

\* The pump's goroutine starts and subscribes, at the latest some time after the
\* call has sent its own message.
Listen(p) ==
  /\ pc[p] \in {"send", "wait"} /\ ~listening[p]
  /\ listening' = [listening EXCEPT ![p] = TRUE]
  /\ since' = [since EXCEPT ![p] = now - Lookback]
  /\ pending' = [pending EXCEPT ![p] = Matching(p)]
  /\ UNCHANGED <<now, pc, attempt, began, ended, stored, inbox, result>>

\* SendMessage stores a wrap, and another one as long as it gets no answer.
Send(p) ==
  LET w == [msg |-> Own(p), at |-> now]
  IN  /\ pc[p] = "send" /\ now <= began[p] + Timeout
      /\ stored' = stored \cup {w}
      /\ pending' = IF listening[Peer(p)]
                      THEN [pending EXCEPT ![Peer(p)] = @ \cup {w}] ELSE pending
      /\ pc' = [pc EXCEPT ![p] = "wait"] \/ UNCHANGED pc
      /\ UNCHANGED <<now, attempt, began, ended, listening, since, inbox, result>>

\* The handler keeps the first message; the channel has no room for others.
Receive(p, w) ==
  /\ w \in pending[p]
  /\ pending' = [pending EXCEPT ![p] = @ \ {w}]
  /\ inbox' = IF inbox[p] = {} THEN [inbox EXCEPT ![p] = {w.msg}] ELSE inbox
  /\ UNCHANGED <<now, pc, attempt, began, ended, stored, listening, since, result>>

\* The call returns: the deferred cancel and Close end the pump.
Return(p, how) ==
  /\ pc' = [pc EXCEPT ![p] = how]
  /\ ended' = [ended EXCEPT ![p] = now]
  /\ listening' = [listening EXCEPT ![p] = FALSE]
  /\ since' = [since EXCEPT ![p] = 0]
  /\ pending' = [pending EXCEPT ![p] = {}]
  /\ UNCHANGED <<now, attempt, began, stored, inbox>>

Take(p) ==
  /\ pc[p] = "wait"
  /\ \E m \in inbox[p] : result' = [result EXCEPT ![p] = Result(Own(p), m)]
  /\ Return(p, "ok")

GiveUp(p) ==
  /\ pc[p] \in {"send", "wait"} /\ now >= began[p] + Timeout
  /\ Return(p, "error")
  /\ UNCHANGED result

-----------------------------------------------------------------------------
Next ==
  \/ Tick
  \/ \E p \in Party :
       \/ Begin(p) \/ Listen(p) \/ Send(p) \/ Take(p) \/ GiveUp(p)
       \/ \E w \in pending[p] : Receive(p, w)

Spec == Init /\ [][Next]_vars

\* The pump streams and the call reads its channel.
Fairness == \A p \in Party : /\ WF_vars(\E w \in pending[p] : Receive(p, w))
                             /\ WF_vars(Take(p))

FairSpec == Spec /\ Fairness

-----------------------------------------------------------------------------
(* Properties *)

\* A party hears only its peer, and a result is made of the message of its own
\* attempt and one of the peer's.
TypeOK ==
  /\ now \in Nat
  /\ pc \in [Party -> {"idle", "send", "wait", "ok", "error"}]
  /\ attempt \in [Party -> Nat] /\ \A p \in Party : attempt[p] <= MaxAttempts[p]
  /\ {began, ended} \subseteq [Party -> Nat] /\ since \in [Party -> Int]
  /\ listening \in [Party -> BOOLEAN]
  /\ stored \subseteq Stored
  /\ \A p \in Party :
       /\ \A w \in pending[p] : w \in stored /\ w.msg.from = Peer(p)
       /\ \A m \in inbox[p] : m \in Message /\ m.from = Peer(p)
       /\ pc[p] = "ok" => \E m \in inbox[p] : result[p] = Result(Own(p), m)

\* mpc_nostr.go:347: "Both parties exchange their peerNonce and satoshiFees, then
\* agree on" the nonce and the fee: two calls that succeeded did so with the
\* same two messages.
Agreement ==
  \A p, q \in Party : pc[p] = "ok" /\ pc[q] = "ok" => result[p] = result[q]

\* A call that listens and whose peer has published within its window succeeds
\* unless its deadline comes first, however the message and the subscription
\* are ordered.
PeerHasPublished(p) ==
  \E w \in stored : w.msg.from = Peer(p) /\ w.at >= since[p]
OverlapIsHeard ==
  \A p \in Party : (pc[p] = "wait" /\ listening[p] /\ PeerHasPublished(p))
                     ~> (pc[p] = "ok" \/ now >= began[p] + Timeout)
=============================================================================
