------------------------------- MODULE HttpParty -------------------------------
(***************************************************************************)
(* JoinKeygen and JoinKeysign over the HTTP relay: register with the       *)
(* session, poll it until all parties are listed, run the protocol with a  *)
(* goroutine that downloads messages, end the session, say that one is     *)
(* complete, and wait for the goroutine.                                   *)
(*                                                                         *)
(* The loops of KeygenECDSA and KeysignECDSA are those of MpcSession; here *)
(* they are one state, "loop", in which messages are applied.  The session *)
(* id is a new one: each party calls once.  Of statusMap only the sequence *)
(* number is kept, which numbers the messages.                             *)
(***************************************************************************)
EXTENDS HttpRelay, FiniteSets, Functions

CONSTANTS Rounds,     \* rounds of the TSS protocol
          MaxFaults   \* bound on requests that fail or lose their answer

ASSUME HttpAssumption == Rounds \in Nat \ {0} /\ MaxFaults \in Nat

VARIABLES
  kind,      \* "keygen" or "keysign"
  pc,        \* where the call of a party stands
  outcome,   \* what KeygenECDSA or KeysignECDSA returned
  verdict,   \* what the call returned
  endCh,     \* its end channel is closed
  errChan,   \* an error is on its way to the loop
  round,     \* the TSS party's round; 0 before it starts
  sending,   \* messages the sender goroutines hold
  seqNo,     \* statusMap[session].SeqNo
  got,       \* messages applied
  dl,        \* where downloadMessage stands
  batch,     \* the fetched messages it has not dealt with
  seen,      \* its msgMap
  faults

vars == <<relayVars, kind, pc, outcome, verdict, endCh, errChan, round, sending, seqNo,
          got, dl, batch, seen, faults>>

callVars == <<kind, pc, outcome, verdict, endCh>>
loopVars == <<errChan, round, got>>
sendVars == <<sending, seqNo>>
dlVars   == <<dl, batch, seen>>

Others(p) == Party \ {p}
MessagesOf(p, r) == {[from |-> p, to |-> q, round |-> r] : q \in Others(p)}
Message == [from : Party, to : Party, round : 1 .. Rounds]
Posted  == [from : Party, to : Party, round : 1 .. Rounds, seqNo : Nat, at : Nat]

Fault == faults < MaxFaults /\ faults' = faults + 1

Init ==
  /\ RelayInit
  /\ kind \in {"keygen", "keysign"}
  /\ pc = [p \in Party |-> "idle"]
  /\ outcome = [p \in Party |-> "none"]
  /\ verdict = [p \in Party |-> "none"]
  /\ endCh = [p \in Party |-> FALSE]
  /\ errChan = [p \in Party |-> FALSE]
  /\ round = [p \in Party |-> 0]
  /\ sending = [p \in Party |-> {}]
  /\ seqNo = [p \in Party |-> 1]
  /\ got = [p \in Party |-> {}]
  /\ dl = [p \in Party |-> "off"]
  /\ batch = [p \in Party |-> {}]
  /\ seen = [p \in Party |-> {}]
  /\ faults = 0

-----------------------------------------------------------------------------
(* Joining *)

Goto(p, l) == pc' = [pc EXCEPT ![p] = l]

Return(p, v) == Goto(p, "returned") /\ verdict' = [verdict EXCEPT ![p] = v]

Call(p) ==
  /\ pc[p] = "idle"
  /\ Goto(p, "join")
  /\ UNCHANGED <<relayVars, kind, outcome, verdict, endCh, loopVars, sendVars, dlVars, faults>>

JoinSession(p) ==
  /\ pc[p] = "join"
  /\ PostSession(p)
  /\ Goto(p, "await")
  /\ UNCHANGED <<messages, arrivals, completed, kind, outcome, verdict, endCh, loopVars, sendVars,
                 dlVars, faults>>

\* The relay has the request, the party an error: it posts again.
JoinAnswerLost(p) ==
  /\ pc[p] = "join"
  /\ Fault
  /\ PostSession(p)
  /\ UNCHANGED <<messages, arrivals, completed, callVars, loopVars, sendVars, dlVars>>

\* Mutant: only the registration has a timer.
GiveUpPosting(p) ==
  /\ pc[p] = "join"
  /\ Return(p, "error")
  /\ UNCHANGED <<relayVars, kind, outcome, endCh, loopVars, sendVars, dlVars, faults>>

\* Either timer of 30 seconds, or an answer that cannot be read.
GiveUpJoining(p) ==
  /\ pc[p] \in {"join", "await"}
  /\ Return(p, "error")
  /\ UNCHANGED <<relayVars, kind, outcome, endCh, loopVars, sendVars, dlVars, faults>>

\* Mutant: as many entries as there are parties.
AsManyListed == FoldFunction(LAMBDA x, y : x + y, 0, participants) = Cardinality(Party)

\* equalUnordered: the list names each party exactly once.
AllListed == \A q \in Party : participants[q] = 1

\* awaitJoiners returns, NewService succeeds and the goroutines start.
PassBarrier(p) ==
  /\ pc[p] = "await" /\ AllListed
  /\ Goto(p, "loop")
  /\ dl' = [dl EXCEPT ![p] = "select"]
  /\ round' = [round EXCEPT ![p] = 1]
  /\ sending' = [sending EXCEPT ![p] = MessagesOf(p, 1)]
  /\ UNCHANGED <<relayVars, kind, outcome, verdict, endCh, errChan, got, seqNo, batch, seen,
                 faults>>

\* The parameters of keygen cannot be read or computed.
ServiceFails(p) ==
  /\ pc[p] = "await" /\ AllListed /\ kind = "keygen"
  /\ Return(p, "error")
  /\ UNCHANGED <<relayVars, kind, outcome, endCh, loopVars, sendVars, dlVars, faults>>

-----------------------------------------------------------------------------
(* The protocol *)

\* statusMap has no lock: setSeqNo races with setIndex and setStep of downloadMessage,
\* which write back an entry they have just read.
LoseSeqNo(p) == Fault /\ dl[p] \in {"apply", "delete"} /\ UNCHANGED seqNo

\* MessengerImp.Send, one at a time under its mutex.
Send(p, m) ==
  /\ m \in sending[p]
  /\ PostMessage(m, seqNo[p])
  /\ \/ seqNo' = [seqNo EXCEPT ![p] = @ + 1] /\ UNCHANGED faults
     \/ LoseSeqNo(p)
  /\ sending' = [sending EXCEPT ![p] = @ \ {m}]
  /\ UNCHANGED <<participants, completed, callVars, loopVars, dlVars>>

\* The goroutine of a keygen broadcast then gives up its other peers.
SendFails(p, m) ==
  /\ m \in sending[p]
  /\ Fault
  /\ PostMessage(m, seqNo[p]) \/ UNCHANGED <<messages, arrivals>>
  /\ errChan' = [errChan EXCEPT ![p] = pc[p] = "loop"]
  /\ sending' = [sending EXCEPT ![p] =
       IF kind = "keygen" THEN {n \in @ : n.round # m.round} ELSE @ \ {m}]
  /\ UNCHANGED <<participants, completed, callVars, round, got, seqNo, dlVars>>

HeardAll(p, r) == \A q \in Others(p) : \E m \in got[p] : m.from = q /\ m.round = r

TssAdvance(p) ==
  /\ pc[p] = "loop" /\ round[p] \in 1 .. Rounds /\ HeardAll(p, round[p])
  /\ round' = [round EXCEPT ![p] = @ + 1]
  /\ sending' = [sending EXCEPT ![p] =
       IF round[p] < Rounds THEN @ \cup MessagesOf(p, round[p] + 1) ELSE @]
  /\ UNCHANGED <<relayVars, callVars, errChan, got, seqNo, dlVars, faults>>

\* The share is in localStateMemory, or the signature is marshalled.
LoopReturns(p) ==
  /\ pc[p] = "loop" /\ round[p] = Rounds + 1 /\ ~errChan[p]
  /\ outcome' = [outcome EXCEPT ![p] = "ok"]
  /\ Goto(p, "end")
  /\ UNCHANGED <<relayVars, kind, verdict, endCh, loopVars, sendVars, dlVars, faults>>

\* The TSS party and the loop's channels are garbage when nobody is left to read them.
DropLoop(p) ==
  /\ errChan' = [errChan EXCEPT ![p] = FALSE]
  /\ round' = [round EXCEPT ![p] = 0]
  /\ got' = [got EXCEPT ![p] = {}]

\* Mutant: a call that fails ends the session for its peers too.
LoopFailsEndsSession(p) ==
  /\ pc[p] = "loop"
  /\ outcome' = [outcome EXCEPT ![p] = "error"]
  /\ endCh' = [endCh EXCEPT ![p] = TRUE]
  /\ Return(p, "error")
  /\ DropLoop(p)
  /\ DeleteSession
  /\ UNCHANGED <<messages, arrivals, completed, kind, sendVars, dlVars, faults>>

\* An error of a goroutine, or the loop's deadline.  The call does not wait.
LoopFails(p) ==
  /\ pc[p] = "loop"
  /\ outcome' = [outcome EXCEPT ![p] = "error"]
  /\ endCh' = [endCh EXCEPT ![p] = TRUE]
  /\ Return(p, "error")
  /\ DropLoop(p)
  /\ UNCHANGED <<relayVars, kind, sendVars, dlVars, faults>>

-----------------------------------------------------------------------------
(* Ending *)

EndSession(p) ==
  /\ pc[p] = "end"
  /\ DeleteSession
  /\ Goto(p, "flag")
  /\ UNCHANGED <<messages, arrivals, completed, kind, outcome, verdict, endCh, loopVars, sendVars,
                 dlVars, faults>>

\* keygen warns and goes on, keysign gives its signature up.
EndSessionFails(p) ==
  /\ pc[p] = "end"
  /\ Fault
  /\ DeleteSession \/ UNCHANGED participants
  /\ endCh' = [endCh EXCEPT ![p] = TRUE]
  /\ IF kind = "keygen" THEN Goto(p, "flag") /\ UNCHANGED verdict ELSE Return(p, "error")
  /\ UNCHANGED <<messages, arrivals, completed, kind, outcome, loopVars, sendVars, dlVars>>

\* A failure is a warning.
FlagComplete(p) ==
  /\ pc[p] = "flag"
  /\ \/ Complete(p) /\ UNCHANGED faults
     \/ Fault /\ UNCHANGED completed
  /\ Goto(p, "close")
  /\ UNCHANGED <<participants, messages, arrivals, kind, outcome, verdict, endCh, loopVars, sendVars,
                 dlVars>>

CloseEndCh(p) ==
  /\ pc[p] = "close" /\ ~endCh[p]
  /\ endCh' = [endCh EXCEPT ![p] = TRUE]
  /\ Goto(p, "wait")
  /\ UNCHANGED <<relayVars, kind, outcome, verdict, loopVars, sendVars, dlVars, faults>>

\* Closing a closed channel panics; the deferred recover drops the result.
ClosePanics(p) ==
  /\ pc[p] = "close" /\ endCh[p]
  /\ Return(p, "panic")
  /\ UNCHANGED <<relayVars, kind, outcome, endCh, loopVars, sendVars, dlVars, faults>>

Finish(p) ==
  /\ pc[p] = "wait" /\ dl[p] = "stopped"
  /\ Return(p, "ok")
  /\ UNCHANGED <<relayVars, kind, outcome, endCh, loopVars, sendVars, dlVars, faults>>

-----------------------------------------------------------------------------
(* downloadMessage *)

\* The select: the end channel, or the half second and then its own deadline.
Select(p) ==
  /\ dl[p] = "select"
  /\ \/ dl' = [dl EXCEPT ![p] = "stopped"]
     \/ ~endCh[p] /\ dl' = [dl EXCEPT ![p] = "fetch"]
  /\ UNCHANGED <<relayVars, callVars, loopVars, sendVars, batch, seen, faults>>

\* The second disjunct is any failure of the request.
Fetch(p) ==
  /\ dl[p] = "fetch"
  /\ \/ /\ batch' = [batch EXCEPT ![p] = GetMessage(p)]
        /\ dl' = [dl EXCEPT ![p] = "batch"]
     \/ UNCHANGED batch /\ dl' = [dl EXCEPT ![p] = "select"]
  /\ UNCHANGED <<relayVars, callVars, loopVars, sendVars, seen, faults>>

\* Mutant: a sort that is not stable.
PrecedesUnstably(m, n) ==
  m.seqNo < n.seqNo \/ (m.seqNo = n.seqNo /\ m.at >= n.at)

\* SliceStable by sequence number, on a list in the relay's order.
Precedes(m, n) == m.seqNo < n.seqNo \/ (m.seqNo = n.seqNo /\ m.at <= n.at)

\* The message of the batch that the loop has come to, if any is left.
Current(p) == {m \in batch[p] : \A n \in batch[p] : Precedes(m, n)}

\* Mutant: what was applied before is not remembered.
TakeAgain(p) ==
  /\ dl[p] = "batch"
  /\ \E m \in Current(p) : seen' = [seen EXCEPT ![p] = @ \cup {Hash(m)}]
  /\ dl' = [dl EXCEPT ![p] = "apply"]
  /\ UNCHANGED <<relayVars, callVars, loopVars, sendVars, batch, faults>>

Take(p) ==
  /\ dl[p] = "batch"
  /\ \E m \in Current(p) : /\ Hash(m) \notin seen[p]
                           /\ seen' = [seen EXCEPT ![p] = @ \cup {Hash(m)}]
  /\ dl' = [dl EXCEPT ![p] = "apply"]
  /\ UNCHANGED <<relayVars, callVars, loopVars, sendVars, batch, faults>>

EndOfBatch(p) ==
  /\ dl[p] = "batch" /\ batch[p] = {}
  /\ dl' = [dl EXCEPT ![p] = "select"]
  /\ UNCHANGED <<relayVars, callVars, loopVars, sendVars, batch, seen, faults>>

\* ApplyData blocks until the loop receives, for ever when it has returned.
Apply(p) ==
  /\ dl[p] = "apply" /\ pc[p] = "loop"
  /\ got' = [got EXCEPT ![p] = @ \cup Current(p)]
  /\ dl' = [dl EXCEPT ![p] = "delete"]
  /\ UNCHANGED <<relayVars, callVars, errChan, round, sendVars, batch, seen, faults>>

\* A message is deleted when it has been applied, or had been before.
Deletes(p, m) == /\ m \in Current(p)
                 /\ dl[p] = "delete" \/ (dl[p] = "batch" /\ Hash(m) \in seen[p])

Delete(p) ==
  /\ \E m \in batch[p] : /\ Deletes(p, m)
                         /\ DeleteTssMessage(p, Hash(m))
                         /\ batch' = [batch EXCEPT ![p] = @ \ {m}]
  /\ dl' = [dl EXCEPT ![p] = "batch"]
  /\ UNCHANGED <<participants, arrivals, completed, callVars, loopVars, sendVars, seen, faults>>

\* What was in its memory is gone.
ProcessEnds(p) ==
  /\ Goto(p, "crashed")
  /\ outcome' = [outcome EXCEPT ![p] = "none"]
  /\ endCh' = [endCh EXCEPT ![p] = FALSE]
  /\ errChan' = [errChan EXCEPT ![p] = FALSE]
  /\ round' = [round EXCEPT ![p] = 0]
  /\ sending' = [sending EXCEPT ![p] = {}]
  /\ seqNo' = [seqNo EXCEPT ![p] = 1]
  /\ got' = [got EXCEPT ![p] = {}]
  /\ dl' = [dl EXCEPT ![p] = "dead"]
  /\ batch' = [batch EXCEPT ![p] = {}]
  /\ seen' = [seen EXCEPT ![p] = {}]
  /\ UNCHANGED <<participants, arrivals, completed, kind, verdict>>

\* Without an answer deleteMessage dereferences nil in a goroutine that does not
\* recover, or Go has caught two goroutines writing to statusMap.
DeleteCrashes(p) ==
  /\ Fault
  /\ \E m \in batch[p] : /\ Deletes(p, m)
                         /\ DeleteTssMessage(p, Hash(m)) \/ UNCHANGED messages
  /\ ProcessEnds(p)

-----------------------------------------------------------------------------
Joining(p) == JoinSession(p) \/ JoinAnswerLost(p) \/ GiveUpJoining(p)
              \/ PassBarrier(p) \/ ServiceFails(p)

Sending(p) == \E m \in sending[p] : Send(p, m) \/ SendFails(p, m)

Protocol(p) == TssAdvance(p) \/ LoopReturns(p) \/ LoopFails(p)

Ending(p) == EndSession(p) \/ EndSessionFails(p) \/ FlagComplete(p)
             \/ CloseEndCh(p) \/ ClosePanics(p) \/ Finish(p)

Downloader(p) == Select(p) \/ Fetch(p) \/ Take(p) \/ EndOfBatch(p) \/ Apply(p) \/ Delete(p)

Next == \E p \in Party : Call(p) \/ Joining(p) \/ Sending(p) \/ Protocol(p)
                         \/ Ending(p) \/ Downloader(p) \/ DeleteCrashes(p)

Spec == Init /\ [][Next]_vars

\* What the call itself does while nothing of its peers is needed.
Main(p) == GiveUpJoining(p) \/ LoopReturns(p) \/ LoopFails(p) \/ Ending(p)

\* The timers fire, the goroutines run and the relay answers or refuses.  Nothing
\* is assumed of the senders, or of the peers.
Fairness == \A p \in Party : WF_vars(Main(p)) /\ WF_vars(Downloader(p))

FairSpec == Spec /\ Fairness

-----------------------------------------------------------------------------
(* Properties *)

\* Each variable stays in its type; what downloadMessage fetches and applies is
\* for its own party.
TypeOK ==
  /\ participants \in [Party -> Nat] /\ arrivals \in Nat
  /\ messages \subseteq Posted
  /\ completed \in SUBSET Party /\ kind \in {"keygen", "keysign"}
  /\ pc \in [Party -> {"idle", "join", "await", "loop", "end", "flag", "close", "wait",
                       "returned", "crashed"}]
  /\ outcome \in [Party -> {"none", "ok", "error"}]
  /\ verdict \in [Party -> {"none", "ok", "error", "panic"}]
  /\ endCh \in [Party -> BOOLEAN] /\ errChan \in [Party -> BOOLEAN]
  /\ round \in [Party -> 0 .. (Rounds + 1)]
  /\ sending \in [Party -> SUBSET Message] /\ seqNo \in [Party -> Nat]
  /\ dl \in [Party -> {"off", "select", "fetch", "batch", "apply", "delete", "stopped", "dead"}]
  /\ batch \in [Party -> SUBSET Posted] /\ got \in [Party -> SUBSET Posted]
  /\ \A p \in Party : \A m \in batch[p] \cup got[p] : m.to = p
  /\ seen \in [Party -> SUBSET (Party \X (1 .. Rounds))]
  /\ faults \in 0 .. MaxFaults

\* Whoever is past awaitJoiners has been joined by every party, however often a
\* registration was repeated.
BarrierMeansAll ==
  \A p \in Party : pc[p] \in {"loop", "end", "flag", "close", "wait"} =>
    \A q \in Party : pc[q] # "idle"

\* endSession deletes the session for everybody, but never under a party that
\* still polls it.
WaitingHasSession == \A p \in Party : pc[p] = "await" => participants[p] > 0

\* downloadMessage applies what a peer said in the order the relay has it, without
\* gaps, and once, although every fetch returns everything.
InboxIsPrefix ==
  \A p \in Party :
    /\ \A m \in got[p] : \A n \in messages :
         n.from = m.from /\ n.to = p /\ n.at < m.at => n \in got[p]
    /\ dl[p] = "apply" => Current(p) \cap got[p] = {}

\* After a success downloadMessage has nothing left with which ApplyData, whose
\* loop is gone, would block: closing the end channel stops it.
SuccessIsDrained ==
  \A p \in Party : outcome[p] = "ok" =>
    /\ dl[p] # "apply"
    /\ \A m \in messages : m.to = p => Hash(m) \in seen[p]

\* JoinKeygen and JoinKeysign return, or their process has ended: neither a peer
\* nor the goroutine they wait for can hold them.
CallReturns == <>[](\A p \in Party : pc[p] \in {"idle", "returned", "crashed"})

\* "Warning: endSession": a session that cannot be ended does not cost a party of
\* a finished keygen its share.
EndingIsAWarning ==
  \A p \in Party : (kind = "keygen" /\ outcome[p] = "ok" /\ pc[p] = "returned") =>
    verdict[p] = "ok"
================================================================================
