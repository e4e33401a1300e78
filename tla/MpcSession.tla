------------------------------ MODULE MpcSession ------------------------------
(***************************************************************************)
(* The protocol phase of a Nostr session, from the moment every peer is    *)
(* ready: processKeygen or processKeySign drives a TSS party, a message    *)
(* pump feeds it through the unbuffered inbound channel, a goroutine per   *)
(* outgoing message sends it, and runNostr...Internal tears it all down.   *)
(*                                                                         *)
(* The TSS library is external: a party sends every peer one message per   *)
(* round and ends a round when it has applied the message of every peer.   *)
(* The transport is what MessageDelivery promises: a published message is  *)
(* handed to the pump's handler at most once, or never.                    *)
(***************************************************************************)
EXTENDS Naturals, FiniteSets

CONSTANTS Party,    \* the committee
          Rounds    \* rounds of the TSS protocol

ASSUME SessionAssumption == Rounds \in Nat \ {0}

VARIABLES
  kind,           \* "keygen" or "keysign"
  runPc,          \* where the session function of a party stands
  outcome,        \* what KeygenECDSA or KeysignECDSA returned
  expired,        \* the until of its loop has passed
  cancelled,      \* the session context is done
  errChan,        \* the loop's error channel, of capacity 1, is full
  result,         \* the loop's pubKey or signature is set
  startErr,       \* errCh: the TSS party failed to start
  round,          \* the TSS party's round; 0 before Start
  got,            \* messages it has applied
  outCh,          \* rounds whose message is in the out channel
  endCh,          \* its result is in the end channel
  sending,        \* messages the sender goroutines hold
  applying,       \* messages the inbound goroutines hold
  net,            \* published messages
  handed,         \* messages the pump has given to its handler
  held,           \* the one ApplyData is blocked with: a set of at most one
  pumpStopped,    \* Run has returned
  pumpCancelled   \* pumpCancel was called

vars == <<kind, runPc, outcome, expired, cancelled, errChan, result, startErr, round,
          got, outCh, endCh, sending, applying, net, handed, held, pumpStopped, pumpCancelled>>

loopVars == <<runPc, outcome, result, pumpCancelled>>
tssVars  == <<startErr, round, got>>
pumpVars == <<handed, held, pumpStopped>>
timeVars == <<kind, expired, cancelled>>

Message == [from : Party, to : Party, round : 1 .. Rounds]
Others(p) == Party \ {p}
MessagesOf(p, r) == {[from |-> p, to |-> q, round |-> r] : q \in Others(p)}


-----------------------------------------------------------------------------
Init ==
  /\ kind \in {"keygen", "keysign"}
  /\ runPc = [p \in Party |-> "select"]
  /\ outcome = [p \in Party |-> "none"]
  /\ expired = [p \in Party |-> FALSE]
  /\ cancelled = [p \in Party |-> FALSE]
  /\ errChan = [p \in Party |-> FALSE]
  /\ result = [p \in Party |-> FALSE]
  /\ startErr = [p \in Party |-> FALSE]
  /\ round = [p \in Party |-> 0]
  /\ got = [p \in Party |-> {}]
  /\ outCh = [p \in Party |-> {}]
  /\ endCh = [p \in Party |-> FALSE]
  /\ sending = [p \in Party |-> {}]
  /\ applying = [p \in Party |-> {}]
  /\ net = {}
  /\ handed = [p \in Party |-> {}]
  /\ held = [p \in Party |-> {}]
  /\ pumpStopped = [p \in Party |-> FALSE]
  /\ pumpCancelled = [p \in Party |-> FALSE]

(* Time *)

\* keyGenTimeout or keySignTimeout passes.
Expire(p) == /\ ~expired[p]
             /\ expired' = [expired EXCEPT ![p] = TRUE]
             /\ UNCHANGED <<kind, cancelled, loopVars, errChan, tssVars, outCh, endCh,
                            sending, applying, net, pumpVars>>

\* The session's MaxTimeout passes.
TimeOut(p) == /\ ~cancelled[p]
              /\ cancelled' = [cancelled EXCEPT ![p] = TRUE]
              /\ UNCHANGED <<kind, expired, loopVars, errChan, tssVars, outCh, endCh,
                             sending, applying, net, pumpVars>>

(* The TSS party *)

TssStart(p) ==
  /\ round[p] = 0 /\ ~startErr[p]
  /\ \/ /\ round' = [round EXCEPT ![p] = 1]
        /\ outCh' = [outCh EXCEPT ![p] = {1}]
        /\ UNCHANGED startErr
     \/ startErr' = [startErr EXCEPT ![p] = TRUE] /\ UNCHANGED <<round, outCh>>
  /\ UNCHANGED <<timeVars, loopVars, errChan, got, endCh, sending, applying, net, pumpVars>>

HeardAll(p, r) == \A q \in Others(p) : [from |-> q, to |-> p, round |-> r] \in got[p]

\* The next round's message, or after the last round the result.
TssAdvance(p) ==
  /\ round[p] \in 1 .. Rounds
  /\ HeardAll(p, round[p])
  /\ round' = [round EXCEPT ![p] = @ + 1]
  /\ IF round[p] < Rounds
       THEN outCh' = [outCh EXCEPT ![p] = @ \cup {round[p] + 1}] /\ UNCHANGED endCh
       ELSE endCh' = [endCh EXCEPT ![p] = TRUE] /\ UNCHANGED outCh
  /\ UNCHANGED <<timeVars, loopVars, errChan, startErr, got, sending, applying, net, pumpVars>>

(* The loop of processKeygen and processKeySign *)

\* Its return: the session function goes on to the teardown.
Return(p, how) == /\ runPc' = [runPc EXCEPT ![p] = "teardown"]
                  /\ outcome' = [outcome EXCEPT ![p] = how]

LoopStartFailed(p) ==
  /\ runPc[p] = "select" /\ startErr[p]
  /\ Return(p, "error")
  /\ UNCHANGED <<timeVars, result, pumpCancelled, errChan, tssVars, outCh, endCh,
                 sending, applying, net, pumpVars>>

LoopOut(p) ==
  /\ runPc[p] = "select"
  /\ \E r \in outCh[p] :
       /\ outCh' = [outCh EXCEPT ![p] = @ \ {r}]
       /\ sending' = [sending EXCEPT ![p] = @ \cup MessagesOf(p, r)]
  /\ UNCHANGED <<timeVars, loopVars, errChan, tssVars, endCh, applying, net, pumpVars>>

\* The rendezvous with ApplyData: the pump's handler returns.
LoopIn(p) ==
  /\ runPc[p] = "select" /\ held[p] # {}
  /\ applying' = [applying EXCEPT ![p] = @ \cup held[p]]
  /\ held' = [held EXCEPT ![p] = {}]
  /\ UNCHANGED <<timeVars, loopVars, errChan, tssVars, outCh, endCh, sending, net,
                 handed, pumpStopped>>

\* Storing the key share fails.
LoopEndFails(p) ==
  /\ runPc[p] = "select" /\ endCh[p] /\ kind = "keygen"
  /\ endCh' = [endCh EXCEPT ![p] = FALSE]
  /\ Return(p, "error")
  /\ UNCHANGED <<timeVars, result, pumpCancelled, errChan, tssVars, outCh, sending,
                 applying, net, pumpVars>>

\* In keygen a result also means that the key share is stored.
LoopEnd(p) ==
  /\ runPc[p] = "select" /\ endCh[p]
  /\ endCh' = [endCh EXCEPT ![p] = FALSE]
  /\ result' = [result EXCEPT ![p] = TRUE]
  /\ UNCHANGED <<timeVars, runPc, outcome, pumpCancelled, errChan, tssVars, outCh,
                 sending, applying, net, pumpVars>>

\* No channel is ready: the default branch sleeps.
LoopIdle(p) ==
  /\ runPc[p] = "select"
  /\ ~startErr[p] /\ outCh[p] = {} /\ held[p] = {} /\ ~endCh[p]
  /\ runPc' = [runPc EXCEPT ![p] = "asleep"]
  /\ UNCHANGED <<timeVars, outcome, result, pumpCancelled, errChan, tssVars, outCh, endCh,
                 sending, applying, net, pumpVars>>

\* After the sleep: the deadline first, then an error, then the result.

\* Mutant: the deadline is looked at only together with an error.
GiveUpOnError(p) == expired[p] /\ errChan[p] /\ Return(p, "error") /\ UNCHANGED errChan

GiveUp(p) == expired[p] /\ Return(p, "error") /\ UNCHANGED errChan

ReportError(p) == /\ ~expired[p] /\ errChan[p]
                  /\ errChan' = [errChan EXCEPT ![p] = FALSE]
                  /\ Return(p, "error")

\* Mutant: no error counts as a result.
ReturnEarly(p) == ~expired[p] /\ ~errChan[p] /\ Return(p, "ok") /\ UNCHANGED errChan

ReturnResult(p) == /\ ~expired[p] /\ ~errChan[p] /\ result[p]
                   /\ Return(p, "ok") /\ UNCHANGED errChan

SelectAgain(p) == /\ ~expired[p] /\ ~errChan[p] /\ ~result[p]
                  /\ runPc' = [runPc EXCEPT ![p] = "select"]
                  /\ UNCHANGED <<outcome, errChan>>

LoopWake(p) ==
  /\ runPc[p] = "asleep"
  /\ GiveUp(p) \/ ReportError(p) \/ ReturnResult(p) \/ SelectAgain(p)
  /\ UNCHANGED <<timeVars, result, pumpCancelled, tssVars, outCh, endCh, sending,
                 applying, net, pumpVars>>

(* Its goroutines *)

\* Messenger.SendMessage returns nil.
Send(p, m) ==
  /\ m \in sending[p]
  /\ net' = net \cup {m}
  /\ sending' = [sending EXCEPT ![p] = @ \ {m}]
  /\ UNCHANGED <<timeVars, loopVars, errChan, tssVars, outCh, endCh, applying, pumpVars>>

\* It retries until the context is done.  The goroutine blocks until the error
\* channel takes its error; the one of keygen then gives up its other peers.
SendFails(p, m) ==
  /\ m \in sending[p] /\ cancelled[p] /\ ~errChan[p]
  /\ errChan' = [errChan EXCEPT ![p] = TRUE]
  /\ sending' = [sending EXCEPT ![p] =
       IF kind = "keygen" THEN {n \in @ : n.round # m.round} ELSE @ \ {m}]
  /\ UNCHANGED <<timeVars, loopVars, tssVars, outCh, endCh, applying, net, pumpVars>>

Apply(p, m) ==
  /\ m \in applying[p]
  /\ applying' = [applying EXCEPT ![p] = @ \ {m}]
  /\ got' = [got EXCEPT ![p] = @ \cup {m}]
  /\ UNCHANGED <<timeVars, loopVars, errChan, startErr, round, outCh, endCh, sending, net,
                 pumpVars>>

\* The TSS party rejects the message, as when the peers sign different inputs.
ApplyFails(p, m) ==
  /\ m \in applying[p] /\ ~errChan[p]
  /\ applying' = [applying EXCEPT ![p] = @ \ {m}]
  /\ errChan' = [errChan EXCEPT ![p] = TRUE]
  /\ UNCHANGED <<timeVars, loopVars, tssVars, outCh, endCh, sending, net, pumpVars>>

(* The pump's goroutine *)

\* Mutant: a replayed message is handed over again.
FreshOrReplayed(p) == {m \in net : m.to = p}

\* What Run may hand over next.
Fresh(p) == {m \in net : m.to = p} \ handed[p]

\* Mutant: the handler runs in a goroutine of its own.
PumpHandsOn(p) ==
  /\ ~pumpStopped[p]
  /\ \E m \in Fresh(p) : /\ held' = [held EXCEPT ![p] = @ \cup {m}]
                         /\ handed' = [handed EXCEPT ![p] = @ \cup {m}]
  /\ UNCHANGED <<timeVars, loopVars, errChan, tssVars, outCh, endCh, sending, applying,
                 net, pumpStopped>>

\* The handler calls ApplyData, which blocks until the loop receives.
PumpHands(p) ==
  /\ ~pumpStopped[p] /\ held[p] = {}
  /\ \E m \in Fresh(p) : /\ held' = [held EXCEPT ![p] = {m}]
                         /\ handed' = [handed EXCEPT ![p] = @ \cup {m}]
  /\ UNCHANGED <<timeVars, loopVars, errChan, tssVars, outCh, endCh, sending, applying,
                 net, pumpStopped>>

\* Run looks at its context only when the handler has returned.
PumpStops(p) ==
  /\ ~pumpStopped[p] /\ held[p] = {}
  /\ cancelled[p] \/ pumpCancelled[p]
  /\ pumpStopped' = [pumpStopped EXCEPT ![p] = TRUE]
  /\ UNCHANGED <<timeVars, loopVars, errChan, tssVars, outCh, endCh, sending, applying,
                 net, handed, held>>

(* The session function after KeygenECDSA or KeysignECDSA *)

\* Mutant: the wait comes before the cancellation.
CancelPumpLater(p) ==
  /\ runPc[p] = "teardown"
  /\ runPc' = [runPc EXCEPT ![p] = "wait"]
  /\ UNCHANGED <<timeVars, outcome, result, pumpCancelled, errChan, tssVars, outCh, endCh,
                 sending, applying, net, pumpVars>>

CancelPump(p) ==
  /\ runPc[p] = "teardown"
  /\ pumpCancelled' = [pumpCancelled EXCEPT ![p] = TRUE]
  /\ runPc' = [runPc EXCEPT ![p] = "wait"]
  /\ UNCHANGED <<timeVars, outcome, result, errChan, tssVars, outCh, endCh, sending,
                 applying, net, pumpVars>>

\* pumpWg.Wait() is in the keysign functions only.
MayLeave(p) == kind = "keysign" => pumpStopped[p]

\* The deferred cancel ends the session context.
Leave(p) ==
  /\ runPc[p] = "wait"
  /\ MayLeave(p)
  /\ runPc' = [runPc EXCEPT ![p] = "returned"]
  /\ cancelled' = [cancelled EXCEPT ![p] = TRUE]
  /\ UNCHANGED <<kind, expired, outcome, result, pumpCancelled, errChan, tssVars, outCh,
                 endCh, sending, applying, net, pumpVars>>

-----------------------------------------------------------------------------
Loop(p) == LoopStartFailed(p) \/ LoopOut(p) \/ LoopIn(p) \/ LoopEnd(p)
           \/ LoopEndFails(p) \/ LoopIdle(p) \/ LoopWake(p)
Tss(p) == TssStart(p) \/ TssAdvance(p) \/ \E m \in applying[p] : Apply(p, m)
Teardown(p) == CancelPump(p) \/ Leave(p)

Next == \E p \in Party :
  \/ Expire(p) \/ TimeOut(p) \/ Tss(p) \/ Loop(p) \/ Teardown(p)
  \/ \E m \in sending[p] : Send(p, m) \/ SendFails(p, m)
  \/ \E m \in applying[p] : ApplyFails(p, m)
  \/ PumpHands(p) \/ PumpStops(p)

Spec == Init /\ [][Next]_vars

\* The goroutines of the process run and its deadline passes.  Nothing is
\* assumed of the relays: a message may be in flight for ever.
Fairness == \A p \in Party : /\ WF_vars(Expire(p))
                             /\ WF_vars(Tss(p))
                             /\ WF_vars(Loop(p))
                             /\ WF_vars(PumpHands(p))
                             /\ WF_vars(PumpStops(p))
                             /\ WF_vars(Teardown(p))

FairSpec == Spec /\ Fairness

-----------------------------------------------------------------------------
(* Properties *)

\* The pump holds at most one message: ApplyData blocks it until the loop takes
\* that one (tss.go:25, pump.go:277).
TypeOK ==
  /\ kind \in {"keygen", "keysign"}
  /\ runPc \in [Party -> {"select", "asleep", "teardown", "wait", "returned"}]
  /\ outcome \in [Party -> {"none", "ok", "error"}]
  /\ {expired, cancelled, errChan, result, startErr, endCh, pumpStopped, pumpCancelled}
       \subseteq [Party -> BOOLEAN]
  /\ round \in [Party -> 0 .. Rounds + 1]
  /\ outCh \in [Party -> SUBSET (1 .. Rounds)]
  /\ {got, sending, applying, handed, held} \subseteq [Party -> SUBSET Message]
  /\ net \subseteq Message
  /\ \A p \in Party : Cardinality(held[p]) <= 1

\* The call of a generation always ends, whatever peers and relays do: no
\* channel of the loop can keep it from its deadline.
KeygenReturns == \A p \in Party : kind = "keygen" ~> runPc[p] = "returned"

\* A signing call whose protocol succeeded is never stuck in its teardown: the
\* pump cannot be blocked in ApplyData once the signature is there.
SignedReturns == \A p \in Party : outcome[p] = "ok" ~> runPc[p] = "returned"

\* Behind it: a result means that every message of every peer was received by
\* the loop and applied, so that none is left for the pump to hold.
ResultMeansDrained ==
  \A p \in Party : result[p] =>
    /\ got[p] = {m \in Message : m.to = p /\ m.from # p}
    /\ held[p] = {} /\ applying[p] = {}

\* Success of one party needs the work of every other: it has started and ended
\* its rounds but possibly the last.
NobodySucceedsAlone ==
  \A p, q \in Party : outcome[p] = "ok" => round[q] >= Rounds

\* tss/cmd/CLI_USAGE_README.md:212, "Maximum timeout in seconds": a failed
\* signing call reports its error.
KeysignReturns == \A p \in Party : kind = "keysign" ~> runPc[p] = "returned"
=============================================================================
