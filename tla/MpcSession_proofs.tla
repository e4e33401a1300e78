--------------------------- MODULE MpcSession_proofs ---------------------------
(***************************************************************************)
(* The protocol phase for any committee and any number of rounds.  The     *)
(* invariant says where a message can be: a published one is handed over   *)
(* at most once, and is then with the pump, with a goroutine that applies  *)
(* it, applied or dropped; and no message is ahead of its sender's round.  *)
(* LeftInv says how far the teardown of a call that left its loop has come.*)
(***************************************************************************)
EXTENDS MpcSession, FiniteSetTheorems, TLAPS

LoopTypes ==
  /\ kind \in {"keygen", "keysign"}
  /\ runPc \in [Party -> {"select", "asleep", "teardown", "wait", "returned"}]
  /\ outcome \in [Party -> {"none", "ok", "error"}]
  /\ result \in [Party -> BOOLEAN] /\ errChan \in [Party -> BOOLEAN]
  /\ expired \in [Party -> BOOLEAN] /\ cancelled \in [Party -> BOOLEAN]
  /\ pumpStopped \in [Party -> BOOLEAN] /\ pumpCancelled \in [Party -> BOOLEAN]

TssTypes ==
  /\ round \in [Party -> 0 .. Rounds + 1]
  /\ startErr \in [Party -> BOOLEAN] /\ endCh \in [Party -> BOOLEAN]
  /\ outCh \in [Party -> SUBSET (1 .. Rounds)]

MessageTypes ==
  /\ got \in [Party -> SUBSET Message] /\ sending \in [Party -> SUBSET Message]
  /\ applying \in [Party -> SUBSET Message]
  /\ handed \in [Party -> SUBSET Message] /\ held \in [Party -> SUBSET Message]
  /\ net \subseteq Message

\* The pump's handler has one message at a time.
HeldOne == \A p \in Party : held[p] = {} \/ \E m \in Message : held[p] = {m}

Types == LoopTypes /\ TssTypes /\ MessageTypes /\ HeldOne

\* A message is in one place, and got there through the pump.
FlowInv == \A p \in Party :
  /\ held[p] \cup applying[p] \cup got[p] \subseteq handed[p]
  /\ handed[p] \subseteq {m \in net : m.to = p}
  /\ held[p] \cap applying[p] = {} /\ (held[p] \cup applying[p]) \cap got[p] = {}

\* Who has sent a message of a round, is in that round or later.
SentInv ==
  /\ \A p \in Party :
       /\ \A r \in outCh[p] : r <= round[p]
       /\ \A m \in sending[p] : m.from = p /\ m.to # p /\ m.round <= round[p]
  /\ \A m \in net : m.from # m.to /\ m.round <= round[m.from]

\* Behind a round lie the messages of all peers, behind a success a result,
\* behind a result all rounds.
RoundInv == \A p \in Party :
  /\ \A r \in 1 .. Rounds : r < round[p] => HeardAll(p, r)
  /\ endCh[p] \/ result[p] => round[p] = Rounds + 1
  /\ outcome[p] = "ok" => result[p]

IInv == Types /\ FlowInv /\ SentInv /\ RoundInv

-----------------------------------------------------------------------------
LEMMA InitOk == Init => IInv
<1> SUFFICES ASSUME Init PROVE IInv
  OBVIOUS
<1>1. LoopTypes
  BY DEF Init, LoopTypes
<1>2. TssTypes
  BY SessionAssumption DEF Init, TssTypes
<1>3. MessageTypes /\ HeldOne
  BY DEF Init, MessageTypes, HeldOne
<1>4. FlowInv /\ SentInv
  BY DEF Init, FlowInv, SentInv
<1>5. RoundInv
  BY DEF Init, RoundInv
<1>6. QED
  BY <1>1, <1>2, <1>3, <1>4, <1>5 DEF IInv, Types

LEMMA TypesMeanTypeOK == Types => TypeOK
<1> SUFFICES ASSUME Types PROVE TypeOK
  OBVIOUS
<1>1. ASSUME NEW p \in Party PROVE Cardinality(held[p]) <= 1
  <2>1. CASE held[p] = {}
    BY <2>1, FS_EmptySet
  <2>2. CASE held[p] # {}
    <3>1. PICK m \in Message : held[p] = {m}
      BY <2>2 DEF Types, HeldOne
    <3>2. QED
      BY <3>1, FS_Singleton
  <2>3. QED
    BY <2>1, <2>2
<1>2. QED
  BY <1>1 DEF Types, LoopTypes, TssTypes, MessageTypes, TypeOK

\* Every variable's type, one step at a time.
LEMMA LoopTypesStep == LoopTypes /\ [Next]_vars => LoopTypes'
<1> SUFFICES ASSUME LoopTypes, [Next]_vars PROVE LoopTypes'
  OBVIOUS
<1>1. ASSUME NEW p \in Party, Expire(p) \/ TimeOut(p) PROVE LoopTypes'
  BY <1>1 DEF LoopTypes, Expire, TimeOut, loopVars, pumpVars
<1>2. ASSUME NEW p \in Party, Tss(p) PROVE LoopTypes'
  BY <1>2 DEF LoopTypes, Tss, TssStart, TssAdvance, Apply, loopVars, pumpVars, timeVars
<1>3. ASSUME NEW p \in Party, LoopStartFailed(p) \/ LoopOut(p) \/ LoopIn(p) PROVE LoopTypes'
  BY <1>3 DEF LoopTypes, LoopStartFailed, LoopOut, LoopIn, Return, loopVars, pumpVars, timeVars
<1>4. ASSUME NEW p \in Party, LoopEnd(p) \/ LoopEndFails(p) \/ LoopIdle(p) PROVE LoopTypes'
  BY <1>4 DEF LoopTypes, LoopEnd, LoopEndFails, LoopIdle, Return, loopVars, pumpVars, timeVars
<1>5. ASSUME NEW p \in Party, LoopWake(p) PROVE LoopTypes'
  BY <1>5 DEF LoopTypes, LoopWake, GiveUp, ReportError, ReturnResult, SelectAgain, Return,
              pumpVars, timeVars
<1>6. ASSUME NEW p \in Party, CancelPump(p) \/ Leave(p) PROVE LoopTypes'
  BY <1>6 DEF LoopTypes, CancelPump, Leave, pumpVars, timeVars
<1>7. ASSUME NEW p \in Party, NEW m \in sending[p], Send(p, m) \/ SendFails(p, m) PROVE LoopTypes'
  BY <1>7 DEF LoopTypes, Send, SendFails, loopVars, pumpVars, timeVars
<1>8. ASSUME NEW p \in Party, NEW m \in applying[p], ApplyFails(p, m) PROVE LoopTypes'
  BY <1>8 DEF LoopTypes, ApplyFails, loopVars, pumpVars, timeVars
<1>9. ASSUME NEW p \in Party, PumpHands(p) \/ PumpStops(p) PROVE LoopTypes'
  BY <1>9 DEF LoopTypes, PumpHands, PumpStops, loopVars, timeVars
<1>10. CASE UNCHANGED vars
  BY <1>10 DEF LoopTypes, vars
<1>11. QED
  BY <1>1, <1>2, <1>3, <1>4, <1>5, <1>6, <1>7, <1>8, <1>9, <1>10 DEF Next, Loop, Teardown

LEMMA TssTypesStep == TssTypes /\ [Next]_vars => TssTypes'
<1> SUFFICES ASSUME TssTypes, [Next]_vars PROVE TssTypes'
  OBVIOUS
<1>1. ASSUME NEW p \in Party, TssStart(p) PROVE TssTypes'
  <2>1. 1 \in 0 .. Rounds + 1 /\ {1} \in SUBSET (1 .. Rounds)
    BY SessionAssumption
  <2>2. round' \in [Party -> 0 .. Rounds + 1]
    BY <1>1, <2>1 DEF TssTypes, TssStart
  <2>3. outCh' \in [Party -> SUBSET (1 .. Rounds)]
    BY <1>1, <2>1 DEF TssTypes, TssStart
  <2>4. startErr' \in [Party -> BOOLEAN] /\ endCh' \in [Party -> BOOLEAN]
    BY <1>1 DEF TssTypes, TssStart
  <2>5. QED
    BY <2>2, <2>3, <2>4 DEF TssTypes
<1>2. ASSUME NEW p \in Party, TssAdvance(p) PROVE TssTypes'
  <2>1. round[p] + 1 \in 0 .. Rounds + 1
    BY <1>2, SessionAssumption DEF TssAdvance
  <2>2. round' \in [Party -> 0 .. Rounds + 1]
    BY <1>2, <2>1 DEF TssTypes, TssAdvance
  <2>3. round[p] < Rounds => outCh[p] \cup {round[p] + 1} \in SUBSET (1 .. Rounds)
    BY <1>2, SessionAssumption DEF TssTypes, TssAdvance
  <2>4. outCh' \in [Party -> SUBSET (1 .. Rounds)]
    BY <1>2, <2>3 DEF TssTypes, TssAdvance
  <2>5. startErr' \in [Party -> BOOLEAN] /\ endCh' \in [Party -> BOOLEAN]
    BY <1>2 DEF TssTypes, TssAdvance
  <2>6. QED
    BY <2>2, <2>4, <2>5 DEF TssTypes
<1>3. ASSUME NEW p \in Party, LoopOut(p) \/ LoopEnd(p) \/ LoopEndFails(p) PROVE TssTypes'
  BY <1>3 DEF TssTypes, LoopOut, LoopEnd, LoopEndFails, tssVars
<1>4. CASE UNCHANGED <<round, startErr, endCh, outCh>>
  BY <1>4 DEF TssTypes
<1>5. ASSUME NEW p \in Party,
             \/ Expire(p) \/ TimeOut(p) \/ \E m \in applying[p] : Apply(p, m)
             \/ LoopStartFailed(p) \/ LoopIn(p) \/ LoopIdle(p) \/ LoopWake(p)
             \/ Teardown(p)
             \/ \E m \in sending[p] : Send(p, m) \/ SendFails(p, m)
             \/ \E m \in applying[p] : ApplyFails(p, m)
             \/ PumpHands(p) \/ PumpStops(p)
      PROVE  UNCHANGED <<round, startErr, endCh, outCh>>
  BY <1>5 DEF Expire, TimeOut, Apply, LoopStartFailed, LoopIn, LoopIdle, LoopWake, Teardown,
              CancelPump, Leave, Send, SendFails, ApplyFails, PumpHands, PumpStops, tssVars
<1>6. QED
  BY <1>1, <1>2, <1>3, <1>4, <1>5 DEF Next, Tss, Loop, vars

\* The steps that move messages; the others leave them where they are.
LEMMA MessageFrame ==
  ASSUME [Next]_vars,
         ~ \E p \in Party :
             \/ LoopOut(p) \/ LoopIn(p) \/ PumpHands(p)
             \/ \E m \in sending[p] : Send(p, m) \/ SendFails(p, m)
             \/ \E m \in applying[p] : Apply(p, m) \/ ApplyFails(p, m)
  PROVE  UNCHANGED <<got, sending, applying, handed, held, net>>
<1>1. CASE UNCHANGED vars
  BY <1>1 DEF vars
<1>2. ASSUME NEW p \in Party,
             \/ Expire(p) \/ TimeOut(p) \/ TssStart(p) \/ TssAdvance(p) \/ LoopStartFailed(p)
             \/ LoopEnd(p) \/ LoopEndFails(p) \/ LoopIdle(p) \/ LoopWake(p) \/ Teardown(p)
             \/ PumpStops(p)
      PROVE  UNCHANGED <<got, sending, applying, handed, held, net>>
  BY <1>2 DEF Expire, TimeOut, TssStart, TssAdvance, LoopStartFailed, LoopEnd, LoopEndFails,
              LoopIdle, LoopWake, Teardown, CancelPump, Leave, PumpStops, tssVars, pumpVars
<1>3. QED
  BY <1>1, <1>2 DEF Next, Tss, Loop

\* Where the messages go, and that the pump's handler still has one at most.
LEMMA MessageStep ==
  ASSUME Types, FlowInv, SentInv, [Next]_vars
  PROVE  MessageTypes' /\ HeldOne' /\ FlowInv'
<1>1. ASSUME NEW p \in Party, LoopOut(p)
      PROVE  MessageTypes' /\ HeldOne' /\ FlowInv'
  <2>1. PICK r \in 1 .. Rounds : sending' = [sending EXCEPT ![p] = @ \cup MessagesOf(p, r)]
    BY <1>1 DEF LoopOut, Types, TssTypes
  <2>2. MessagesOf(p, r) \subseteq Message
    BY DEF MessagesOf, Message, Others
  <2>3. sending' \in [Party -> SUBSET Message]
    BY <2>1, <2>2 DEF Types, MessageTypes
  <2>4. UNCHANGED <<got, applying, handed, held, net>>
    BY <1>1 DEF LoopOut, tssVars, pumpVars
  <2>5. QED
    BY <2>3, <2>4 DEF Types, MessageTypes, HeldOne, FlowInv
<1>2. ASSUME NEW p \in Party, LoopIn(p)
      PROVE  MessageTypes' /\ HeldOne' /\ FlowInv'
  <2>1. /\ applying' = [applying EXCEPT ![p] = @ \cup held[p]]
        /\ held' = [held EXCEPT ![p] = {}]
        /\ UNCHANGED <<got, sending, handed, net>>
    BY <1>2 DEF LoopIn, tssVars
  <2>2. MessageTypes'
    BY <2>1 DEF Types, MessageTypes
  <2>3. HeldOne'
    BY <2>1 DEF Types, MessageTypes, HeldOne
  <2>4. FlowInv'
    BY <2>1 DEF Types, MessageTypes, FlowInv
  <2>5. QED
    BY <2>2, <2>3, <2>4
<1>3. ASSUME NEW p \in Party, PumpHands(p)
      PROVE  MessageTypes' /\ HeldOne' /\ FlowInv'
  <2>1. PICK m \in Fresh(p) : /\ held' = [held EXCEPT ![p] = {m}]
                              /\ handed' = [handed EXCEPT ![p] = @ \cup {m}]
    BY <1>3 DEF PumpHands
  <2>2. UNCHANGED <<got, sending, applying, net>>
    BY <1>3 DEF PumpHands, tssVars
  <2>3. m \in net /\ m \in Message /\ m.to = p /\ m \notin handed[p]
    BY DEF Fresh, Types, MessageTypes
  <2>4. MessageTypes'
    BY <2>1, <2>2, <2>3 DEF Types, MessageTypes
  <2>5. HeldOne'
    BY <2>1, <2>3 DEF Types, MessageTypes, HeldOne
  <2>6. FlowInv'
    BY <2>1, <2>2, <2>3 DEF Types, MessageTypes, FlowInv
  <2>7. QED
    BY <2>4, <2>5, <2>6
<1>4. ASSUME NEW p \in Party, NEW m \in sending[p], Send(p, m) \/ SendFails(p, m)
      PROVE  MessageTypes' /\ HeldOne' /\ FlowInv'
  <2>1. /\ UNCHANGED <<got, applying, handed, held>>
        /\ net' \subseteq net \cup {m} /\ net \subseteq net'
    BY <1>4 DEF Send, SendFails, tssVars, pumpVars
  <2>2. PICK S \in SUBSET sending[p] : sending' = [sending EXCEPT ![p] = S]
    BY <1>4 DEF Send, SendFails
  <2>3. MessageTypes'
    BY <2>1, <2>2 DEF Types, MessageTypes
  <2>4. HeldOne' /\ FlowInv'
    BY <2>1 DEF Types, HeldOne, FlowInv
  <2>5. QED
    BY <2>3, <2>4
<1>5. ASSUME NEW p \in Party, NEW m \in applying[p], Apply(p, m) \/ ApplyFails(p, m)
      PROVE  MessageTypes' /\ HeldOne' /\ FlowInv'
  <2>1. /\ applying' = [applying EXCEPT ![p] = @ \ {m}]
        /\ got' = [got EXCEPT ![p] = @ \cup {m}] \/ got' = got
        /\ UNCHANGED <<sending, handed, held, net>>
    BY <1>5 DEF Apply, ApplyFails, tssVars, pumpVars
  <2>2. MessageTypes' /\ HeldOne'
    BY <2>1 DEF Types, MessageTypes, HeldOne
  <2>3. FlowInv'
    BY <2>1 DEF Types, MessageTypes, FlowInv
  <2>4. QED
    BY <2>2, <2>3
<1>6. CASE UNCHANGED <<got, sending, applying, handed, held, net>>
  BY <1>6 DEF Types, MessageTypes, HeldOne, FlowInv
<1>7. QED
  BY <1>1, <1>2, <1>3, <1>4, <1>5, <1>6, MessageFrame

\* No message gets ahead of its sender's round.
LEMMA SentStep ==
  ASSUME Types, SentInv, [Next]_vars
  PROVE  SentInv'
<1>1. ASSUME NEW p \in Party, TssStart(p) \/ TssAdvance(p)
      PROVE  SentInv'
  <2>1. UNCHANGED <<sending, net>>
    BY <1>1 DEF TssStart, TssAdvance
  <2>2. \/ UNCHANGED <<round, outCh>>
        \/ /\ round' = [round EXCEPT ![p] = @ + 1]
           /\ outCh' = [outCh EXCEPT ![p] = {1}] /\ round[p] = 0
        \/ /\ round' = [round EXCEPT ![p] = @ + 1]
           /\ outCh' = [outCh EXCEPT ![p] = @ \cup {round[p] + 1}] \/ outCh' = outCh
    BY <1>1 DEF TssStart, TssAdvance, Types, TssTypes
  <2>3. ASSUME NEW q \in Party
        PROVE  round[q] \in Nat /\ round'[q] \in Nat /\ round[q] <= round'[q]
    BY <2>2, SessionAssumption DEF Types, TssTypes
  <2>4. ASSUME NEW q \in Party, NEW r \in outCh'[q]
        PROVE  r <= round'[q]
    <3>1. r \in outCh[q] \/ r = round'[q]
      BY <2>2 DEF Types, TssTypes
    <3>2. CASE r \in outCh[q]
      <4>1. r \in Nat /\ r <= round[q]
        BY <3>2, SessionAssumption DEF SentInv, Types, TssTypes
      <4>2. QED
        BY <2>3, <4>1
    <3>3. QED
      BY <2>3, <3>1, <3>2
  <2>5. ASSUME NEW m \in Message, NEW q \in Party, m.round <= round[q]
        PROVE  m.round <= round'[q]
    BY <2>3, <2>5, SessionAssumption DEF Message
  <2>6. ASSUME NEW q \in Party, NEW m \in sending'[q]
        PROVE  m.from = q /\ m.to # q /\ m.round <= round'[q]
    BY <2>1, <2>5 DEF SentInv, Types, MessageTypes
  <2>7. ASSUME NEW m \in net'
        PROVE  m.from # m.to /\ m.round <= round'[m.from]
    <3>1. m \in Message /\ m.from \in Party
      BY <2>1 DEF Types, MessageTypes, Message
    <3>2. QED
      BY <2>1, <2>5, <3>1 DEF SentInv
  <2>8. QED
    BY <2>4, <2>6, <2>7 DEF SentInv
<1>2. ASSUME NEW p \in Party, LoopOut(p)
      PROVE  SentInv'
  <2>1. PICK r \in outCh[p] : /\ outCh' = [outCh EXCEPT ![p] = @ \ {r}]
                              /\ sending' = [sending EXCEPT ![p] = @ \cup MessagesOf(p, r)]
    BY <1>2 DEF LoopOut
  <2>2. UNCHANGED <<round, net>> /\ r <= round[p]
    BY <1>2, <2>1 DEF LoopOut, tssVars, SentInv
  <2>3. \A m \in MessagesOf(p, r) : m.from = p /\ m.to # p /\ m.round <= round[p]
    BY <2>2 DEF MessagesOf, Others
  <2>4. QED
    BY <2>1, <2>2, <2>3 DEF SentInv, Types, TssTypes, MessageTypes
<1>3. ASSUME NEW p \in Party, NEW m \in sending[p], Send(p, m) \/ SendFails(p, m)
      PROVE  SentInv'
  <2>1. UNCHANGED <<round, outCh>> /\ net' \subseteq net \cup {m}
    BY <1>3 DEF Send, SendFails, tssVars
  <2>2. PICK S \in SUBSET sending[p] : sending' = [sending EXCEPT ![p] = S]
    BY <1>3 DEF Send, SendFails
  <2>3. m.from # m.to /\ m.round <= round[m.from]
    BY DEF SentInv
  <2>4. QED
    BY <2>1, <2>2, <2>3 DEF SentInv, Types, MessageTypes
<1>4. CASE UNCHANGED <<outCh, sending, net, round>>
  BY <1>4 DEF SentInv
<1>5. ASSUME NEW p \in Party,
             \/ Expire(p) \/ TimeOut(p) \/ LoopStartFailed(p) \/ LoopIn(p) \/ LoopEnd(p)
             \/ LoopEndFails(p) \/ LoopIdle(p) \/ LoopWake(p) \/ Teardown(p)
             \/ \E m \in applying[p] : Apply(p, m) \/ ApplyFails(p, m)
             \/ PumpHands(p) \/ PumpStops(p)
      PROVE  UNCHANGED <<outCh, sending, net, round>>
  BY <1>5 DEF Expire, TimeOut, LoopStartFailed, LoopIn, LoopEnd, LoopEndFails, LoopIdle, LoopWake,
              Teardown, CancelPump, Leave, Apply, ApplyFails, PumpHands, PumpStops, tssVars
<1>6. QED
  BY <1>1, <1>2, <1>3, <1>4, <1>5 DEF Next, Tss, Loop, vars

\* A party moves on only when it has heard all of a round, and returns "ok"
\* only with a result.
LEMMA RoundStep ==
  ASSUME Types, RoundInv, [Next]_vars
  PROVE  RoundInv'
<1>1. ASSUME NEW p \in Party, TssStart(p)
      PROVE  RoundInv'
  <2>1. /\ UNCHANGED <<got, endCh, result, outcome>> /\ round[p] = 0
        /\ round' = [round EXCEPT ![p] = 1] \/ round' = round
    BY <1>1 DEF TssStart, loopVars
  <2>2. QED
    BY <2>1, SessionAssumption DEF RoundInv, HeardAll, Types, TssTypes
<1>2. ASSUME NEW p \in Party, TssAdvance(p)
      PROVE  RoundInv'
  <2>1. /\ UNCHANGED <<got, result, outcome>>
        /\ round[p] \in 1 .. Rounds /\ HeardAll(p, round[p])
        /\ round' = [round EXCEPT ![p] = @ + 1]
        /\ \/ endCh' = endCh
           \/ endCh' = [endCh EXCEPT ![p] = TRUE] /\ ~ (round[p] < Rounds)
    BY <1>2 DEF TssAdvance, loopVars
  <2>2. ASSUME NEW q \in Party, NEW r \in 1 .. Rounds, r < round'[q]
        PROVE  HeardAll(q, r)'
    <3>1. r < round[q] \/ (q = p /\ r = round[p])
      BY <2>1, <2>2, SessionAssumption DEF Types, TssTypes
    <3>2. HeardAll(q, r)
      BY <2>1, <3>1 DEF RoundInv
    <3>3. QED
      BY <2>1, <3>2 DEF HeardAll
  <2>3. ASSUME NEW q \in Party, endCh'[q] \/ result'[q]
        PROVE  round'[q] = Rounds + 1
    <3>1. CASE q = p
      <4>1. ~ (endCh[p] \/ result[p])
        BY <2>1, SessionAssumption DEF RoundInv
      <4>2. endCh' = [endCh EXCEPT ![p] = TRUE] /\ ~ (round[p] < Rounds)
        BY <2>1, <2>3, <3>1, <4>1
      <4>3. round[p] = Rounds
        BY <2>1, <4>2, SessionAssumption
      <4>4. QED
        BY <2>1, <3>1, <4>3 DEF Types, TssTypes
    <3>2. CASE q # p
      BY <2>1, <2>3, <3>2 DEF RoundInv, Types, TssTypes
    <3>3. QED
      BY <3>1, <3>2
  <2>4. QED
    BY <2>1, <2>2, <2>3 DEF RoundInv
<1>3. ASSUME NEW p \in Party, NEW m \in applying[p], Apply(p, m)
      PROVE  RoundInv'
  <2>1. /\ UNCHANGED <<round, endCh, result, outcome>>
        /\ got' = [got EXCEPT ![p] = @ \cup {m}]
    BY <1>3 DEF Apply, loopVars
  <2>2. \A q \in Party : got[q] \subseteq got'[q]
    BY <2>1 DEF Types, MessageTypes
  <2>3. QED
    BY <2>1, <2>2 DEF RoundInv, HeardAll
<1>4. ASSUME NEW p \in Party, LoopStartFailed(p)
      PROVE  RoundInv'
  <2>1. /\ UNCHANGED <<round, got, endCh, result>>
        /\ outcome' = [outcome EXCEPT ![p] = "error"]
    BY <1>4 DEF LoopStartFailed, Return, tssVars
  <2>2. QED
    BY <2>1 DEF RoundInv, HeardAll, Types, LoopTypes
<1>5. ASSUME NEW p \in Party, LoopEnd(p)
      PROVE  RoundInv'
  <2>1. /\ UNCHANGED <<round, got, outcome>> /\ endCh[p]
        /\ endCh' = [endCh EXCEPT ![p] = FALSE]
        /\ result' = [result EXCEPT ![p] = TRUE]
    BY <1>5 DEF LoopEnd, tssVars
  <2>2. QED
    BY <2>1 DEF RoundInv, HeardAll, Types, LoopTypes, TssTypes
<1>6. ASSUME NEW p \in Party, LoopEndFails(p)
      PROVE  RoundInv'
  <2>1. /\ UNCHANGED <<round, got, result>>
        /\ endCh' = [endCh EXCEPT ![p] = FALSE]
        /\ outcome' = [outcome EXCEPT ![p] = "error"]
    BY <1>6 DEF LoopEndFails, Return, tssVars
  <2>2. QED
    BY <2>1 DEF RoundInv, HeardAll, Types, LoopTypes, TssTypes
<1>7. ASSUME NEW p \in Party, LoopWake(p)
      PROVE  RoundInv'
  <2>1. /\ UNCHANGED <<round, got, endCh, result>>
        /\ \/ outcome' = outcome
           \/ outcome' = [outcome EXCEPT ![p] = "error"]
           \/ outcome' = [outcome EXCEPT ![p] = "ok"] /\ result[p]
    BY <1>7 DEF LoopWake, GiveUp, ReportError, ReturnResult, SelectAgain, Return, tssVars
  <2>2. QED
    BY <2>1 DEF RoundInv, HeardAll, Types, LoopTypes
<1>8. CASE UNCHANGED <<round, got, endCh, result, outcome>>
  BY <1>8 DEF RoundInv, HeardAll
<1>9. ASSUME NEW p \in Party,
             \/ Expire(p) \/ TimeOut(p) \/ LoopOut(p) \/ LoopIn(p) \/ LoopIdle(p) \/ Teardown(p)
             \/ \E m \in sending[p] : Send(p, m) \/ SendFails(p, m)
             \/ \E m \in applying[p] : ApplyFails(p, m)
             \/ PumpHands(p) \/ PumpStops(p)
      PROVE  UNCHANGED <<round, got, endCh, result, outcome>>
  BY <1>9 DEF Expire, TimeOut, LoopOut, LoopIn, LoopIdle, Teardown, CancelPump, Leave, Send,
              SendFails, ApplyFails, PumpHands, PumpStops, tssVars, loopVars
<1>10. QED
  BY <1>1, <1>2, <1>3, <1>4, <1>5, <1>6, <1>7, <1>8, <1>9 DEF Next, Tss, Loop, vars

LEMMA StepOk == IInv /\ [Next]_vars => IInv'
BY LoopTypesStep, TssTypesStep, MessageStep, SentStep, RoundStep DEF IInv, Types

\* The invariant holds in every behaviour of the protocol phase.
THEOREM Invariance == Spec => []IInv
BY InitOk, StepOk, PTL DEF Spec

-----------------------------------------------------------------------------
\* The loop's and the goroutines' variables stay in their ranges, and the pump's
\* handler is blocked with one message at most.
THEOREM TypeCorrect == Spec => []TypeOK
<1>1. IInv => TypeOK
  BY TypesMeanTypeOK DEF IInv
<1>2. QED
  BY <1>1, Invariance, PTL

\* A party with a result has applied every message there is for it, from every
\* peer and of every round.
LEMMA ResultHasAll ==
  ASSUME IInv, NEW p \in Party, result[p]
  PROVE  got[p] = {m \in Message : m.to = p /\ m.from # p}
<1>1. ASSUME NEW m \in Message, m.to = p, m.from # p
      PROVE  m \in got[p]
  <2>1. m = [from |-> m.from, to |-> p, round |-> m.round]
        /\ m.round \in 1 .. Rounds /\ m.from \in Others(p)
    BY <1>1 DEF Message, Others
  <2>2. m.round < round[p]
    BY <2>1, SessionAssumption DEF IInv, RoundInv
  <2>3. HeardAll(p, m.round)
    BY <2>1, <2>2 DEF IInv, RoundInv
  <2>4. QED
    BY <2>1, <2>3 DEF HeardAll
<1>2. ASSUME NEW m \in got[p]
      PROVE  m \in Message /\ m.to = p /\ m.from # p
  BY DEF IInv, Types, MessageTypes, FlowInv, SentInv
<1>3. QED
  BY <1>1, <1>2

\* Once the loop has its result, nothing is left that the pump could be blocked
\* with or that a goroutine still applies: why a signing call that succeeded
\* gets through its teardown.
THEOREM ResultIsDrained == Spec => []ResultMeansDrained
<1>1. ASSUME IInv, NEW p \in Party, result[p]
      PROVE  held[p] = {} /\ applying[p] = {}
  <2>1. ASSUME NEW m \in held[p] \cup applying[p]
        PROVE  m \in got[p]
    <3>1. m \in net /\ m \in Message /\ m.to = p /\ m.from # p
      BY <1>1 DEF IInv, Types, MessageTypes, FlowInv, SentInv
    <3>2. QED
      BY <1>1, <3>1, ResultHasAll
  <2>2. QED
    BY <1>1, <2>1 DEF IInv, FlowInv
<1>2. IInv => ResultMeansDrained
  BY <1>1, ResultHasAll DEF ResultMeansDrained
<1>3. QED
  BY <1>2, Invariance, PTL

\* A success took the work of every peer: each has begun its last round.
THEOREM SuccessNeedsAll == Spec => []NobodySucceedsAlone
<1>1. ASSUME IInv, NEW p \in Party, NEW q \in Party, outcome[p] = "ok"
      PROVE  round[q] >= Rounds
  <2>1. result[p]
    BY <1>1 DEF IInv, RoundInv
  <2>2. CASE q = p
    BY <1>1, <2>1, <2>2, SessionAssumption DEF IInv, RoundInv
  <2>3. CASE q # p
    <3> DEFINE m == [from |-> q, to |-> p, round |-> Rounds]
    <3>1. m \in Message /\ m.to = p /\ m.from = q /\ m.round = Rounds
      BY SessionAssumption DEF Message
    <3>2. m \in got[p]
      BY <1>1, <2>1, <2>3, <3>1, ResultHasAll
    <3>3. m \in net
      BY <1>1, <3>2 DEF IInv, FlowInv
    <3>4. Rounds <= round[q]
      BY <1>1, <3>1, <3>3 DEF IInv, SentInv
    <3>5. QED
      BY <1>1, <3>4, SessionAssumption DEF IInv, Types, TssTypes
  <2>4. QED
    BY <2>2, <2>3
<1>2. IInv => NobodySucceedsAlone
  BY <1>1 DEF NobodySucceedsAlone
<1>3. QED
  BY <1>2, Invariance, PTL
-----------------------------------------------------------------------------
(* The teardown of a success *)

\* A success is past the loop, and its pump is cancelled before it is waited for.
LeftInv == \A p \in Party :
  /\ outcome[p] = "ok" => runPc[p] \in {"teardown", "wait", "returned"}
  /\ runPc[p] = "wait" => pumpCancelled[p]

LEMMA LeftStep == IInv /\ LeftInv /\ [Next]_vars => LeftInv'
<1> SUFFICES ASSUME IInv, LeftInv, [Next]_vars  PROVE LeftInv'
  OBVIOUS
<1>0. LoopTypes
  BY DEF IInv, Types
<1>1. CASE UNCHANGED <<runPc, outcome, pumpCancelled>>
  BY <1>1 DEF LeftInv
<1>2. ASSUME NEW p \in Party, NEW s \in {"select", "asleep"}, runPc[p] \in {"select", "asleep"},
             runPc' = [runPc EXCEPT ![p] = s], UNCHANGED <<outcome, pumpCancelled>>
      PROVE  LeftInv'
  BY <1>0, <1>2 DEF LeftInv, LoopTypes
<1>3. ASSUME NEW p \in Party, NEW how \in {"ok", "error"}, Return(p, how), UNCHANGED pumpCancelled
      PROVE  LeftInv'
  BY <1>0, <1>3 DEF LeftInv, LoopTypes, Return
<1>4. ASSUME NEW p \in Party, CancelPump(p) \/ Leave(p)  PROVE LeftInv'
  BY <1>0, <1>4 DEF LeftInv, LoopTypes, CancelPump, Leave
<1>5. ASSUME NEW p \in Party, Loop(p)  PROVE LeftInv'
  <2>1. CASE LoopOut(p) \/ LoopIn(p) \/ LoopEnd(p)
    BY <1>1, <2>1 DEF LoopOut, LoopIn, LoopEnd, loopVars
  <2>2. CASE LoopStartFailed(p) \/ LoopEndFails(p)
    BY <1>3, <2>2 DEF LoopStartFailed, LoopEndFails
  <2>3. CASE LoopIdle(p)
    BY <1>2, <2>3 DEF LoopIdle
  <2>4. CASE LoopWake(p)
    BY <1>2, <1>3, <2>4 DEF LoopWake, GiveUp, ReportError, ReturnResult, SelectAgain
  <2>5. QED
    BY <1>5, <2>1, <2>2, <2>3, <2>4 DEF Loop
<1>6. ASSUME NEW p \in Party, Expire(p) \/ TimeOut(p) \/ Tss(p) \/ PumpHands(p) \/ PumpStops(p)
      PROVE  LeftInv'
  BY <1>1, <1>6 DEF Expire, TimeOut, Tss, TssStart, TssAdvance, Apply, PumpHands, PumpStops, loopVars
<1>7. ASSUME NEW p \in Party, \/ \E m \in sending[p] : Send(p, m) \/ SendFails(p, m)
                              \/ \E m \in applying[p] : ApplyFails(p, m)
      PROVE  LeftInv'
  BY <1>1, <1>7 DEF Send, SendFails, ApplyFails, loopVars
<1>8. CASE UNCHANGED vars
  BY <1>1, <1>8 DEF vars, loopVars
<1>9. QED
  BY <1>4, <1>5, <1>6, <1>7, <1>8 DEF Next, Teardown

\* A call that succeeded is never stuck in its teardown: its pump is blocked with no
\* message and will be given none, so that it can stop, and the call return.  Only a
\* call that failed can wait for a pump for ever.
TeardownIsFree(p) ==
  /\ runPc[p] \in {"teardown", "wait", "returned"}
  /\ held[p] = {} /\ Fresh(p) = {}
  /\ runPc[p] = "wait" => pumpCancelled[p]
THEOREM SuccessIsNeverStuck == Spec => [](\A p \in Party : outcome[p] = "ok" => TeardownIsFree(p))
<1>1. ASSUME IInv, LeftInv, ResultMeansDrained, NEW p \in Party, outcome[p] = "ok"
      PROVE  TeardownIsFree(p)
  <2>1. result[p]
    BY <1>1 DEF IInv, RoundInv
  <2>2. held[p] = {} /\ got[p] = {m \in Message : m.to = p /\ m.from # p}
    BY <1>1, <2>1 DEF ResultMeansDrained
  <2>3. Fresh(p) = {}
    <3>1. ASSUME NEW m \in net, m.to = p  PROVE m \in handed[p]
      BY <1>1, <2>2, <3>1 DEF IInv, Types, MessageTypes, SentInv, FlowInv
    <3>2. QED
      BY <3>1 DEF Fresh
  <2>4. QED
    BY <1>1, <2>2, <2>3 DEF LeftInv, TeardownIsFree
<1>2. Init => LeftInv
  BY DEF Init, LeftInv
<1>3. Spec => []LeftInv
  BY <1>2, LeftStep, Invariance, PTL DEF Spec
<1>4. IInv /\ LeftInv /\ ResultMeansDrained => \A p \in Party : outcome[p] = "ok" => TeardownIsFree(p)
  BY <1>1
<1>5. QED
  BY <1>3, <1>4, Invariance, ResultIsDrained, PTL
================================================================================
