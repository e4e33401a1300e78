--------------------------- MODULE HttpParty_proofs ---------------------------
(***************************************************************************)
(* The HTTP party for any committee, any number of rounds and of faults.   *)
(*                                                                         *)
(* CallInv says who has passed the barrier and what that tells of the      *)
(* others, SendInv that the relay's list holds each message once and those *)
(* of one sender in the order of their numbers, DeliverInv that the        *)
(* downloader applies the list in its order and remembers exactly what it  *)
(* applied, ResultInv that a finished loop has heard from all, DrainInv    *)
(* what the downloader still has to do when the loop is gone.              *)
(***************************************************************************)
EXTENDS HttpParty, WellFoundedInduction, TLAPS

CallTypes ==
  /\ participants \in [Party -> Nat] /\ faults \in 0 .. MaxFaults
  /\ completed \in SUBSET Party /\ kind \in {"keygen", "keysign"}
  /\ pc \in [Party -> {"idle", "join", "await", "loop", "end", "flag", "close", "wait",
                       "returned", "crashed"}]
  /\ outcome \in [Party -> {"none", "ok", "error"}]
  /\ verdict \in [Party -> {"none", "ok", "error", "panic"}]
  /\ endCh \in [Party -> BOOLEAN] /\ errChan \in [Party -> BOOLEAN]

SendTypes ==
  /\ messages \subseteq Posted /\ arrivals \in Nat
  /\ round \in [Party -> 0 .. (Rounds + 1)]
  /\ sending \in [Party -> SUBSET Message] /\ seqNo \in [Party -> Nat]

DownloadTypes ==
  /\ dl \in [Party -> {"off", "select", "fetch", "batch", "apply", "delete", "stopped", "dead"}]
  /\ batch \in [Party -> SUBSET Posted] /\ got \in [Party -> SUBSET Posted]
  /\ \A p \in Party : \A m \in batch[p] \cup got[p] : m.to = p
  /\ seen \in [Party -> SUBSET (Party \X (1 .. Rounds))]

Types == CallTypes /\ SendTypes /\ DownloadTypes

LEMMA TypesMeanTypeOK == Types <=> TypeOK
BY DEF Types, CallTypes, SendTypes, DownloadTypes, TypeOK

LEMMA InitTypes == Init => Types
<1> SUFFICES ASSUME Init PROVE Types
  OBVIOUS
<1>1. CallTypes
  BY HttpAssumption DEF Init, RelayInit, CallTypes
<1>2. SendTypes
  BY HttpAssumption DEF Init, RelayInit, SendTypes
<1>3. DownloadTypes
  BY DEF Init, DownloadTypes
<1>4. QED
  BY <1>1, <1>2, <1>3 DEF Types

-----------------------------------------------------------------------------
LEMMA CallTypesStep == CallTypes /\ [Next]_vars => CallTypes'
<1> SUFFICES ASSUME CallTypes, [Next]_vars PROVE CallTypes'
  OBVIOUS
<1> USE HttpAssumption
<1>1. ASSUME NEW p \in Party, Call(p) \/ JoinSession(p) PROVE CallTypes'
  BY <1>1 DEF CallTypes, Call, JoinSession, PostSession, Goto, loopVars, relayVars
<1>2. ASSUME NEW p \in Party, JoinAnswerLost(p) PROVE CallTypes'
  BY <1>2 DEF CallTypes, JoinAnswerLost, PostSession, Fault, callVars, loopVars
<1>3. ASSUME NEW p \in Party, GiveUpJoining(p) \/ ServiceFails(p) PROVE CallTypes'
  BY <1>3 DEF CallTypes, GiveUpJoining, ServiceFails, Return, Goto, relayVars, loopVars
<1>4. ASSUME NEW p \in Party, PassBarrier(p) PROVE CallTypes'
  BY <1>4 DEF CallTypes, PassBarrier, Goto, relayVars
<1>5. ASSUME NEW p \in Party, NEW m \in sending[p], Send(p, m) PROVE CallTypes'
  BY <1>5 DEF CallTypes, Send, LoseSeqNo, Fault, callVars, loopVars
<1>6. ASSUME NEW p \in Party, NEW m \in sending[p], SendFails(p, m) PROVE CallTypes'
  BY <1>6 DEF CallTypes, SendFails, Fault, callVars
<1>7. ASSUME NEW p \in Party, TssAdvance(p) \/ LoopReturns(p) PROVE CallTypes'
  BY <1>7 DEF CallTypes, TssAdvance, LoopReturns, Goto, relayVars, callVars, loopVars
<1>8. ASSUME NEW p \in Party, LoopFails(p) PROVE CallTypes'
  BY <1>8 DEF CallTypes, LoopFails, Return, Goto, DropLoop, relayVars
<1>9. ASSUME NEW p \in Party, CloseEndCh(p) \/ Finish(p) \/ ClosePanics(p)
      PROVE  CallTypes'
  BY <1>9 DEF CallTypes, CloseEndCh, Finish, ClosePanics, Return, Goto, relayVars, loopVars
<1>10. ASSUME NEW p \in Party, EndSessionFails(p) PROVE CallTypes'
  <2>1. /\ UNCHANGED <<completed, kind, outcome, errChan>> /\ faults < MaxFaults
        /\ faults' = faults + 1
        /\ participants' = [q \in Party |-> 0] \/ participants' = participants
        /\ endCh' = [endCh EXCEPT ![p] = TRUE]
    BY <1>10 DEF EndSessionFails, Fault, DeleteSession, loopVars
  <2>2. \/ pc' = [pc EXCEPT ![p] = "flag"] /\ verdict' = verdict
        \/ pc' = [pc EXCEPT ![p] = "returned"] /\ verdict' = [verdict EXCEPT ![p] = "error"]
    BY <1>10 DEF EndSessionFails, Return, Goto
  <2>3. QED
    BY <2>1, <2>2 DEF CallTypes
<1>11. ASSUME NEW p \in Party, FlagComplete(p) PROVE CallTypes'
  BY <1>11 DEF CallTypes, FlagComplete, Complete, Fault, Goto, loopVars
<1>12. ASSUME NEW p \in Party, Downloader(p) PROVE CallTypes'
  BY <1>12 DEF CallTypes, Downloader, Select, Fetch, Take, EndOfBatch, Apply, Delete,
               relayVars, callVars, loopVars
<1>13. ASSUME NEW p \in Party, DeleteCrashes(p) PROVE CallTypes'
  BY <1>13 DEF CallTypes, DeleteCrashes, ProcessEnds, Fault, Goto
<1>14. ASSUME NEW p \in Party, EndSession(p) PROVE CallTypes'
  BY <1>14 DEF CallTypes, EndSession, DeleteSession, Goto, loopVars
<1>15. CASE UNCHANGED vars
  BY <1>15 DEF CallTypes, vars, relayVars
<1>16. QED
  BY <1>1, <1>2, <1>3, <1>4, <1>5, <1>6, <1>7, <1>8, <1>9, <1>10, <1>11, <1>12, <1>13, <1>14, <1>15
     DEF Next, Joining, Sending, Protocol, Ending

\* The steps that only move a call along.
Moves(p) == \/ Call(p) \/ JoinSession(p) \/ JoinAnswerLost(p) \/ GiveUpJoining(p)
            \/ ServiceFails(p) \/ LoopReturns(p) \/ Ending(p)

LEMMA MovesFrame ==
  ASSUME NEW p \in Party, Moves(p)
  PROVE  UNCHANGED <<messages, arrivals, round, sending, seqNo, dl, batch, got, seen>>
BY DEF Moves, Call, JoinSession, JoinAnswerLost, GiveUpJoining, ServiceFails, LoopReturns,
       Ending, EndSession, EndSessionFails, FlagComplete, CloseEndCh, ClosePanics, Finish,
       loopVars, sendVars, dlVars, relayVars

LEMMA SendTypesStep == SendTypes /\ [Next]_vars => SendTypes'
<1> SUFFICES ASSUME SendTypes, [Next]_vars PROVE SendTypes'
  OBVIOUS
<1> USE HttpAssumption
<1>1. ASSUME NEW p \in Party, NEW m \in sending[p], Send(p, m) \/ SendFails(p, m)
      PROVE  SendTypes'
  <2>1. \/ UNCHANGED <<messages, arrivals>>
        \/ /\ messages' = messages \cup {[from |-> m.from, to |-> m.to, round |-> m.round,
                                         seqNo |-> seqNo[p], at |-> arrivals]}
           /\ arrivals' = arrivals + 1
    BY <1>1 DEF Send, SendFails, PostMessage
  <2>2. m \in Message /\ seqNo[p] \in Nat /\ arrivals \in Nat
    BY DEF SendTypes
  <2>3. messages' \subseteq Posted /\ arrivals' \in Nat
    BY <2>1, <2>2 DEF SendTypes, Posted, Message
  <2>4. PICK S \in SUBSET sending[p] : sending' = [sending EXCEPT ![p] = S]
    BY <1>1 DEF Send, SendFails
  <2>5. seqNo' = [seqNo EXCEPT ![p] = @ + 1] \/ seqNo' = seqNo
    BY <1>1 DEF Send, SendFails, LoseSeqNo
  <2>6. round' = round
    BY <1>1 DEF Send, SendFails, loopVars
  <2>7. sending' \in [Party -> SUBSET Message]
    BY <2>4 DEF SendTypes
  <2>8. seqNo' \in [Party -> Nat]
    BY <2>5 DEF SendTypes
  <2>9. QED
    BY <2>3, <2>6, <2>7, <2>8 DEF SendTypes
<1>2. \A p \in Party, r \in 1 .. Rounds : MessagesOf(p, r) \subseteq Message
  BY DEF MessagesOf, Message, Others
<1>3. ASSUME NEW p \in Party, PassBarrier(p) PROVE SendTypes'
  <2>1. 1 \in 1 .. Rounds /\ 1 \in 0 .. Rounds + 1
    OBVIOUS
  <2>2. round' \in [Party -> 0 .. (Rounds + 1)]
    BY <1>3, <2>1 DEF SendTypes, PassBarrier
  <2>3. sending' \in [Party -> SUBSET Message]
    BY <1>2, <1>3, <2>1 DEF SendTypes, PassBarrier
  <2>4. QED
    BY <1>3, <2>2, <2>3 DEF SendTypes, PassBarrier, relayVars
<1>4. ASSUME NEW p \in Party, TssAdvance(p) PROVE SendTypes'
  <2>1. /\ round[p] + 1 \in 0 .. Rounds + 1
        /\ round[p] < Rounds => round[p] + 1 \in 1 .. Rounds
    BY <1>4 DEF TssAdvance
  <2>2. round' \in [Party -> 0 .. (Rounds + 1)]
    BY <1>4, <2>1 DEF SendTypes, TssAdvance
  <2>3. sending' \in [Party -> SUBSET Message]
    BY <1>2, <1>4, <2>1 DEF SendTypes, TssAdvance
  <2>4. QED
    BY <1>4, <2>2, <2>3 DEF SendTypes, TssAdvance, relayVars
<1>5. ASSUME NEW p \in Party, LoopFails(p) PROVE SendTypes'
  BY <1>5 DEF SendTypes, LoopFails, DropLoop, relayVars, sendVars
<1>6. ASSUME NEW p \in Party, DeleteCrashes(p) PROVE SendTypes'
  <2>1. messages' \subseteq messages
    BY <1>6 DEF DeleteCrashes, DeleteTssMessage
  <2>2. QED
    BY <1>6, <2>1 DEF SendTypes, DeleteCrashes, ProcessEnds
<1>7. ASSUME NEW p \in Party, Downloader(p) PROVE SendTypes'
  <2>1. messages' \subseteq messages
    BY <1>7 DEF Downloader, Select, Fetch, Take, EndOfBatch, Apply, Delete, DeleteTssMessage,
                relayVars
  <2>2. UNCHANGED <<arrivals, round, sending, seqNo>>
    BY <1>7 DEF Downloader, Select, Fetch, Take, EndOfBatch, Apply, Delete,
                relayVars, loopVars, sendVars
  <2>3. QED
    BY <2>1, <2>2 DEF SendTypes
<1>8. ASSUME NEW p \in Party, Moves(p) PROVE SendTypes'
  BY <1>8, MovesFrame DEF SendTypes
<1>9. CASE UNCHANGED vars
  BY <1>9 DEF SendTypes, vars, relayVars
<1>10. QED
  BY <1>1, <1>3, <1>4, <1>5, <1>6, <1>7, <1>8, <1>9
     DEF Next, Moves, Joining, Sending, Protocol

LEMMA DownloadTypesStep == Types /\ [Next]_vars => DownloadTypes'
<1> SUFFICES ASSUME Types, [Next]_vars PROVE DownloadTypes'
  OBVIOUS
<1>1. ASSUME NEW p \in Party, Select(p) \/ EndOfBatch(p) \/ PassBarrier(p) PROVE DownloadTypes'
  BY <1>1 DEF Types, DownloadTypes, Select, EndOfBatch, PassBarrier, loopVars
<1>2. ASSUME NEW p \in Party, Fetch(p) PROVE DownloadTypes'
  <2>1. GetMessage(p) \subseteq Posted /\ \A m \in GetMessage(p) : m.to = p
    BY DEF GetMessage, Types, SendTypes
  <2>2. QED
    BY <1>2, <2>1 DEF Types, DownloadTypes, Fetch, loopVars
<1>3. ASSUME NEW p \in Party, Take(p) PROVE DownloadTypes'
  <2>1. PICK m \in batch[p] : seen' = [seen EXCEPT ![p] = @ \cup {Hash(m)}]
    BY <1>3 DEF Take, Current
  <2>2. Hash(m) \in Party \X (1 .. Rounds)
    BY DEF Types, DownloadTypes, Posted, Hash
  <2>3. QED
    BY <1>3, <2>1, <2>2 DEF Types, DownloadTypes, Take, loopVars
<1>4. ASSUME NEW p \in Party, Apply(p) PROVE DownloadTypes'
  <2>1. Current(p) \subseteq batch[p]
    BY DEF Current
  <2>2. QED
    BY <1>4, <2>1 DEF Types, DownloadTypes, Apply
<1>5. ASSUME NEW p \in Party, Delete(p) PROVE DownloadTypes'
  BY <1>5 DEF Types, DownloadTypes, Delete, loopVars
<1>6. ASSUME NEW p \in Party, LoopFails(p) PROVE DownloadTypes'
  BY <1>6 DEF Types, DownloadTypes, LoopFails, DropLoop, dlVars
<1>7. ASSUME NEW p \in Party, DeleteCrashes(p) PROVE DownloadTypes'
  BY <1>7 DEF Types, DownloadTypes, DeleteCrashes, ProcessEnds
<1>8. CASE UNCHANGED <<dl, batch, got, seen>>
  BY <1>8 DEF Types, DownloadTypes
<1>9. ASSUME NEW p \in Party, Moves(p) \/ Sending(p) \/ TssAdvance(p)
      PROVE  UNCHANGED <<dl, batch, got, seen>>
  BY <1>9, MovesFrame DEF Sending, Send, SendFails, TssAdvance, loopVars, dlVars
<1>10. QED
  BY <1>1, <1>2, <1>3, <1>4, <1>5, <1>6, <1>7, <1>8, <1>9
     DEF Next, Moves, Joining, Protocol, Downloader, vars

LEMMA TypesStep == Types /\ [Next]_vars => Types'
BY CallTypesStep, SendTypesStep, DownloadTypesStep DEF Types

-----------------------------------------------------------------------------
\* The barrier lies behind these.
Past == {"loop", "end", "flag", "close", "wait", "returned", "crashed"}

\* Who is registered has called; who awaits the others is registered; who is past
\* the barrier was joined by all, and who has a second round has heard from all.
CallInv == \A p \in Party :
  /\ participants[p] > 0 => pc[p] # "idle"
  /\ pc[p] = "await" => participants[p] > 0
  /\ pc[p] \in {"loop", "end", "flag", "close", "wait"} => \A q \in Party : pc[q] # "idle"
  /\ round[p] > 1 \/ pc[p] \in {"end", "flag", "close", "wait"} => \A q \in Party : pc[q] \in Past

\* The relay's list: no message twice, and those of one sender in the order of
\* their numbers; what is still to be sent is not in it.
SendInv ==
  /\ \A m \in messages :
       /\ m.from # m.to /\ m.at < arrivals /\ pc[m.from] \in Past
       /\ pc[m.from] = "crashed" \/ m.seqNo <= seqNo[m.from]
       /\ pc[m.from] = "loop" => m.round <= round[m.from]
  /\ \A m, n \in messages :
       /\ m.at = n.at => m = n
       /\ m.from = n.from /\ m.to = n.to /\ m.round = n.round => m = n
       /\ m.from = n.from /\ m.at < n.at => m.seqNo <= n.seqNo
  /\ \A p \in Party : \A m \in sending[p] :
       /\ m.from = p /\ m.to # p /\ pc[p] \in Past \ {"crashed"}
       /\ pc[p] = "loop" => m.round <= round[p]
       /\ \A n \in messages : ~ (n.from = p /\ n.to = m.to /\ n.round = m.round)

\* What the downloader has comes from the list and is applied in its order; it
\* remembers what it applied and what it is about to apply, and nothing else.
Delivers(p) ==
  /\ batch[p] \cup got[p] \subseteq messages
  /\ \A m \in got[p] : Hash(m) \in seen[p]
  /\ \A m \in got[p], n \in messages : n.from = m.from /\ n.to = p /\ n.at < m.at => n \in got[p]
  /\ dl[p] = "apply" => /\ Current(p) # {} /\ Current(p) \cap got[p] = {}
                        /\ \A m \in Current(p) : Hash(m) \in seen[p]
  /\ pc[p] \notin Past => dl[p] = "off" /\ batch[p] = {} /\ got[p] = {} /\ seen[p] = {}
  /\ pc[p] = "loop" =>
       /\ dl[p] \in {"batch", "apply", "delete"} => \A m \in batch[p], n \in messages :
            n.from = m.from /\ n.to = p /\ n.at < m.at => n \in batch[p] \cup got[p]
       /\ dl[p] = "delete" => Current(p) \subseteq got[p]
       /\ \A h \in seen[p] : \/ \E m \in got[p] : Hash(m) = h
                             \/ dl[p] = "apply" /\ \E m \in Current(p) : Hash(m) = h

DeliverInv == \A p \in Party : Delivers(p)

\* Calls only move on, and rounds of a running loop too.
LEMMA Onwards ==
  ASSUME Types, [Next]_vars, NEW q \in Party
  PROVE  /\ pc[q] # "idle" => pc'[q] # "idle"
         /\ pc[q] \in Past => pc'[q] \in Past
         /\ pc[q] = "crashed" => pc'[q] = "crashed"
<1>1. ASSUME NEW p \in Party, Call(p) \/ Joining(p)
      PROVE  \/ \E l : pc' = [pc EXCEPT ![p] = l] /\ pc[p] \notin Past /\ l # "idle"
             \/ pc' = pc
  BY <1>1 DEF Call, Joining, JoinSession, JoinAnswerLost, GiveUpJoining, PassBarrier, ServiceFails,
              Return, Goto, callVars, Past
<1>2. ASSUME NEW p \in Party, Protocol(p) \/ Ending(p)
      PROVE  \/ \E l \in Past : pc' = [pc EXCEPT ![p] = l] /\ pc[p] # "crashed"
             \/ pc' = pc
  BY <1>2 DEF Protocol, TssAdvance, LoopReturns, LoopFails, Ending, EndSession, EndSessionFails,
              FlagComplete, CloseEndCh, ClosePanics, Finish, Return, Goto, callVars, Past
<1>3. ASSUME NEW p \in Party, Sending(p) \/ Downloader(p)
      PROVE  pc' = pc
  BY <1>3 DEF Sending, Send, SendFails, Downloader, Select, Fetch, Take, EndOfBatch, Apply,
              Delete, callVars
<1>4. ASSUME NEW p \in Party, DeleteCrashes(p)
      PROVE  pc' = [pc EXCEPT ![p] = "crashed"]
  BY <1>4 DEF DeleteCrashes, ProcessEnds, Goto
<1>5. CASE pc' = pc
  BY <1>5
<1>6. ASSUME NEW p \in Party, NEW l, pc' = [pc EXCEPT ![p] = l], l # "idle",
             pc[p] \in Past => l \in Past, pc[p] = "crashed" => l = "crashed"
      PROVE  /\ pc[q] # "idle" => pc'[q] # "idle"
             /\ pc[q] \in Past => pc'[q] \in Past
             /\ pc[q] = "crashed" => pc'[q] = "crashed"
  BY <1>6 DEF Types, CallTypes
<1>7. "idle" \notin Past /\ "crashed" \in Past
  BY DEF Past
<1>8. CASE UNCHANGED vars
  BY <1>5, <1>8 DEF vars
<1>9. QED
  BY <1>1, <1>2, <1>3, <1>4, <1>5, <1>6, <1>7, <1>8 DEF Next

\* Whatever a step does to the calls, the relay's list stays good, unless a loop
\* starts or a process ends.
LEMMA SendKept ==
  ASSUME Types, SendInv, [Next]_vars,
         UNCHANGED <<messages, arrivals, sending, seqNo, round>>,
         \A q \in Party : pc'[q] \in {"loop", "crashed"} => pc'[q] = pc[q]
  PROVE  SendInv'
<1>1. \A q \in Party : pc[q] \in Past => pc'[q] \in Past
  BY Onwards
<1>2. ASSUME NEW m \in messages
      PROVE  /\ m.from \in Party /\ m.from # m.to /\ m.at < arrivals /\ pc'[m.from] \in Past
             /\ pc'[m.from] = "crashed" \/ m.seqNo <= seqNo[m.from]
             /\ pc'[m.from] = "loop" => m.round <= round[m.from]
  <2>1. m.from \in Party
    BY DEF Types, SendTypes, Posted
  <2>2. pc[m.from] = "crashed" => pc'[m.from] = "crashed"
    BY <2>1, Onwards
  <2>3. QED
    BY <1>1, <2>1, <2>2 DEF SendInv
<1>3. ASSUME NEW p \in Party, NEW m \in sending[p]
      PROVE  /\ pc'[p] \in Past \ {"crashed"}
             /\ pc'[p] = "loop" => m.round <= round[p]
  BY <1>1 DEF SendInv
<1>4. QED
  BY <1>2, <1>3 DEF SendInv

\* A new message comes last in the list.
LEMMA SendPosts ==
  ASSUME Types, SendInv, NEW p \in Party, NEW m \in sending[p], Send(p, m) \/ SendFails(p, m)
  PROVE  SendInv'
<1>1. UNCHANGED <<pc, round>>
  BY DEF Send, SendFails, callVars, loopVars
<1>2. /\ m \in Message /\ m.from = p /\ m.to # p /\ pc[p] \in Past \ {"crashed"}
      /\ pc[p] = "loop" => m.round <= round[p]
      /\ \A n \in messages : ~ (n.from = p /\ n.to = m.to /\ n.round = m.round)
  BY DEF SendInv, Types, SendTypes
<1>3. PICK S \in SUBSET (sending[p] \ {m}) : sending' = [sending EXCEPT ![p] = S]
  BY DEF Send, SendFails
<1>4. \A q \in Party : seqNo[q] \in Nat /\ seqNo'[q] \in Nat /\ seqNo[q] <= seqNo'[q]
  BY DEF Send, SendFails, LoseSeqNo, Types, SendTypes
<1>5. \A q \in Party : \A n \in sending'[q] : n \in sending[q] /\ (q = p => n # m)
  BY <1>3 DEF Types, SendTypes
<1>6. CASE UNCHANGED <<messages, arrivals>>
  <2>1. ASSUME NEW n \in messages
        PROVE  pc[n.from] = "crashed" \/ n.seqNo <= seqNo'[n.from]
    <3>1. n.from \in Party /\ n.seqNo \in Nat
      BY DEF Types, SendTypes, Posted
    <3>2. QED
      BY <1>4, <3>1 DEF SendInv
  <2>2. QED
    BY <1>1, <1>5, <1>6, <2>1 DEF SendInv
<1>7. CASE PostMessage(m, seqNo[p])
  <2> DEFINE new == [from |-> m.from, to |-> m.to, round |-> m.round,
                     seqNo |-> seqNo[p], at |-> arrivals]
  <2>1. /\ messages' = messages \cup {new} /\ arrivals' = arrivals + 1 /\ arrivals \in Nat
        /\ new.from = p /\ new.to = m.to /\ new.round = m.round
        /\ new.seqNo = seqNo[p] /\ new.at = arrivals
    BY <1>2, <1>7 DEF PostMessage, Types, SendTypes
  <2> HIDE DEF new
  <2>2. ASSUME NEW n \in messages
        PROVE  /\ n.from \in Party /\ n.seqNo \in Nat /\ n.at \in Nat
               /\ n.from # n.to /\ n.at < arrivals /\ pc[n.from] \in Past
               /\ pc[n.from] = "crashed" \/ n.seqNo <= seqNo[n.from]
               /\ pc[n.from] = "loop" => n.round <= round[n.from]
    BY DEF SendInv, Types, SendTypes, Posted
  <2>3. ASSUME NEW n \in messages'
        PROVE  /\ n.from # n.to /\ n.at < arrivals' /\ pc[n.from] \in Past
               /\ pc[n.from] = "crashed" \/ n.seqNo <= seqNo'[n.from]
               /\ pc[n.from] = "loop" => n.round <= round[n.from]
    <3>1. CASE n = new
      BY <1>2, <1>4, <2>1, <3>1
    <3>2. CASE n \in messages
      BY <1>4, <2>1, <2>2, <3>2
    <3>3. QED
      BY <2>1, <3>1, <3>2
  <2>4. ASSUME NEW x \in messages', NEW n \in messages'
        PROVE  /\ x.at = n.at => x = n
               /\ x.from = n.from /\ x.to = n.to /\ x.round = n.round => x = n
               /\ x.from = n.from /\ x.at < n.at => x.seqNo <= n.seqNo
    <3>1. CASE x \in messages /\ n \in messages
      BY <3>1 DEF SendInv
    <3>2. CASE x = new /\ n = new
      BY <2>1, <3>2
    <3>3. CASE x = new /\ n \in messages
      BY <1>2, <2>1, <2>2, <3>3
    <3>4. CASE x \in messages /\ n = new
      BY <1>2, <2>1, <2>2, <3>4
    <3>5. QED
      BY <2>1, <3>1, <3>2, <3>3, <3>4
  <2>5. ASSUME NEW q \in Party, NEW x \in sending'[q]
        PROVE  /\ x.from = q /\ x.to # q /\ pc[q] \in Past \ {"crashed"}
               /\ pc[q] = "loop" => x.round <= round[q]
               /\ \A n \in messages' : ~ (n.from = q /\ n.to = x.to /\ n.round = x.round)
    <3>1. x \in sending[q] /\ (q = p => x # m) /\ x \in Message
      BY <1>5 DEF Types, SendTypes
    <3>2. ~ (new.from = q /\ new.to = x.to /\ new.round = x.round)
      <4>1. SUFFICES ASSUME q = p, m.to = x.to, m.round = x.round
                     PROVE  FALSE
        BY <2>1
      <4>2. x.from = m.from
        BY <1>2, <3>1, <4>1 DEF SendInv
      <4>3. x = m
        BY <1>2, <3>1, <4>1, <4>2 DEF Message
      <4>4. QED
        BY <3>1, <4>1, <4>3
    <3>3. QED
      BY <2>1, <3>1, <3>2 DEF SendInv
  <2>6. QED
    BY <1>1, <2>3, <2>4, <2>5 DEF SendInv
<1>8. QED
  BY <1>6, <1>7 DEF Send, SendFails

\* The relay compares the receiver of the path with the sender: it deletes nothing.
LEMMA NothingDeleted ==
  ASSUME Types, SendInv, DeliverInv, NEW p \in Party, NEW m \in batch[p],
         DeleteTssMessage(p, Hash(m))
  PROVE  messages' = messages
<1>1. m.from # p
  BY DEF Types, DownloadTypes, SendInv, DeliverInv, Delivers
<1>2. \A n \in messages : Hash(n) = Hash(m) => n.from = m.from
  BY DEF Hash
<1>3. QED
  BY <1>1, <1>2 DEF DeleteTssMessage

LEMMA SendStep ==
  ASSUME Types, SendInv, DeliverInv, [Next]_vars
  PROVE  SendInv'
<1>1. ASSUME NEW p \in Party, NEW m \in sending[p], Send(p, m) \/ SendFails(p, m)
      PROVE  SendInv'
  BY <1>1, SendPosts
<1>2. ASSUME NEW p \in Party, PassBarrier(p)
      PROVE  SendInv'
  <2>1. /\ UNCHANGED <<messages, arrivals, seqNo>> /\ pc[p] = "await"
        /\ pc' = [pc EXCEPT ![p] = "loop"] /\ round' = [round EXCEPT ![p] = 1]
        /\ sending' = [sending EXCEPT ![p] = MessagesOf(p, 1)]
    BY <1>2 DEF PassBarrier, Goto, relayVars
  <2>2. \A n \in messages : n.from # p
    BY <2>1 DEF SendInv, Past
  <2>3. \A m \in MessagesOf(p, 1) : m.from = p /\ m.to # p /\ m.round = 1
    BY DEF MessagesOf, Others
  <2>4. /\ pc'[p] = "loop" /\ round'[p] = 1 /\ sending'[p] = MessagesOf(p, 1)
        /\ \A q \in Party : q # p => /\ pc'[q] = pc[q] /\ round'[q] = round[q]
                                    /\ sending'[q] = sending[q]
    BY <2>1 DEF Types, CallTypes, SendTypes
  <2>5. \A n \in messages : n.from \in Party
    BY DEF Types, SendTypes, Posted
  <2>6. QED
    BY <2>1, <2>2, <2>3, <2>4, <2>5 DEF SendInv, Past
<1>3. ASSUME NEW p \in Party, TssAdvance(p)
      PROVE  SendInv'
  <2>1. /\ UNCHANGED <<messages, arrivals, seqNo, pc>> /\ pc[p] = "loop"
        /\ round' = [round EXCEPT ![p] = @ + 1]
        /\ sending' = [sending EXCEPT ![p] =
             IF round[p] < Rounds THEN @ \cup MessagesOf(p, round[p] + 1) ELSE @]
    BY <1>3 DEF TssAdvance, relayVars, callVars
  <2>2. \A m \in MessagesOf(p, round[p] + 1) : m.from = p /\ m.to # p /\ m.round = round[p] + 1
    BY DEF MessagesOf, Others
  <2>3. /\ round[p] \in Nat /\ round'[p] = round[p] + 1
        /\ \A q \in Party : q # p => round'[q] = round[q] /\ sending'[q] = sending[q]
        /\ sending'[p] \subseteq sending[p] \cup MessagesOf(p, round[p] + 1)
    BY <2>1, HttpAssumption DEF Types, SendTypes
  <2>4. ASSUME NEW m \in messages
        PROVE  m.from \in Party /\ m.round \in Nat
    BY HttpAssumption DEF Types, SendTypes, Posted
  <2>5. ASSUME NEW m \in messages, pc[m.from] = "loop"
        PROVE  m.round <= round'[m.from]
    <3>1. CASE m.from = p
      <4>1. m.round <= round[p]
        BY <2>5, <3>1 DEF SendInv
      <4>2. QED
        BY <2>3, <2>4, <3>1, <4>1
    <3>2. CASE m.from # p
      BY <2>3, <2>4, <2>5, <3>2 DEF SendInv
    <3>3. QED
      BY <3>1, <3>2
  <2>6. ASSUME NEW q \in Party, NEW m \in sending'[q]
        PROVE  /\ m.from = q /\ m.to # q /\ pc[q] \in Past \ {"crashed"}
               /\ pc[q] = "loop" => m.round <= round'[q]
               /\ \A n \in messages : ~ (n.from = q /\ n.to = m.to /\ n.round = m.round)
    <3>1. CASE m \in sending[q]
      <4>1. /\ m.from = q /\ m.to # q /\ pc[q] \in Past \ {"crashed"}
            /\ pc[q] = "loop" => m.round <= round[q]
            /\ \A n \in messages : ~ (n.from = q /\ n.to = m.to /\ n.round = m.round)
        BY <3>1 DEF SendInv
      <4>2. m.round \in Nat /\ round[q] \in Nat
        BY <3>1, HttpAssumption DEF Types, SendTypes, Message
      <4>3. QED
        BY <2>3, <4>1, <4>2
    <3>2. CASE q = p /\ m \in MessagesOf(p, round[p] + 1)
      <4>1. m.from = p /\ m.to # p /\ m.round = round'[p]
        BY <2>2, <2>3, <3>2
      <4>2. \A n \in messages : n.from = p => n.round < m.round
        BY <2>1, <2>3, <2>4, <4>1 DEF SendInv
      <4>3. QED
        BY <2>1, <2>3, <2>4, <3>2, <4>1, <4>2 DEF Past
    <3>3. QED
      BY <2>3, <3>1, <3>2
  <2>7. QED
    BY <2>1, <2>5, <2>6 DEF SendInv
<1>4. ASSUME NEW p \in Party, LoopFails(p)
      PROVE  SendInv'
  <2>1. /\ UNCHANGED <<messages, arrivals, seqNo, sending>>
        /\ pc' = [pc EXCEPT ![p] = "returned"] /\ round' = [round EXCEPT ![p] = 0]
    BY <1>4 DEF LoopFails, Return, Goto, DropLoop, relayVars, sendVars
  <2>2. /\ pc'[p] = "returned"
        /\ \A q \in Party : q # p => pc'[q] = pc[q] /\ round'[q] = round[q]
    BY <2>1 DEF Types, CallTypes, SendTypes
  <2>3. \A n \in messages : n.from \in Party
    BY DEF Types, SendTypes, Posted
  <2>4. pc[p] = "loop"
    BY <1>4 DEF LoopFails
  <2>5. QED
    BY <2>1, <2>2, <2>3, <2>4 DEF SendInv, Past
<1>5. ASSUME NEW p \in Party, DeleteCrashes(p)
      PROVE  SendInv'
  <2>1. /\ UNCHANGED <<arrivals>>
        /\ pc' = [pc EXCEPT ![p] = "crashed"] /\ round' = [round EXCEPT ![p] = 0]
        /\ sending' = [sending EXCEPT ![p] = {}] /\ seqNo' = [seqNo EXCEPT ![p] = 1]
    BY <1>5 DEF DeleteCrashes, ProcessEnds, Goto
  <2>2. messages' = messages
    BY <1>5, NothingDeleted DEF DeleteCrashes
  <2>3. /\ pc'[p] = "crashed" /\ sending'[p] = {}
        /\ \A q \in Party : q # p => /\ pc'[q] = pc[q] /\ round'[q] = round[q]
                                    /\ sending'[q] = sending[q] /\ seqNo'[q] = seqNo[q]
    BY <2>1 DEF Types, CallTypes, SendTypes
  <2>4. \A n \in messages : n.from \in Party
    BY DEF Types, SendTypes, Posted
  <2>5. QED
    BY <2>1, <2>2, <2>3, <2>4 DEF SendInv, Past
<1>6. ASSUME NEW p \in Party, Downloader(p)
      PROVE  SendInv'
  <2>1. messages' = messages
    BY <1>6, NothingDeleted DEF Downloader, Select, Fetch, Take, EndOfBatch, Apply, Delete, relayVars
  <2>2. UNCHANGED <<arrivals, round, sending, seqNo, pc>>
    BY <1>6 DEF Downloader, Select, Fetch, Take, EndOfBatch, Apply, Delete,
                relayVars, callVars, loopVars, sendVars
  <2>3. QED
    BY <2>1, <2>2 DEF SendInv
<1>7. ASSUME NEW p \in Party, Moves(p)
      PROVE  SendInv'
  <2>1. \A q \in Party : pc'[q] \in {"loop", "crashed"} => pc'[q] = pc[q]
    BY <1>7 DEF Moves, Call, JoinSession, JoinAnswerLost, GiveUpJoining, ServiceFails, LoopReturns,
                Ending, EndSession, EndSessionFails, FlagComplete, CloseEndCh, ClosePanics, Finish,
                Return, Goto, callVars, Types, CallTypes
  <2>2. QED
    BY <1>7, <2>1, MovesFrame, SendKept
<1>8. CASE UNCHANGED vars
  BY <1>8, SendKept DEF vars, relayVars
<1>9. QED
  BY <1>1, <1>2, <1>3, <1>4, <1>5, <1>6, <1>7, <1>8 DEF Next, Moves, Joining, Sending, Protocol

\* The relay's list grows, at its end.
LEMMA ListGrows ==
  ASSUME Types, SendInv, DeliverInv, [Next]_vars
  PROVE  /\ messages \subseteq messages'
         /\ \A n \in messages' : n \in messages \/ n.at = arrivals
<1>1. ASSUME NEW p \in Party, NEW m \in sending[p], Send(p, m) \/ SendFails(p, m)
      PROVE  /\ messages \subseteq messages'
             /\ \A n \in messages' : n \in messages \/ n.at = arrivals
  BY <1>1 DEF Send, SendFails, PostMessage
<1>2. ASSUME NEW p \in Party, Downloader(p) \/ DeleteCrashes(p)
      PROVE  messages' = messages
  BY <1>2, NothingDeleted DEF Downloader, Select, Fetch, Take, EndOfBatch, Apply, Delete,
                              DeleteCrashes, relayVars
<1>3. ASSUME NEW p \in Party, Moves(p) \/ PassBarrier(p) \/ TssAdvance(p) \/ LoopFails(p)
      PROVE  messages' = messages
  BY <1>3, MovesFrame DEF PassBarrier, TssAdvance, LoopFails, relayVars
<1>4. QED
  BY <1>1, <1>2, <1>3 DEF Next, Moves, Joining, Sending, Protocol, vars, relayVars

LEMMA DeliverKept ==
  ASSUME Types, SendInv, DeliverInv, [Next]_vars, NEW q \in Party,
         batch'[q] = batch[q], got'[q] = got[q], seen'[q] = seen[q], dl'[q] = dl[q],
         pc'[q] = "loop" => pc[q] = "loop"
  PROVE  Delivers(q)'
<1>1. Delivers(q)
  BY DEF DeliverInv
<1>2. \A m \in messages, n \in messages' : n.at < m.at => n \in messages
  <2>1. \A m \in messages : m.at < arrivals /\ m.at \in Nat /\ arrivals \in Nat
    BY DEF SendInv, Types, SendTypes, Posted
  <2>2. QED
    BY <2>1, ListGrows
<1>3. Current(q)' = Current(q)
  BY DEF Current, Precedes
<1>4. pc[q] \in Past => pc'[q] \in Past
  BY Onwards
<1>5. batch[q] \cup got[q] \subseteq messages /\ messages \subseteq messages'
  BY <1>1, ListGrows DEF Delivers
<1>6. QED
  BY <1>1, <1>2, <1>3, <1>4, <1>5 DEF Delivers

\* At most one message comes next.
LEMMA CurrentIsOne ==
  ASSUME Types, SendInv, DeliverInv, NEW p \in Party, NEW m \in Current(p), NEW n \in Current(p)
  PROVE  m = n
<1>1. m \in batch[p] /\ n \in batch[p] /\ Precedes(m, n) /\ Precedes(n, m)
  BY DEF Current
<1>2. m \in messages /\ n \in messages
  BY <1>1 DEF DeliverInv, Delivers
<1>3. m.seqNo \in Nat /\ n.seqNo \in Nat /\ m.at \in Nat /\ n.at \in Nat
  BY <1>2 DEF Types, SendTypes, Posted
<1>4. m.at = n.at
  BY <1>1, <1>3 DEF Precedes
<1>5. QED
  BY <1>2, <1>4 DEF SendInv

\* Messages of one sender come in the order of the relay's list.
LEMMA EarlierIsNotLeft ==
  ASSUME Types, SendInv, DeliverInv, NEW p \in Party, NEW m \in Current(p), NEW n \in batch[p],
         n.from = m.from, n.at < m.at
  PROVE  FALSE
<1>1. m \in batch[p] /\ Precedes(m, n)
  BY DEF Current
<1>2. m \in messages /\ n \in messages
  BY <1>1 DEF DeliverInv, Delivers
<1>3. m.seqNo \in Nat /\ n.seqNo \in Nat /\ m.at \in Nat /\ n.at \in Nat
  BY <1>2 DEF Types, SendTypes, Posted
<1>4. n.seqNo <= m.seqNo
  BY <1>2 DEF SendInv
<1>5. QED
  BY <1>1, <1>3, <1>4 DEF Precedes

\* A message the downloader remembers is one it has applied.
LEMMA SeenIsGot ==
  ASSUME Types, SendInv, DeliverInv, NEW p \in Party, NEW m \in batch[p], pc[p] = "loop",
         dl[p] # "apply", Hash(m) \in seen[p]
  PROVE  m \in got[p]
<1>1. PICK g \in got[p] : Hash(g) = Hash(m)
  BY DEF DeliverInv, Delivers
<1>2. g \in messages /\ m \in messages /\ g.to = m.to
  BY DEF DeliverInv, Delivers, Types, DownloadTypes
<1>3. g.from = m.from /\ g.round = m.round
  BY <1>1 DEF Hash
<1>4. g = m
  BY <1>2, <1>3 DEF SendInv
<1>5. QED
  BY <1>4

LEMMA DownloaderKeeps ==
  ASSUME Types, SendInv, DeliverInv, [Next]_vars, NEW p \in Party, Downloader(p)
  PROVE  Delivers(p)'
<1>1. Delivers(p) /\ messages' = messages /\ pc' = pc
  BY NothingDeleted DEF DeliverInv, Downloader, Select, Fetch, Take, EndOfBatch, Apply, Delete,
                        relayVars, callVars
<1>2. CASE Select(p) \/ EndOfBatch(p)
  <2>1. /\ UNCHANGED <<batch, got, seen>> /\ dl[p] \in {"select", "batch"}
        /\ dl'[p] \in {"stopped", "fetch", "select"}
    BY <1>2 DEF Select, EndOfBatch, loopVars, Types, DownloadTypes
  <2>2. pc[p] \in Past
    BY <1>1, <2>1 DEF Delivers
  <2>3. QED
    BY <1>1, <2>1, <2>2 DEF Delivers
<1>3. CASE Fetch(p)
  <2>1. /\ UNCHANGED <<got, seen>> /\ dl[p] = "fetch"
        /\ \/ batch'[p] = GetMessage(p) /\ dl'[p] = "batch"
           \/ batch'[p] = batch[p] /\ dl'[p] = "select"
    BY <1>3 DEF Fetch, loopVars, Types, DownloadTypes
  <2>2. pc[p] \in Past
    BY <1>1, <2>1 DEF Delivers
  <2>3. QED
    BY <1>1, <2>1, <2>2 DEF Delivers, GetMessage
<1>4. CASE Take(p)
  <2>1. PICK m \in Current(p) : Hash(m) \notin seen[p] /\ seen'[p] = seen[p] \cup {Hash(m)}
    BY <1>4 DEF Take, Types, DownloadTypes
  <2>2. UNCHANGED <<batch, got>> /\ dl[p] = "batch" /\ dl'[p] = "apply"
    BY <1>4 DEF Take, loopVars, Types, DownloadTypes
  <2>3. Current(p)' = Current(p) /\ Current(p) = {m} /\ m \notin got[p]
    BY <1>1, <2>1, <2>2, CurrentIsOne DEF Current, Precedes, Delivers
  <2>4. pc[p] \in Past
    BY <1>1, <2>2 DEF Delivers
  <2>5. QED
    BY <1>1, <2>1, <2>2, <2>3, <2>4 DEF Delivers
<1>5. CASE Apply(p)
  <2>1. /\ UNCHANGED <<batch, seen>> /\ dl[p] = "apply" /\ dl'[p] = "delete" /\ pc[p] = "loop"
        /\ got'[p] = got[p] \cup Current(p)
    BY <1>5 DEF Apply, Types, DownloadTypes
  <2>2. Current(p)' = Current(p) /\ Current(p) \subseteq batch[p]
    BY <2>1 DEF Current, Precedes
  <2>3. ASSUME NEW m \in got'[p], NEW n \in messages, n.from = m.from, n.to = p, n.at < m.at
        PROVE  n \in got'[p]
    <3>1. CASE m \in got[p]
      BY <1>1, <2>1, <2>3, <3>1 DEF Delivers
    <3>2. CASE m \in Current(p)
      BY <1>1, <2>1, <2>2, <2>3, <3>2, EarlierIsNotLeft DEF Delivers
    <3>3. QED
      BY <2>1, <3>1, <3>2
  <2>4. pc[p] \in Past
    BY <2>1 DEF Past
  <2>5. QED
    BY <1>1, <2>1, <2>2, <2>3, <2>4 DEF Delivers
<1>6. CASE Delete(p)
  <2>1. PICK m \in batch[p] : Deletes(p, m) /\ batch'[p] = batch[p] \ {m}
    BY <1>6 DEF Delete, Types, DownloadTypes
  <2>2. UNCHANGED <<got, seen>> /\ dl'[p] = "batch" /\ dl[p] \in {"batch", "delete"}
    BY <1>6, <2>1 DEF Delete, Deletes, loopVars, Types, DownloadTypes
  <2>3. pc[p] = "loop" => m \in got[p]
    BY <1>1, <2>1, <2>2, SeenIsGot DEF Deletes, Delivers
  <2>4. pc[p] \in Past
    BY <1>1, <2>2 DEF Delivers
  <2>5. QED
    BY <1>1, <2>1, <2>2, <2>3, <2>4 DEF Delivers
<1>7. QED
  BY <1>2, <1>3, <1>4, <1>5, <1>6 DEF Downloader

LEMMA DeliverStep ==
  ASSUME Types, SendInv, DeliverInv, [Next]_vars
  PROVE  DeliverInv'
<1> SUFFICES ASSUME NEW q \in Party PROVE Delivers(q)'
  BY DEF DeliverInv
<1>1. ASSUME NEW p \in Party, Moves(p) \/ Sending(p) \/ TssAdvance(p)
      PROVE  Delivers(q)'
  <2>1. UNCHANGED <<dl, batch, got, seen>>
    BY <1>1, MovesFrame DEF Sending, Send, SendFails, TssAdvance, loopVars, dlVars
  <2>2. pc'[q] = "loop" => pc[q] = "loop"
    BY <1>1 DEF Moves, Call, JoinSession, JoinAnswerLost, GiveUpJoining, ServiceFails, LoopReturns,
                Ending, EndSession, EndSessionFails, FlagComplete, CloseEndCh, ClosePanics, Finish,
                Sending, Send, SendFails, TssAdvance, Return, Goto, callVars, Types, CallTypes
  <2>3. QED
    BY <2>1, <2>2, DeliverKept
<1>2. ASSUME NEW p \in Party, PassBarrier(p) PROVE Delivers(q)'
  <2>1. /\ UNCHANGED <<messages, batch, got, seen>> /\ pc[p] = "await"
        /\ pc' = [pc EXCEPT ![p] = "loop"] /\ dl' = [dl EXCEPT ![p] = "select"]
    BY <1>2 DEF PassBarrier, Goto, relayVars
  <2>2. CASE q = p
    <3>1. batch[p] = {} /\ got[p] = {} /\ seen[p] = {}
      BY <2>1 DEF DeliverInv, Delivers, Past
    <3>2. dl'[p] = "select" /\ pc'[p] = "loop"
      BY <2>1 DEF Types, CallTypes, DownloadTypes
    <3>3. QED
      BY <2>1, <2>2, <3>1, <3>2 DEF Delivers, Past
  <2>3. CASE q # p
    <3>1. dl'[q] = dl[q] /\ pc'[q] = pc[q]
      BY <2>1, <2>3 DEF Types, CallTypes, DownloadTypes
    <3>2. QED
      BY <2>1, <3>1, DeliverKept
  <2>4. QED
    BY <2>2, <2>3
<1>3. ASSUME NEW p \in Party, LoopFails(p) PROVE Delivers(q)'
  <2>1. /\ UNCHANGED <<messages, dl, batch, seen>> /\ pc[p] = "loop"
        /\ pc' = [pc EXCEPT ![p] = "returned"] /\ got' = [got EXCEPT ![p] = {}]
    BY <1>3 DEF LoopFails, Return, Goto, DropLoop, relayVars, dlVars
  <2>2. CASE q = p
    <3>1. got'[p] = {} /\ pc'[p] = "returned" /\ Current(p)' = Current(p)
      BY <2>1 DEF Types, CallTypes, DownloadTypes, Current, Precedes
    <3>2. QED
      BY <2>1, <2>2, <3>1 DEF DeliverInv, Delivers, Past
  <2>3. CASE q # p
    <3>1. got'[q] = got[q] /\ pc'[q] = pc[q]
      BY <2>1, <2>3 DEF Types, CallTypes, DownloadTypes
    <3>2. QED
      BY <2>1, <3>1, DeliverKept
  <2>4. QED
    BY <2>2, <2>3
<1>4. ASSUME NEW p \in Party, DeleteCrashes(p) PROVE Delivers(q)'
  <2>1. /\ pc' = [pc EXCEPT ![p] = "crashed"] /\ dl' = [dl EXCEPT ![p] = "dead"]
        /\ batch' = [batch EXCEPT ![p] = {}] /\ got' = [got EXCEPT ![p] = {}]
        /\ seen' = [seen EXCEPT ![p] = {}]
    BY <1>4 DEF DeleteCrashes, ProcessEnds, Goto
  <2>2. CASE q = p
    <3>1. /\ pc'[p] = "crashed" /\ dl'[p] = "dead" /\ batch'[p] = {} /\ got'[p] = {}
          /\ seen'[p] = {}
      BY <2>1 DEF Types, CallTypes, DownloadTypes
    <3>2. QED
      BY <2>2, <3>1 DEF Delivers, Past
  <2>3. CASE q # p
    <3>1. /\ pc'[q] = pc[q] /\ dl'[q] = dl[q] /\ batch'[q] = batch[q] /\ got'[q] = got[q]
          /\ seen'[q] = seen[q]
      BY <2>1, <2>3 DEF Types, CallTypes, DownloadTypes
    <3>2. QED
      BY <3>1, DeliverKept
  <2>4. QED
    BY <2>2, <2>3
<1>5. ASSUME NEW p \in Party, Downloader(p) PROVE Delivers(q)'
  <2>1. CASE q = p
    BY <1>5, <2>1, DownloaderKeeps
  <2>2. CASE q # p
    <3>1. /\ pc'[q] = pc[q] /\ dl'[q] = dl[q] /\ batch'[q] = batch[q] /\ got'[q] = got[q]
          /\ seen'[q] = seen[q]
      <4>1. CASE Select(p) \/ Fetch(p) \/ EndOfBatch(p)
        BY <2>2, <4>1 DEF Select, Fetch, EndOfBatch, callVars, loopVars, Types, DownloadTypes
      <4>2. CASE Take(p)
        BY <2>2, <4>2 DEF Take, callVars, loopVars, Types, DownloadTypes
      <4>3. CASE Apply(p) \/ Delete(p)
        BY <2>2, <4>3 DEF Apply, Delete, callVars, loopVars, Types, DownloadTypes
      <4>4. QED
        BY <1>5, <4>1, <4>2, <4>3 DEF Downloader
    <3>2. QED
      BY <3>1, DeliverKept
  <2>3. QED
    BY <2>1, <2>2
<1>6. CASE UNCHANGED vars
  BY <1>6, DeliverKept DEF vars
<1>7. QED
  BY <1>1, <1>2, <1>3, <1>4, <1>5, <1>6 DEF Next, Moves, Joining, Protocol

-----------------------------------------------------------------------------
LEMMA CallStep ==
  ASSUME Types, CallInv, SendInv, DeliverInv, [Next]_vars
  PROVE  CallInv'
<1>0. \A q \in Party : /\ pc[q] # "idle" => pc'[q] # "idle"
                       /\ pc[q] \in Past => pc'[q] \in Past
  BY Onwards
<1>1. ASSUME NEW p \in Party, Call(p) \/ GiveUpJoining(p) \/ ServiceFails(p)
      PROVE  CallInv'
  <2>1. /\ UNCHANGED <<participants, round>>
        /\ \/ pc' = [pc EXCEPT ![p] = "join"] /\ pc[p] = "idle"
           \/ pc' = [pc EXCEPT ![p] = "returned"]
    BY <1>1 DEF Call, GiveUpJoining, ServiceFails, Return, Goto, relayVars, loopVars
  <2>2. /\ pc'[p] \in {"join", "returned"}
        /\ \A q \in Party : q # p => pc'[q] = pc[q]
    BY <2>1 DEF Types, CallTypes
  <2>3. QED
    BY <1>0, <2>1, <2>2 DEF CallInv
<1>2. ASSUME NEW p \in Party, JoinSession(p) \/ JoinAnswerLost(p)
      PROVE  CallInv'
  <2>1. /\ participants' = [participants EXCEPT ![p] = @ + 1] /\ round' = round /\ pc[p] = "join"
        /\ pc' = [pc EXCEPT ![p] = "await"] \/ pc' = pc
    BY <1>2 DEF JoinSession, JoinAnswerLost, PostSession, Goto, callVars, loopVars
  <2>2. /\ pc'[p] \in {"await", "join"} /\ participants'[p] > 0
        /\ \A q \in Party : q # p => pc'[q] = pc[q] /\ participants'[q] = participants[q]
    BY <2>1 DEF Types, CallTypes
  <2>3. QED
    BY <1>0, <2>1, <2>2 DEF CallInv
<1>3. ASSUME NEW p \in Party, PassBarrier(p)
      PROVE  CallInv'
  <2>1. /\ participants' = participants /\ pc[p] = "await"
        /\ round' = [round EXCEPT ![p] = 1] /\ pc' = [pc EXCEPT ![p] = "loop"]
    BY <1>3 DEF PassBarrier, Goto, relayVars
  <2>2. \A q \in Party : pc[q] # "idle"
    BY <1>3 DEF PassBarrier, AllListed, CallInv
  <2>3. /\ pc'[p] = "loop" /\ round'[p] = 1
        /\ \A q \in Party : q # p => pc'[q] = pc[q] /\ round'[q] = round[q]
    BY <2>1 DEF Types, CallTypes, SendTypes
  <2>4. QED
    BY <1>0, <2>1, <2>2, <2>3 DEF CallInv
<1>4. ASSUME NEW p \in Party, Ending(p) \/ LoopReturns(p)
      PROVE  CallInv'
  <2>1. /\ round' = round
        /\ participants' \in {participants, [q \in Party |-> 0]}
    <3>1. CASE EndSession(p) \/ EndSessionFails(p)
      BY <3>1 DEF EndSession, EndSessionFails, DeleteSession, loopVars
    <3>2. CASE FlagComplete(p) \/ CloseEndCh(p) \/ ClosePanics(p) \/ Finish(p) \/ LoopReturns(p)
      BY <3>2 DEF FlagComplete, CloseEndCh, ClosePanics, Finish, LoopReturns, relayVars, loopVars
    <3>3. QED
      BY <1>4, <3>1, <3>2 DEF Ending
  <2>2. \A q \in Party : pc[q] \in Past
    <3>1. CASE Ending(p)
      BY <3>1 DEF Ending, EndSession, EndSessionFails, FlagComplete, CloseEndCh, ClosePanics,
                  Finish, CallInv
    <3>2. CASE LoopReturns(p)
      BY <3>2, HttpAssumption DEF LoopReturns, CallInv
    <3>3. QED
      BY <1>4, <3>1, <3>2
  <2>3. \A q \in Party : pc'[q] \in Past
    BY <1>0, <2>2
  <2>4. "await" \notin Past /\ "idle" \notin Past
    BY DEF Past
  <2>5. QED
    BY <2>3, <2>4 DEF CallInv
<1>5. ASSUME NEW p \in Party, TssAdvance(p)
      PROVE  CallInv'
  <2>1. /\ UNCHANGED <<participants, pc>> /\ pc[p] = "loop" /\ HeardAll(p, round[p])
        /\ round' = [round EXCEPT ![p] = @ + 1]
    BY <1>5 DEF TssAdvance, relayVars, callVars
  <2>2. ASSUME NEW q \in Party PROVE pc[q] \in Past
    <3>1. CASE q = p
      BY <2>1, <3>1 DEF Past
    <3>2. CASE q # p
      <4>1. PICK m \in got[p] : m.from = q
        BY <2>1, <3>2 DEF HeardAll, Others
      <4>2. m \in messages
        BY DEF DeliverInv, Delivers
      <4>3. QED
        BY <4>1, <4>2 DEF SendInv
    <3>3. QED
      BY <3>1, <3>2
  <2>3. QED
    BY <2>1, <2>2 DEF CallInv
<1>6. ASSUME NEW p \in Party, LoopFails(p) \/ DeleteCrashes(p)
      PROVE  CallInv'
  <2>1. /\ participants' = participants /\ round' = [round EXCEPT ![p] = 0]
        /\ pc' = [pc EXCEPT ![p] = "returned"] \/ pc' = [pc EXCEPT ![p] = "crashed"]
    BY <1>6 DEF LoopFails, DropLoop, Return, DeleteCrashes, ProcessEnds, Goto, relayVars
  <2>2. /\ pc'[p] \in {"returned", "crashed"} /\ round'[p] = 0
        /\ \A q \in Party : q # p => pc'[q] = pc[q] /\ round'[q] = round[q]
    BY <2>1 DEF Types, CallTypes, SendTypes
  <2>3. QED
    BY <1>0, <2>1, <2>2 DEF CallInv
<1>7. ASSUME NEW p \in Party, Sending(p) \/ Downloader(p)
      PROVE  CallInv'
  <2>1. UNCHANGED <<participants, pc, round>>
    BY <1>7 DEF Sending, Send, SendFails, Downloader, Select, Fetch, Take, EndOfBatch, Apply,
                Delete, relayVars, callVars, loopVars
  <2>2. QED
    BY <2>1 DEF CallInv
<1>8. CASE UNCHANGED vars
  BY <1>8 DEF CallInv, vars, relayVars
<1>9. QED
  BY <1>1, <1>2, <1>3, <1>4, <1>5, <1>6, <1>7, <1>8 DEF Next, Joining, Protocol

\* A loop has heard from all in the rounds behind it, so a success has nothing
\* left to apply.
ResultInv == \A p \in Party :
  /\ pc[p] = "loop" => \A r \in 1 .. Rounds : r < round[p] => HeardAll(p, r)
  /\ outcome[p] = "ok" => /\ dl[p] # "apply"
                          /\ \A q \in Others(p), r \in 1 .. Rounds : <<q, r>> \in seen[p]

\* All that is in the list for a party comes from another and from some round.
LEMMA PostedIsHeard ==
  ASSUME Types, SendInv, NEW p \in Party, NEW m \in messages, m.to = p
  PROVE  m.from \in Others(p) /\ m.round \in 1 .. Rounds /\ Hash(m) = <<m.from, m.round>>
BY DEF SendInv, Types, SendTypes, Posted, Others, Hash

LEMMA ReturnIsDrained ==
  ASSUME Types, SendInv, DeliverInv, ResultInv, NEW p \in Party, LoopReturns(p)
  PROVE  /\ dl[p] # "apply"
         /\ \A q \in Others(p), r \in 1 .. Rounds : <<q, r>> \in seen[p]
<1>1. \A r \in 1 .. Rounds : HeardAll(p, r)
  BY HttpAssumption DEF LoopReturns, ResultInv
<1>2. ASSUME NEW q \in Others(p), NEW r \in 1 .. Rounds
      PROVE  <<q, r>> \in seen[p]
  <2>1. PICK g \in got[p] : g.from = q /\ g.round = r
    BY <1>1 DEF HeardAll
  <2>2. QED
    BY <2>1 DEF DeliverInv, Delivers, Hash
<1>3. ASSUME dl[p] = "apply" PROVE FALSE
  <2>1. PICK m \in Current(p) : m \notin got[p]
    BY <1>3 DEF DeliverInv, Delivers
  <2>2. m \in messages /\ m.to = p
    BY DEF Current, DeliverInv, Delivers, Types, DownloadTypes
  <2>3. PICK g \in got[p] : g.from = m.from /\ g.round = m.round
    BY <1>1, <2>2, PostedIsHeard DEF HeardAll
  <2>4. g \in messages /\ g.to = p
    BY DEF DeliverInv, Delivers, Types, DownloadTypes
  <2>5. g = m
    BY <2>2, <2>3, <2>4 DEF SendInv
  <2>6. QED
    BY <2>1, <2>5
<1>4. QED
  BY <1>2, <1>3

LEMMA ResultStep ==
  ASSUME Types, SendInv, DeliverInv, ResultInv, [Next]_vars
  PROVE  ResultInv'
<1>1. ASSUME NEW p \in Party, LoopReturns(p) PROVE ResultInv'
  <2>1. /\ UNCHANGED <<got, round, dl, seen>> /\ pc' = [pc EXCEPT ![p] = "end"]
        /\ outcome' = [outcome EXCEPT ![p] = "ok"]
    BY <1>1 DEF LoopReturns, Goto, loopVars, dlVars
  <2>2. /\ pc'[p] = "end"
        /\ \A q \in Party : q # p => pc'[q] = pc[q] /\ outcome'[q] = outcome[q]
    BY <2>1 DEF Types, CallTypes
  <2>3. QED
    BY <1>1, <2>1, <2>2, ReturnIsDrained DEF ResultInv, HeardAll
<1>2. ASSUME NEW p \in Party, LoopFails(p) PROVE ResultInv'
  <2>1. /\ UNCHANGED <<dl, seen>> /\ pc' = [pc EXCEPT ![p] = "returned"]
        /\ outcome' = [outcome EXCEPT ![p] = "error"]
        /\ got' = [got EXCEPT ![p] = {}] /\ round' = [round EXCEPT ![p] = 0]
    BY <1>2 DEF LoopFails, Return, Goto, DropLoop, dlVars
  <2>2. /\ pc'[p] = "returned" /\ outcome'[p] = "error"
        /\ \A q \in Party : q # p => /\ pc'[q] = pc[q] /\ outcome'[q] = outcome[q]
                                    /\ got'[q] = got[q] /\ round'[q] = round[q]
    BY <2>1 DEF Types, CallTypes, SendTypes, DownloadTypes
  <2>3. QED
    BY <2>1, <2>2 DEF ResultInv, HeardAll
<1>3. ASSUME NEW p \in Party, DeleteCrashes(p) PROVE ResultInv'
  <2>1. /\ pc' = [pc EXCEPT ![p] = "crashed"] /\ outcome' = [outcome EXCEPT ![p] = "none"]
        /\ dl' = [dl EXCEPT ![p] = "dead"] /\ seen' = [seen EXCEPT ![p] = {}]
        /\ got' = [got EXCEPT ![p] = {}] /\ round' = [round EXCEPT ![p] = 0]
    BY <1>3 DEF DeleteCrashes, ProcessEnds, Goto
  <2>2. /\ pc'[p] = "crashed" /\ outcome'[p] = "none"
        /\ \A q \in Party : q # p => /\ pc'[q] = pc[q] /\ outcome'[q] = outcome[q]
                                    /\ got'[q] = got[q] /\ round'[q] = round[q]
                                    /\ dl'[q] = dl[q] /\ seen'[q] = seen[q]
    BY <2>1 DEF Types, CallTypes, SendTypes, DownloadTypes
  <2>3. QED
    BY <2>1, <2>2 DEF ResultInv, HeardAll
<1>4. ASSUME NEW p \in Party, PassBarrier(p) PROVE ResultInv'
  <2>1. /\ UNCHANGED <<outcome, got, seen>> /\ pc' = [pc EXCEPT ![p] = "loop"]
        /\ dl' = [dl EXCEPT ![p] = "select"] /\ round' = [round EXCEPT ![p] = 1]
    BY <1>4 DEF PassBarrier, Goto
  <2>2. /\ dl'[p] = "select" /\ round'[p] = 1
        /\ \A q \in Party : q # p => /\ pc'[q] = pc[q] /\ round'[q] = round[q]
                                    /\ dl'[q] = dl[q]
    BY <2>1 DEF Types, CallTypes, SendTypes, DownloadTypes
  <2>3. \A r \in 1 .. Rounds : ~ r < 1
    BY HttpAssumption
  <2>4. QED
    BY <2>1, <2>2, <2>3 DEF ResultInv, HeardAll
<1>5. ASSUME NEW p \in Party, TssAdvance(p) PROVE ResultInv'
  <2>1. /\ UNCHANGED <<pc, outcome, got, dl, seen>> /\ HeardAll(p, round[p])
        /\ round' = [round EXCEPT ![p] = @ + 1]
    BY <1>5 DEF TssAdvance, callVars, dlVars
  <2>2. /\ round'[p] = round[p] + 1 /\ round[p] \in Nat
        /\ \A q \in Party : q # p => round'[q] = round[q]
    BY <2>1, HttpAssumption DEF Types, SendTypes
  <2>3. \A r \in 1 .. Rounds : r < round'[p] => r = round[p] \/ r < round[p]
    BY <2>2, HttpAssumption
  <2>4. QED
    BY <2>1, <2>2, <2>3 DEF ResultInv, HeardAll
<1>6. ASSUME NEW p \in Party, Moves(p) \/ Sending(p), ~ LoopReturns(p) PROVE ResultInv'
  <2>1. UNCHANGED <<round, dl, got, seen>>
    BY <1>6, MovesFrame DEF Sending, Send, SendFails, loopVars, dlVars
  <2>2. outcome' = outcome /\ \A q \in Party : pc'[q] = "loop" => pc[q] = "loop"
    BY <1>6 DEF Moves, Call, JoinSession, JoinAnswerLost, GiveUpJoining, ServiceFails,
                Ending, EndSession, EndSessionFails, FlagComplete, CloseEndCh, ClosePanics, Finish,
                Sending, Send, SendFails, Return, Goto, callVars, Types, CallTypes
  <2>3. QED
    BY <2>1, <2>2 DEF ResultInv, HeardAll
<1>7. ASSUME NEW p \in Party, Downloader(p) PROVE ResultInv'
  <2>1. UNCHANGED <<pc, outcome, round>>
    BY <1>7 DEF Downloader, Select, Fetch, Take, EndOfBatch, Apply, Delete, callVars, loopVars
  <2>2. CASE Select(p) \/ Fetch(p) \/ EndOfBatch(p) \/ Delete(p)
    <3>1. UNCHANGED <<got, seen>> /\ \A q \in Party : dl'[q] = "apply" => dl[q] = "apply"
      BY <2>2 DEF Select, Fetch, EndOfBatch, Delete, loopVars, Types, DownloadTypes
    <3>2. QED
      BY <2>1, <3>1 DEF ResultInv, HeardAll
  <2>3. CASE Take(p)
    <3>1. PICK m \in Current(p) : Hash(m) \notin seen[p] /\ seen' = [seen EXCEPT ![p] = @ \cup {Hash(m)}]
      BY <2>3 DEF Take
    <3>2. m \in messages /\ m.to = p
      BY DEF Current, DeliverInv, Delivers, Types, DownloadTypes
    <3>3. outcome[p] # "ok"
      BY <3>1, <3>2, PostedIsHeard DEF ResultInv
    <3>4. /\ got' = got
          /\ \A q \in Party : q # p => dl'[q] = dl[q] /\ seen'[q] = seen[q]
      BY <2>3, <3>1 DEF Take, loopVars, Types, DownloadTypes
    <3>5. QED
      BY <2>1, <3>3, <3>4 DEF ResultInv, HeardAll
  <2>4. CASE Apply(p)
    <3>1. /\ seen' = seen /\ \A q \in Party : got[q] \subseteq got'[q]
          /\ \A q \in Party : dl'[q] = "apply" => dl[q] = "apply"
      BY <2>4 DEF Apply, Types, DownloadTypes
    <3>2. QED
      BY <2>1, <3>1 DEF ResultInv, HeardAll
  <2>5. QED
    BY <1>7, <2>2, <2>3, <2>4 DEF Downloader
<1>8. CASE UNCHANGED vars
  BY <1>8 DEF ResultInv, HeardAll, vars
<1>9. QED
  BY <1>1, <1>2, <1>3, <1>4, <1>5, <1>6, <1>7, <1>8 DEF Next, Moves, Joining, Protocol

-----------------------------------------------------------------------------
\* The inductive invariant.
IInv == Types /\ CallInv /\ SendInv /\ DeliverInv /\ ResultInv

LEMMA InitOk == Init => IInv
<1> SUFFICES ASSUME Init PROVE IInv
  OBVIOUS
<1>1. CallInv
  <2>1. \A p \in Party : participants[p] = 0 /\ pc[p] = "idle" /\ round[p] = 0
    BY DEF Init, RelayInit
  <2>2. ~ 0 > 0 /\ ~ 0 > 1
    OBVIOUS
  <2>3. QED
    BY <2>1, <2>2, Zenon DEF CallInv
<1>2. SendInv
  BY DEF Init, RelayInit, SendInv
<1>3. DeliverInv
  BY DEF Init, DeliverInv, Delivers
<1>4. ResultInv
  BY DEF Init, ResultInv
<1>5. QED
  BY <1>1, <1>2, <1>3, <1>4, InitTypes DEF IInv

LEMMA StepOk == IInv /\ [Next]_vars => IInv'
BY TypesStep, CallStep, SendStep, DeliverStep, ResultStep DEF IInv

\* The invariant holds in every behaviour of the party and its relay.
THEOREM Invariance == Spec => []IInv
BY InitOk, StepOk, PTL DEF Spec

\* Every variable keeps its type, and what a party fetches and applies is for it.
THEOREM TypeCorrect == Spec => []TypeOK
<1>1. IInv => TypeOK
  BY TypesMeanTypeOK DEF IInv
<1>2. QED
  BY <1>1, Invariance, PTL

\* Nobody runs the protocol of JoinKeygen or JoinKeysign before every party of
\* the committee has called, whatever registrations the relay repeated or lost.
THEOREM BarrierSound == Spec => []BarrierMeansAll
<1>1. IInv => BarrierMeansAll
  BY DEF IInv, CallInv, BarrierMeansAll
<1>2. QED
  BY <1>1, Invariance, PTL

\* endSession never deletes the session of a party that still polls it.
THEOREM WaitersKeepSession == Spec => []WaitingHasSession
<1>1. IInv => WaitingHasSession
  BY DEF IInv, CallInv, WaitingHasSession
<1>2. QED
  BY <1>1, Invariance, PTL

\* downloadMessage applies the messages of each peer in the order of the relay's
\* list, without gaps and once.
THEOREM AppliedInOrder == Spec => []InboxIsPrefix
<1>1. IInv => InboxIsPrefix
  BY DEF IInv, DeliverInv, Delivers, InboxIsPrefix
<1>2. QED
  BY <1>1, Invariance, PTL

\* After a success the downloader has nothing left to apply to a loop that is gone.
THEOREM SuccessDrained == Spec => []SuccessIsDrained
<1>1. ASSUME IInv PROVE SuccessIsDrained
  BY <1>1, PostedIsHeard DEF IInv, ResultInv, SuccessIsDrained
<1>2. QED
  BY <1>1, Invariance, PTL
-----------------------------------------------------------------------------
(* A call that has its result is never stuck behind its downloader *)

After == {"end", "flag", "close", "wait"}
Running == {"select", "fetch", "batch", "apply", "delete", "stopped"}

\* The downloader lives as long as the call needs it, and what it is about to delete
\* is in its batch; who waits for it has closed its end channel.
DrainInv == \A p \in Party :
  /\ dl[p] = "delete" => Current(p) # {}
  /\ pc[p] \in After \cup {"loop"} => dl[p] \in Running
  /\ pc[p] \in After => outcome[p] = "ok"
  /\ pc[p] = "wait" => endCh[p]

LEMMA DrainStep == ASSUME IInv, DrainInv, [Next]_vars  PROVE DrainInv'
<1>0. Types
  BY DEF IInv
<1>1. ASSUME NEW p \in Party, Downloader(p)  PROVE DrainInv'
  <2>1. UNCHANGED <<pc, outcome, endCh>>
    BY <1>1 DEF Downloader, Select, Fetch, Take, EndOfBatch, Apply, Delete, callVars
  <2>2. \A q \in Party : q # p => dl'[q] = dl[q] /\ batch'[q] = batch[q]
    <3>1. \/ \E l \in Running : dl' = [dl EXCEPT ![p] = l]
      BY <1>1 DEF Downloader, Select, Fetch, Take, EndOfBatch, Apply, Delete, Running
    <3>2. batch' = batch \/ \E S : batch' = [batch EXCEPT ![p] = S]
      BY <1>1 DEF Downloader, Select, Fetch, Take, EndOfBatch, Apply, Delete
    <3>3. QED
      BY <1>0, <3>1, <3>2 DEF Types, DownloadTypes
  <2>3. dl'[p] \in Running
    BY <1>0, <1>1 DEF Downloader, Select, Fetch, Take, EndOfBatch, Apply, Delete, Running,
                      Types, DownloadTypes
  <2>4. dl'[p] = "delete" => Current(p)' # {}
    <3>1. CASE Apply(p)
      <4>1. dl[p] = "apply" /\ batch' = batch
        BY <3>1 DEF Apply
      <4>2. Current(p) # {}
        BY <4>1 DEF IInv, DeliverInv, Delivers
      <4>3. QED
        BY <4>1, <4>2 DEF Current, Precedes
    <3>2. CASE ~Apply(p)
      BY <1>0, <1>1, <3>2 DEF Downloader, Select, Fetch, Take, EndOfBatch, Delete,
                              Types, DownloadTypes
    <3>3. QED
      BY <3>1, <3>2
  <2>5. ASSUME NEW q \in Party, q # p, dl'[q] = "delete"  PROVE Current(q)' # {}
    BY <2>2, <2>5 DEF DrainInv, Current, Precedes
  <2>6. QED
    BY <2>1, <2>2, <2>3, <2>4, <2>5 DEF DrainInv
<1>2. ASSUME UNCHANGED <<dl, batch>>  PROVE \A q \in Party : Current(q)' = Current(q)
  BY <1>2 DEF Current, Precedes
<1>3. ASSUME NEW p \in Party, Moves(p) \/ LoopFails(p)  PROVE DrainInv'
  <2>1. UNCHANGED <<dl, batch>>
    BY <1>3, MovesFrame DEF LoopFails, dlVars
  <2>2. \A q \in Party : q # p => /\ pc'[q] = pc[q] /\ outcome'[q] = outcome[q]
                                  /\ endCh'[q] = endCh[q]
    <3>1. /\ pc' = pc \/ \E l : pc' = [pc EXCEPT ![p] = l]
          /\ outcome' = outcome \/ \E v : outcome' = [outcome EXCEPT ![p] = v]
          /\ endCh' = endCh \/ endCh' = [endCh EXCEPT ![p] = TRUE]
      BY <1>3 DEF Moves, Call, JoinSession, JoinAnswerLost, GiveUpJoining, ServiceFails,
                  LoopReturns, LoopFails, Ending, EndSession, EndSessionFails, FlagComplete,
                  CloseEndCh, ClosePanics, Finish, Return, Goto, callVars
    <3>2. QED
      BY <1>0, <3>1 DEF Types, CallTypes
  <2>3. /\ pc'[p] \in After => /\ pc[p] \in After \cup {"loop"} /\ outcome'[p] = "ok"
        /\ pc'[p] = "wait" => endCh'[p]
        /\ pc'[p] # "loop"
    <3>1. CASE \/ Call(p) \/ JoinSession(p) \/ JoinAnswerLost(p) \/ GiveUpJoining(p)
               \/ ServiceFails(p) \/ LoopFails(p)
      <4>1. pc'[p] \in {"join", "await", "returned"}
        BY <1>0, <3>1 DEF Call, JoinSession, JoinAnswerLost, GiveUpJoining, ServiceFails, LoopFails,
                          Return, Goto, callVars, Types, CallTypes
      <4>2. QED
        BY <4>1 DEF After
    <3>2. CASE LoopReturns(p)
      BY <1>0, <3>2 DEF LoopReturns, Goto, Types, CallTypes, After
    <3>3. CASE Ending(p)
      <4>1. pc[p] \in After /\ outcome' = outcome
        BY <3>3 DEF Ending, EndSession, EndSessionFails, FlagComplete, CloseEndCh, ClosePanics,
                    Finish, After
      <4>2. pc'[p] # "loop" /\ (pc'[p] = "wait" => endCh'[p])
        BY <1>0, <3>3 DEF Ending, EndSession, EndSessionFails, FlagComplete, CloseEndCh,
                          ClosePanics, Finish, Return, Goto, Types, CallTypes
      <4>3. QED
        BY <4>1, <4>2 DEF DrainInv
    <3>4. QED
      BY <1>3, <3>1, <3>2, <3>3 DEF Moves
  <2>4. QED
    BY <1>2, <2>1, <2>2, <2>3 DEF DrainInv
<1>4. ASSUME NEW p \in Party, PassBarrier(p)  PROVE DrainInv'
  <2>1. /\ UNCHANGED <<outcome, endCh, batch>>
        /\ pc' = [pc EXCEPT ![p] = "loop"] /\ dl' = [dl EXCEPT ![p] = "select"]
    BY <1>4 DEF PassBarrier, Goto
  <2>2. /\ pc'[p] = "loop" /\ dl'[p] = "select"
        /\ \A q \in Party : q # p => pc'[q] = pc[q] /\ dl'[q] = dl[q]
    BY <1>0, <2>1 DEF Types, CallTypes, DownloadTypes
  <2>3. \A q \in Party : Current(q)' = Current(q)
    BY <2>1 DEF Current, Precedes
  <2>4. QED
    BY <2>1, <2>2, <2>3 DEF DrainInv, After, Running
<1>5. ASSUME NEW p \in Party, DeleteCrashes(p)  PROVE DrainInv'
  <2>1. /\ pc' = [pc EXCEPT ![p] = "crashed"] /\ outcome' = [outcome EXCEPT ![p] = "none"]
        /\ endCh' = [endCh EXCEPT ![p] = FALSE] /\ dl' = [dl EXCEPT ![p] = "dead"]
        /\ batch' = [batch EXCEPT ![p] = {}]
    BY <1>5 DEF DeleteCrashes, ProcessEnds, Goto
  <2>2. /\ pc'[p] = "crashed" /\ dl'[p] = "dead"
        /\ \A q \in Party : q # p => /\ pc'[q] = pc[q] /\ outcome'[q] = outcome[q]
                                    /\ endCh'[q] = endCh[q] /\ dl'[q] = dl[q]
                                    /\ batch'[q] = batch[q]
    BY <1>0, <2>1 DEF Types, CallTypes, DownloadTypes
  <2>3. \A q \in Party : q # p => Current(q)' = Current(q)
    BY <2>2 DEF Current, Precedes
  <2>4. QED
    BY <2>2, <2>3 DEF DrainInv, After
<1>6. CASE UNCHANGED <<pc, outcome, endCh, dl, batch>>
  BY <1>2, <1>6 DEF DrainInv
<1>7. ASSUME NEW p \in Party, Sending(p) \/ TssAdvance(p) \/ UNCHANGED vars
      PROVE  UNCHANGED <<pc, outcome, endCh, dl, batch>>
  BY <1>7 DEF Sending, Send, SendFails, TssAdvance, callVars, dlVars, vars
<1>8. CASE UNCHANGED vars
  BY <1>6, <1>8 DEF vars
<1>9. QED
  BY <1>1, <1>3, <1>4, <1>5, <1>6, <1>7, <1>8 DEF Next, Moves, Joining, Protocol

\* A set of numbers that is not empty has a least one.
LEMMA LeastNumber ==
  ASSUME NEW T \in SUBSET Nat, T # {}
  PROVE  \E x \in T : \A y \in T : x <= y
<1>1. PICK x \in T : \A y \in T : ~ (<<y, x>> \in OpToRel(<, Nat))
  BY NatLessThanWellFounded, WFMin
<1>2. \A y \in T : ~ (y < x)
  BY <1>1 DEF OpToRel
<1>3. QED
  BY <1>2

\* SliceStable has a first message to give, whatever the batch.
LEMMA FirstOfBatch ==
  ASSUME Types, NEW p \in Party, batch[p] # {}
  PROVE  Current(p) # {}
<1>1. \A m \in batch[p] : m.seqNo \in Nat /\ m.at \in Nat
  BY DEF Types, DownloadTypes, Posted
<1>2. PICK s \in {m.seqNo : m \in batch[p]} : \A t \in {m.seqNo : m \in batch[p]} : s <= t
  BY <1>1, LeastNumber
<1> DEFINE T == {m \in batch[p] : m.seqNo = s}
<1>3. PICK x \in {m.at : m \in T} : \A y \in {m.at : m \in T} : x <= y
  <2>1. {m.at : m \in T} \in SUBSET Nat /\ {m.at : m \in T} # {}
    BY <1>1, <1>2
  <2>2. QED
    BY <2>1, LeastNumber
<1>4. PICK m \in T : m.at = x
  BY <1>3
<1>5. ASSUME NEW n \in batch[p]  PROVE Precedes(m, n)
  <2>1. s <= n.seqNo /\ s \in Nat /\ n.seqNo \in Nat
    BY <1>1, <1>2
  <2>2. n.seqNo = s => m.at <= n.at
    BY <1>3, <1>4
  <2>3. QED
    BY <1>4, <2>1, <2>2 DEF Precedes
<1>6. QED
  BY <1>4, <1>5 DEF Current

\* A call whose loop has succeeded, up to its wait for downloadMessage, finds that
\* goroutine able to go on, and to end: it has what is left of its batch to delete,
\* nothing of it to apply, and no fetch follows once the end channel is closed.
THEOREM NeverHeldBySuccess ==
  Spec => [](\A p \in Party : pc[p] \in {"end", "flag", "close", "wait"} =>
               /\ \/ dl[p] \in {"select", "fetch", "stopped"}
                  \/ dl[p] = "batch" /\ batch[p] = {}
                  \/ dl[p] \in {"batch", "delete"} /\ \E m \in batch[p] : Deletes(p, m)
               /\ pc[p] = "wait" => endCh[p])
<1>1. Init => DrainInv
  BY DEF Init, DrainInv, After
<1>2. IInv /\ DrainInv /\ [Next]_vars => DrainInv'
  BY DrainStep
<1>3. Spec => []DrainInv
  BY <1>1, <1>2, Invariance, PTL DEF Spec
<1>4. ASSUME IInv, DrainInv, NEW p \in Party, pc[p] \in After
      PROVE  /\ \/ dl[p] \in {"select", "fetch", "stopped"}
                \/ dl[p] = "batch" /\ batch[p] = {}
                \/ dl[p] \in {"batch", "delete"} /\ \E m \in batch[p] : Deletes(p, m)
             /\ pc[p] = "wait" => endCh[p]
  <2>1. dl[p] \in Running \ {"apply"} /\ (pc[p] = "wait" => endCh[p])
    BY <1>4 DEF DrainInv, IInv, ResultInv
  <2>2. ASSUME NEW m \in batch[p]  PROVE Hash(m) \in seen[p]
    <3>1. m \in messages /\ m.to = p
      BY <1>4 DEF IInv, DeliverInv, Delivers, Types, DownloadTypes
    <3>2. QED
      BY <1>4, <3>1, PostedIsHeard DEF IInv, ResultInv, DrainInv
  <2>3. dl[p] = "batch" /\ batch[p] # {} => \E m \in batch[p] : Deletes(p, m)
    BY <1>4, <2>2, FirstOfBatch DEF IInv, Current, Deletes
  <2>4. dl[p] = "delete" => \E m \in batch[p] : Deletes(p, m)
    BY <1>4 DEF DrainInv, Current, Deletes
  <2>5. QED
    BY <2>1, <2>3, <2>4 DEF Running
<1>5. IInv /\ DrainInv =>
        \A p \in Party : pc[p] \in {"end", "flag", "close", "wait"} =>
          /\ \/ dl[p] \in {"select", "fetch", "stopped"}
             \/ dl[p] = "batch" /\ batch[p] = {}
             \/ dl[p] \in {"batch", "delete"} /\ \E m \in batch[p] : Deletes(p, m)
          /\ pc[p] = "wait" => endCh[p]
  BY <1>4 DEF After
<1>6. QED
  BY <1>3, <1>5, Invariance, PTL
================================================================================
