------------------------ MODULE NostrTransport_proofs ------------------------
(***************************************************************************)
(* Proofs about NostrTransport for every set of parties, bodies, messages  *)
(* and every value of the bounds.                                          *)
(***************************************************************************)
EXTENDS NostrTransport, FiniteSetTheorems, TLAPS

USE TransportAssumption DEF TransportAssumption

-----------------------------------------------------------------------------
(* Chunk counting *)

\* The indices of a body's chunks are as many as the chunks.
LEMMA IndicesFinite ==
  ASSUME NEW b \in Body
  PROVE  /\ Indices(b) \subseteq Nat
         /\ IsFiniteSet(Indices(b))
         /\ Cardinality(Indices(b)) = Chunks[b]
<1>1. Chunks[b] \in Nat
  OBVIOUS
<1>2. Indices(b) \subseteq Nat
  BY <1>1 DEF Indices
<1> DEFINE last == Chunks[b] - 1
<1>3. /\ 0 \in Int /\ last \in Int
      /\ (IF 0 > last THEN 0 ELSE last - 0 + 1) = Chunks[b]
  BY <1>1
<1>4. /\ IsFiniteSet(0 .. last)
      /\ Cardinality(0 .. last) = IF 0 > last THEN 0 ELSE last - 0 + 1
  <2> HIDE DEF last
  <2> QED BY <1>3, FS_Interval, Zenon
<1>5. IsFiniteSet(0 .. last) /\ Cardinality(0 .. last) = Chunks[b]
  <2> HIDE DEF last
  <2> QED BY <1>3, <1>4
<1>6. QED
  BY <1>2, <1>5 DEF Indices

\* Counting suffices: a state that holds as many indices of a body as the body
\* has chunks holds them all (the length comparison of ChunkAssembler.Add).
LEMMA CompleteMeansAll ==
  ASSUME NEW b \in Body, NEW state, state.parts \subseteq Indices(b), Complete(state, b)
  PROVE  state.parts = Indices(b)
<1>1. Cardinality(state.parts) = Cardinality(Indices(b))
  BY IndicesFinite DEF Complete
<1>2. QED
  BY <1>1, IndicesFinite, FS_Subset

\* A state that is not complete holds fewer chunks than the body has.
LEMMA IncompleteMeansFewer ==
  ASSUME NEW b \in Body, NEW state, state.parts \subseteq Indices(b), ~Complete(state, b)
  PROVE  Cardinality(state.parts) < Chunks[b]
<1>1. /\ IsFiniteSet(state.parts)
      /\ Cardinality(state.parts) <= Chunks[b]
  BY IndicesFinite, FS_Subset
<1>2. Cardinality(state.parts) \in Nat
  BY <1>1, FS_CardinalityType
<1>3. QED
  BY <1>1, <1>2 DEF Complete

-----------------------------------------------------------------------------
(* The inductive invariant *)

\* Chunks behind the cursor of a call are at a relay, and the cursor tells how
\* far the call is.
SenderInv ==
  \A m \in Msg :
    /\ sendPc[m] = "idle" => cursor[m] = 0
    /\ sendPc[m] \in {"loop", "publish", "backoff"} => cursor[m] < Chunks[m.body]
    /\ sendPc[m] = "ok" => cursor[m] = Chunks[m.body]
    /\ \A i \in 0 .. (cursor[m] - 1) : \E w \in stored : w.msg = m /\ w.index = i

\* A stored wrap carries a chunk of a message whose call has begun.
StoreInv ==
  \A w \in stored : sendPc[w.msg] # "idle" /\ w.index \in Indices(w.msg.body)

\* A subscription streams stored wraps addressed to its party.
PendingInv == \A p \in Party : \A w \in pending[p] : w \in stored /\ w.msg.to = p

\* What a chunkState holds was published by a peer.
BufferInv == \A p \in Party, b \in Body : \A i \in buffer[p][b].parts : Published(p, b, i)

\* The processed set is exactly the bodies handed over, once each.
ProcessedInv == \A p \in Party, b \in Body :
                  handed[p][b] = IF b \in processed[p] THEN 1 ELSE 0

IInv == /\ TypeOK /\ SenderInv /\ StoreInv /\ PendingInv
        /\ BufferInv /\ ProcessedInv /\ OnlyWholeBodies /\ NoLeftovers

\* The initial state satisfies the invariant.
LEMMA InitIInv == Init => IInv
<1> SUFFICES ASSUME Init PROVE IInv
  OBVIOUS
<1> USE DEF Init
<1>1. TypeOK
  BY DEF TypeOK, SenderTypeOK, PumpTypeOK, NoState
<1>2. SenderInv /\ StoreInv /\ PendingInv
  BY DEF SenderInv, StoreInv, PendingInv
<1>3. BufferInv /\ ProcessedInv /\ OnlyWholeBodies
  BY DEF BufferInv, ProcessedInv, OnlyWholeBodies, NoState
<1>4. NoLeftovers
  BY DEF NoLeftovers, NoState
<1>5. QED
  BY <1>1, <1>2, <1>3, <1>4 DEF IInv

\* Collecting the chunk of a pending wrap keeps a state within the published
\* chunks of its body.
LEMMA CollectFacts ==
  ASSUME IInv, NEW p \in Party, NEW w \in pending[p], Wanted(p, w)
  PROVE  LET b == w.msg.body
             state == Collect(buffer[p][b], w.index)
         IN  /\ b \in Body
             /\ state \in [parts : SUBSET Nat, deadline : Nat]
             /\ state.parts \subseteq Indices(b)
             /\ \A i \in state.parts : Published(p, b, i)
<1> DEFINE b == w.msg.body
           old == buffer[p][b]
           state == Collect(old, w.index)
<1>1. w \in stored /\ w.msg.to = p /\ w \in Wrap
  BY DEF IInv, PendingInv, TypeOK, SenderTypeOK
<1>2. /\ w.msg \in Msg /\ b \in Body
      /\ w.index \in Nat
      /\ w.index \in Indices(b)
  BY <1>1 DEF Wrap, IInv, StoreInv
<1>3. Published(p, b, w.index)
  BY <1>1 DEF Published, Wanted
<1>4. /\ old \in [parts : SUBSET Nat, deadline : Nat]
      /\ old.parts \subseteq Indices(b)
      /\ \A i \in old.parts : Published(p, b, i)
  BY <1>2 DEF IInv, TypeOK, PumpTypeOK, BufferInv
<1>5. now + ChunkTTL \in Nat
  BY DEF IInv, TypeOK
<1>6. \/ state = [parts |-> {w.index}, deadline |-> now + ChunkTTL]
      \/ state = [old EXCEPT !.parts = @ \cup {w.index}]
  BY DEF Collect
<1>7. state \in [parts : SUBSET Nat, deadline : Nat] /\ state.parts \subseteq old.parts \cup {w.index}
  BY <1>2, <1>4, <1>5, <1>6
<1>8. QED
  BY <1>2, <1>3, <1>4, <1>7

-----------------------------------------------------------------------------
(* One lemma per group of actions *)

\* The parts of the invariant that speak of calls and relays, and of pumps.
SendSide == SenderTypeOK /\ SenderInv /\ StoreInv
PumpSide == PumpTypeOK /\ BufferInv /\ ProcessedInv /\ OnlyWholeBodies /\ NoLeftovers
Shared   == now \in Nat /\ cancelled \in [Party -> BOOLEAN]
            /\ pending \in [Party -> SUBSET Wrap] /\ PendingInv

\* The absent state.
LEMMA NoStateIsEmpty == NoState.parts = {} /\ NoState \in [parts : SUBSET Nat, deadline : Nat]
  BY DEF NoState

\* Updating one entry of a two-level map keeps its type.
LEMMA UpdateType ==
  ASSUME NEW S, NEW f \in [Party -> [Body -> S]], NEW p \in Party, NEW b \in Body, NEW v \in S
  PROVE  [f EXCEPT ![p][b] = v] \in [Party -> [Body -> S]]
  OBVIOUS

\* The invariant, by sides.
LEMMA Sides == /\ IInv <=> SendSide /\ PumpSide /\ Shared
               /\ IInv' <=> SendSide' /\ PumpSide' /\ Shared'
  BY DEF IInv, SendSide, PumpSide, Shared, TypeOK

\* The send side is kept by a step that leaves its variables alone.
LEMMA SendSideFrame == ASSUME SendSide, UNCHANGED senderVars  PROVE SendSide'
  BY DEF SendSide, senderVars, SenderTypeOK, SenderInv, StoreInv, Wrap, Indices

\* The pump side is kept by a step that leaves the assembler, the history and
\* the types of the pump's other variables alone, whatever the relays receive.
LEMMA PumpSideFrame ==
  ASSUME PumpSide, PumpTypeOK', UNCHANGED <<buffer, processed, handed>>, stored \subseteq stored'
  PROVE  PumpSide'
<1>1. \A p \in Party, b \in Body, i \in Nat : Published(p, b, i) => Published(p, b, i)'
  BY DEF Published
<1>2. \A b \in Body : Indices(b) \subseteq Nat /\ Indices(b)' = Indices(b)
  BY IndicesFinite DEF Indices
<1>3. BufferInv'
  BY <1>1 DEF PumpSide, PumpTypeOK, BufferInv
<1>4. OnlyWholeBodies'
  BY <1>1, <1>2 DEF PumpSide, PumpTypeOK, OnlyWholeBodies
<1>5. (ProcessedInv /\ NoLeftovers)'
  BY DEF PumpSide, ProcessedInv, NoLeftovers, NoState
<1>6. QED
  BY <1>3, <1>4, <1>5 DEF PumpSide

\* Ticks and cancellations change neither calls, relays nor pumps.
LEMMA ClockStep == ASSUME IInv, Tick \/ \E p \in Party : Cancel(p)  PROVE IInv'
<1>1. SendSide /\ PumpSide /\ Shared
  BY Sides
<1>2. UNCHANGED senderVars /\ UNCHANGED pumpVars
  BY DEF Tick, Cancel
<1>3. PumpTypeOK'
  BY <1>1, <1>2 DEF PumpSide, PumpTypeOK, pumpVars, Indices
<1>4. PumpSide'
  BY <1>1, <1>2, <1>3, PumpSideFrame DEF pumpVars, senderVars
<1>5. Shared'
  <2>1. now' \in Nat /\ cancelled' \in [Party -> BOOLEAN]
    <3>1. CASE Tick
      BY <1>1, <3>1 DEF Shared, Tick
    <3>2. ASSUME NEW p \in Party, Cancel(p)
          PROVE  now' \in Nat /\ cancelled' \in [Party -> BOOLEAN]
      BY <1>1, <3>2, Zenon DEF Shared, Cancel
    <3>3. QED
      BY <3>1, <3>2
  <2>2. UNCHANGED <<pending, stored>>
    BY <1>2 DEF Tick, Cancel, senderVars
  <2>3. QED
    BY <1>1, <2>1, <2>2 DEF Shared, PendingInv, Wrap
<1>6. QED
  BY <1>1, <1>2, <1>4, <1>5, SendSideFrame, Sides

\* Steps of SendMessage that publish nothing.
LEMMA LocalSendStep ==
  ASSUME IInv, NEW m \in Msg, Begin(m) \/ CheckContext(m) \/ Retry(m) \/ PublishRejected(m)
  PROVE  IInv'
<1> USE DEF Begin, CheckContext, Retry, PublishRejected, Unconfirmed
<1>1. SendSide /\ PumpSide /\ Shared
  BY Sides
<1>2. SenderTypeOK'
  BY <1>1 DEF SendSide, SenderTypeOK, Wrap
<1>3. SenderInv'
  BY <1>1 DEF SendSide, SenderTypeOK, SenderInv
<1>4. StoreInv'
  BY <1>1 DEF SendSide, SenderTypeOK, StoreInv, Wrap, Indices
<1>5. PumpTypeOK'
  BY <1>1 DEF PumpSide, PumpTypeOK, pumpVars, Indices
<1>6. PumpSide'
  BY <1>1, <1>5, PumpSideFrame DEF pumpVars
<1>7. Shared'
  BY <1>1 DEF Shared, PendingInv, Wrap
<1>8. QED
  BY <1>2, <1>3, <1>4, <1>6, <1>7, Sides DEF SendSide

\* A relay stores the wrap of the chunk at the cursor.
LEMMA PublishStep == ASSUME IInv, NEW m \in Msg, PublishAccepted(m)  PROVE IInv'
<1>1. SendSide /\ PumpSide /\ Shared
  BY Sides
<1>2. /\ cursor[m] \in Nat /\ Chunks[m.body] \in Nat /\ cursor[m] < Chunks[m.body]
      /\ sendPc[m] = "publish"
  BY <1>1 DEF SendSide, SenderTypeOK, SenderInv, PublishAccepted
<1>3. /\ WrapOf(m) \in Wrap
      /\ WrapOf(m).msg = m /\ WrapOf(m).index = cursor[m]
      /\ WrapOf(m).index \in Indices(m.body)
  BY <1>1, <1>2 DEF SendSide, SenderTypeOK, Shared, WrapOf, Wrap, Indices
<1>4. stored' = stored \cup {WrapOf(m)} /\ stored \subseteq Wrap
  BY <1>1 DEF SendSide, SenderTypeOK, PublishAccepted
<1>5. \/ /\ cursor' = [cursor EXCEPT ![m] = cursor[m] + 1]
         /\ sendPc' = [sendPc EXCEPT ![m] =
                         IF cursor[m] + 1 = Chunks[m.body] THEN "ok" ELSE "loop"]
         /\ tries' = tries
      \/ /\ cursor' = cursor
         /\ sendPc' = [sendPc EXCEPT ![m] = "backoff"]
         /\ tries' = [tries EXCEPT ![m] = tries[m] + 1]
  BY DEF PublishAccepted, Confirmed, Unconfirmed
<1>6. SenderTypeOK'
  <2>1. cursor' \in [Msg -> Nat] /\ tries' \in [Msg -> Nat]
    <3>1. /\ cursor \in [Msg -> Nat] /\ tries \in [Msg -> Nat]
          /\ cursor[m] + 1 \in Nat /\ tries[m] + 1 \in Nat
      BY <1>1 DEF SendSide, SenderTypeOK
    <3>2. cursor' = cursor \/ cursor' = [cursor EXCEPT ![m] = cursor[m] + 1]
      BY <1>5
    <3>3. tries' = tries \/ tries' = [tries EXCEPT ![m] = tries[m] + 1]
      BY <1>5
    <3>4. QED
      BY <3>1, <3>2, <3>3
  <2>2. sendPc' \in [Msg -> {"idle", "loop", "publish", "backoff", "ok", "error"}]
    BY <1>1, <1>5 DEF SendSide, SenderTypeOK
  <2>3. stored' \in SUBSET Wrap
    BY <1>3, <1>4
  <2>4. QED
    BY <2>1, <2>2, <2>3 DEF SenderTypeOK, Wrap
<1>7. SenderInv'
  <2>1. \A n \in Msg : /\ cursor'[n] \in Nat
                       /\ n # m => cursor'[n] = cursor[n] /\ sendPc'[n] = sendPc[n]
    BY <1>1, <1>5 DEF SendSide, SenderTypeOK
  <2>2. /\ sendPc'[m] \in {"ok", "loop", "backoff"}
        /\ sendPc'[m] \in {"loop", "backoff"} => cursor'[m] < Chunks[m.body]
        /\ sendPc'[m] = "ok" => cursor'[m] = Chunks[m.body]
        /\ cursor'[m] \in {cursor[m], cursor[m] + 1}
    <3>1. /\ cursor \in [Msg -> Nat]
          /\ sendPc \in [Msg -> {"idle", "loop", "publish", "backoff", "ok", "error"}]
      BY <1>1 DEF SendSide, SenderTypeOK
    <3>2. \/ /\ cursor'[m] = cursor[m] + 1
             /\ sendPc'[m] = IF cursor[m] + 1 = Chunks[m.body] THEN "ok" ELSE "loop"
          \/ /\ cursor'[m] = cursor[m]
             /\ sendPc'[m] = "backoff"
      BY <1>5, <3>1
    <3>3. CASE /\ cursor'[m] = cursor[m] + 1
               /\ sendPc'[m] = IF cursor[m] + 1 = Chunks[m.body] THEN "ok" ELSE "loop"
      BY <1>2, <3>3
    <3>4. CASE cursor'[m] = cursor[m] /\ sendPc'[m] = "backoff"
      BY <1>2, <3>4
    <3>5. QED
      BY <3>2, <3>3, <3>4
  <2>3. \A i \in 0 .. cursor[m] : \E w \in stored' : w.msg = m /\ w.index = i
    <3>1. SUFFICES ASSUME NEW i \in 0 .. cursor[m]
                   PROVE  \E w \in stored' : w.msg = m /\ w.index = i
      OBVIOUS
    <3>2. CASE i = cursor[m]
      BY <1>3, <1>4, <3>2
    <3>3. CASE i \in 0 .. (cursor[m] - 1)
      BY <1>1, <1>4, <3>3 DEF SendSide, SenderInv
    <3>4. i = cursor[m] \/ i \in 0 .. (cursor[m] - 1)
      BY <1>2
    <3>5. QED
      BY <3>2, <3>3, <3>4
  <2>4. \A n \in Msg : \A i \in 0 .. (cursor'[n] - 1) : \E w \in stored' : w.msg = n /\ w.index = i
    <3>1. \A i \in 0 .. (cursor'[m] - 1) : i \in 0 .. cursor[m]
      BY <1>2, <2>2
    <3>2. ASSUME NEW n \in Msg, n # m, NEW i \in 0 .. (cursor'[n] - 1)
          PROVE  \E w \in stored' : w.msg = n /\ w.index = i
      BY <1>1, <1>4, <2>1, <3>2 DEF SendSide, SenderInv
    <3>3. QED
      BY <2>3, <3>1, <3>2
  <2>5. ASSUME NEW n \in Msg, n # m
        PROVE  /\ sendPc'[n] = "idle" => cursor'[n] = 0
               /\ sendPc'[n] \in {"loop", "publish", "backoff"} => cursor'[n] < Chunks[n.body]
               /\ sendPc'[n] = "ok" => cursor'[n] = Chunks[n.body]
    BY <1>1, <2>1, <2>5 DEF SendSide, SenderInv
  <2>6. QED
    BY <2>2, <2>4, <2>5 DEF SenderInv
<1>8. StoreInv'
  <2>1. \A n \in Msg : sendPc'[n] = "idle" => sendPc[n] = "idle"
    BY <1>1, <1>5 DEF SendSide, SenderTypeOK
  <2>2. sendPc'[m] # "idle"
    BY <1>1, <1>5 DEF SendSide, SenderTypeOK
  <2>3. \A w \in stored : w.msg \in Msg
    BY <1>4 DEF Wrap
  <2>4. QED
    BY <1>1, <1>3, <1>4, <2>1, <2>2, <2>3 DEF SendSide, StoreInv, Indices
<1>9. PumpTypeOK'
  BY <1>1 DEF PumpSide, PumpTypeOK, PublishAccepted, pumpVars, Indices
<1>10. PumpSide'
  BY <1>1, <1>4, <1>9, PumpSideFrame DEF PublishAccepted, pumpVars
<1>11. Shared'
  <2>1. \A p \in Party : pending'[p] \subseteq pending[p] \cup {WrapOf(m)}
    BY <1>1 DEF Shared, PublishAccepted
  <2>2. \A p \in Party : WrapOf(m) \in pending'[p] => WrapOf(m) \in pending[p] \/ p = m.to
    BY <1>1 DEF Shared, PublishAccepted
  <2>3. pending' \in [Party -> SUBSET Wrap]
    BY <1>1, <1>3 DEF Shared, PublishAccepted
  <2>4. PendingInv'
    BY <1>1, <1>3, <1>4, <2>1, <2>2 DEF Shared, PendingInv
  <2>5. QED
    BY <1>1, <2>3, <2>4 DEF Shared, PublishAccepted, Wrap
<1>12. QED
  BY <1>6, <1>7, <1>8, <1>10, <1>11, Sides DEF SendSide

\* Steps of the pump that touch neither the assembler nor the history.
LEMMA SubscriptionStep ==
  ASSUME IInv, NEW p \in Party,
         \/ Start(p) \/ Stop(p) \/ Subscribe(p) \/ Disconnect(p)
         \/ Resubscribe(p) \/ HandlerReturns(p)
  PROVE  IInv'
<1> USE DEF Start, Stop, Subscribe, Disconnect, Resubscribe, HandlerReturns
<1>1. SendSide /\ PumpSide /\ Shared
  BY Sides
<1>2. SendSide' /\ UNCHANGED stored
  BY <1>1, SendSideFrame DEF senderVars
<1>3. PumpTypeOK'
  <2>1. /\ pumpPc' \in [Party -> {"init", "subscribe", "select", "handler", "backoff", "stopped"}]
        /\ drops' \in [Party -> Nat]
    <3>1. \/ drops' = drops
          \/ drops' = [drops EXCEPT ![p] = drops[p] + 1]
      OBVIOUS
    <3>2. \E pc \in {"subscribe", "select", "backoff", "stopped"} :
            pumpPc' = [pumpPc EXCEPT ![p] = pc]
      OBVIOUS
    <3> HIDE DEF Start, Stop, Subscribe, Disconnect, Resubscribe, HandlerReturns
    <3>3. /\ drops \in [Party -> Nat]
          /\ pumpPc \in [Party -> {"init", "subscribe", "select", "handler", "backoff", "stopped"}]
      BY <1>1 DEF PumpSide, PumpTypeOK
    <3>4. drops' \in [Party -> Nat]
      BY <3>1, <3>3
    <3>5. QED
      BY <3>2, <3>3, <3>4
  <2>2. since' \in [Party -> Int]
    <3>1. now - Lookback \in Int
      BY <1>1 DEF Shared
    <3>2. QED
      BY <1>1, <3>1 DEF PumpSide, PumpTypeOK
  <2>3. UNCHANGED <<buffer, processed, handed>>
    OBVIOUS
  <2>4. QED
    BY <1>1, <2>1, <2>2, <2>3 DEF PumpSide, PumpTypeOK, Indices
<1>4. PumpSide'
  BY <1>1, <1>2, <1>3, PumpSideFrame
<1>5. Shared'
  <2>1. \/ pending' = pending
        \/ pending' = [pending EXCEPT ![p] = {}]
        \/ pending' = [pending EXCEPT ![p] = Matching(p)]
    OBVIOUS
  <2>2. Matching(p) \subseteq {w \in stored : w.msg.to = p} /\ stored \subseteq Wrap
    BY <1>1 DEF Matching, SendSide, SenderTypeOK
  <2>3. pending' \in [Party -> SUBSET Wrap]
    BY <1>1, <2>1, <2>2 DEF Shared
  <2>4. PendingInv'
    BY <1>1, <1>2, <2>1, <2>2 DEF Shared, PendingInv
  <2>5. UNCHANGED <<now, cancelled>>
    OBVIOUS
  <2>6. QED
    BY <1>1, <2>3, <2>4, <2>5 DEF Shared, Wrap
<1>6. QED
  BY <1>2, <1>4, <1>5, Sides

\* Cleanup only empties states.
LEMMA CleanupStep == ASSUME IInv, NEW p \in Party, Cleanup(p)  PROVE IInv'
<1>1. SendSide /\ PumpSide /\ Shared
  BY Sides
<1>2. SendSide' /\ UNCHANGED <<stored, processed, handed>>
  BY <1>1, SendSideFrame DEF Cleanup, senderVars
<1>3. \A q \in Party, b \in Body : buffer'[q][b] \in {buffer[q][b], NoState}
  BY <1>1 DEF PumpSide, PumpTypeOK, Cleanup
<1>4. PumpTypeOK'
  <2>1. buffer' \in [Party -> [Body -> [parts : SUBSET Nat, deadline : Nat]]]
    BY <1>1 DEF PumpSide, PumpTypeOK, Cleanup, NoState
  <2>2. \A q \in Party, b \in Body : buffer'[q][b].parts \subseteq Indices(b)
    BY <1>1, <1>3, NoStateIsEmpty DEF PumpSide, PumpTypeOK
  <2>3. QED
    BY <1>1, <2>1, <2>2 DEF PumpSide, PumpTypeOK, Cleanup, Indices
<1>5. BufferInv'
  BY <1>1, <1>2, <1>3 DEF PumpSide, BufferInv, Published, NoState
<1>6. (ProcessedInv /\ OnlyWholeBodies)'
  BY <1>1, <1>2 DEF PumpSide, ProcessedInv, OnlyWholeBodies, Published, Indices
<1>7. NoLeftovers'
  <2>1. \A q \in Party, b \in Body :
          /\ b \in processed'[q] => buffer'[q][b] = NoState
          /\ buffer'[q][b].parts # {} => Cardinality(buffer'[q][b].parts) < Chunks[b]
    BY <1>1, <1>2, <1>3, NoStateIsEmpty DEF PumpSide, NoLeftovers
  <2>2. QED
    BY <2>1 DEF NoLeftovers, NoState
<1>8. Shared'
  BY <1>1 DEF Shared, PendingInv, Cleanup, senderVars, Wrap
<1>9. QED
  BY <1>2, <1>4, <1>5, <1>6, <1>7, <1>8, Sides DEF PumpSide

\* A wrap is skipped, its chunk is kept, or it completes its body.
LEMMA ReceiveStep ==
  ASSUME IInv, NEW p \in Party, NEW w \in pending[p], Receive(p, w)
  PROVE  IInv'
<1> DEFINE b == w.msg.body
           state == Collect(buffer[p][b], w.index)
<1>1. SendSide /\ PumpSide /\ Shared
  BY Sides
<1>2. SendSide' /\ UNCHANGED <<now, cancelled, stored>>
  BY <1>1, SendSideFrame DEF Receive, senderVars
<1>3. Shared'
  <2>1. pending' = [pending EXCEPT ![p] = @ \ {w}]
    BY DEF Receive
  <2>2. pending' \in [Party -> SUBSET Wrap] /\ PendingInv'
    BY <1>1, <1>2, <2>1 DEF Shared, PendingInv
  <2>3. QED
    BY <1>1, <1>2, <2>2 DEF Shared, Wrap
<1>4. CASE ~Wanted(p, w)
  <2>1. UNCHANGED <<pumpPc, since, drops, buffer, processed, handed>>
    BY <1>4 DEF Receive
  <2>2. PumpTypeOK'
    BY <1>1, <2>1 DEF PumpSide, PumpTypeOK, Indices
  <2>3. QED
    BY <1>1, <1>2, <1>3, <2>1, <2>2, PumpSideFrame, Sides
<1>5. CASE Wanted(p, w)
  <2> HIDE DEF b, state
  <2>1. /\ b \in Body
        /\ state \in [parts : SUBSET Nat, deadline : Nat]
        /\ state.parts \subseteq Indices(b)
        /\ \A i \in state.parts : Published(p, b, i)
    BY <1>5, CollectFacts DEF b, state
  <2>2. b \notin processed[p]
    BY <1>5 DEF Wanted, b
  <2>3. Keep(p, b, state) \/ Deliver(p, b, state)
    BY <1>5 DEF Receive, b, state
  <2>4. UNCHANGED <<since, drops>>
    BY DEF Receive
  <2>5. \A q \in Party, d \in Body : q # p \/ d # b => buffer'[q][d] = buffer[q][d]
    BY <1>1, <2>1, <2>3 DEF PumpSide, PumpTypeOK, Keep, Deliver
  <2>6. buffer'[p][b] \in {state, NoState}
    BY <1>1, <2>1, <2>3 DEF PumpSide, PumpTypeOK, Keep, Deliver
  <2>7. buffer' \in [Party -> [Body -> [parts : SUBSET Nat, deadline : Nat]]]
    <3>1. NoState \in [parts : SUBSET Nat, deadline : Nat]
      BY DEF NoState
    <3>2. buffer' = [buffer EXCEPT ![p][b] = state] \/ buffer' = [buffer EXCEPT ![p][b] = NoState]
      BY <2>3 DEF Keep, Deliver
    <3>3. buffer \in [Party -> [Body -> [parts : SUBSET Nat, deadline : Nat]]]
      BY <1>1 DEF PumpSide, PumpTypeOK
    <3> DEFINE State == [parts : SUBSET Nat, deadline : Nat]
    <3>4. ASSUME NEW v \in State, buffer' = [buffer EXCEPT ![p][b] = v]
          PROVE  buffer' \in [Party -> [Body -> State]]
      <4>1. b \in Body /\ buffer \in [Party -> [Body -> State]]
        BY <2>1, <3>3
      <4> HIDE DEF State
      <4>2. [buffer EXCEPT ![p][b] = v] \in [Party -> [Body -> State]]
        BY <4>1, UpdateType
      <4>3. QED
        BY <3>4, <4>2
    <3>5. QED
      BY <2>1, <3>1, <3>2, <3>4
  <2>8. \A q \in Party, d \in Body : buffer'[q][d].parts \subseteq Indices(d)
    BY <1>1, <2>1, <2>5, <2>6, NoStateIsEmpty DEF PumpSide, PumpTypeOK
  <2>9. BufferInv'
    BY <1>1, <1>2, <2>1, <2>5, <2>6 DEF PumpSide, BufferInv, Published, NoState
  <2>10. CASE Keep(p, b, state)
    <3>1. UNCHANGED <<pumpPc, processed, handed>> /\ ~Complete(state, b)
      BY <2>10 DEF Keep
    <3>2. PumpTypeOK'
      BY <1>1, <2>4, <2>7, <2>8, <3>1 DEF PumpSide, PumpTypeOK, Indices
    <3>3. (ProcessedInv /\ OnlyWholeBodies)'
      BY <1>1, <1>2, <3>1 DEF PumpSide, ProcessedInv, OnlyWholeBodies, Published, Indices
    <3>4. Cardinality(state.parts) < Chunks[b]
      BY <2>1, <3>1, IncompleteMeansFewer
    <3>5. NoLeftovers'
      <4>1. SUFFICES ASSUME NEW q \in Party, NEW d \in Body
                     PROVE  /\ d \in processed[q] => buffer'[q][d] = NoState
                            /\ buffer'[q][d].parts # {}
                                 => Cardinality(buffer'[q][d].parts) < Chunks[d]
        BY <3>1 DEF NoLeftovers
      <4>2. CASE q = p /\ d = b
        BY <2>2, <2>6, <3>4, <4>2, NoStateIsEmpty
      <4>3. CASE q # p \/ d # b
        BY <1>1, <2>5, <4>1, <4>3 DEF PumpSide, NoLeftovers
      <4>4. QED
        BY <4>2, <4>3
    <3>6. QED
      BY <1>2, <1>3, <2>9, <3>2, <3>3, <3>5, Sides DEF PumpSide
  <2>11. CASE Deliver(p, b, state)
    <3>1. /\ processed' = [processed EXCEPT ![p] = processed[p] \cup {b}]
          /\ handed' = [handed EXCEPT ![p][b] = handed[p][b] + 1]
          /\ pumpPc' = [pumpPc EXCEPT ![p] = "handler"]
          /\ buffer' = [buffer EXCEPT ![p][b] = NoState]
          /\ Complete(state, b)
      BY <2>11 DEF Deliver
    <3>2. handed[p][b] = 0
      BY <1>1, <2>1, <2>2 DEF PumpSide, ProcessedInv
    <3>3. processed' \in [Party -> SUBSET Body] /\ handed' \in [Party -> [Body -> Nat]]
      BY <1>1, <2>1, <3>1 DEF PumpSide, PumpTypeOK
    <3>4. PumpTypeOK'
      BY <1>1, <2>4, <2>7, <2>8, <3>1, <3>3 DEF PumpSide, PumpTypeOK, Indices
    <3>5. ProcessedInv'
      BY <1>1, <2>1, <3>1, <3>2 DEF PumpSide, PumpTypeOK, ProcessedInv
    <3>6. \A i \in Indices(b) : Published(p, b, i)
      BY <2>1, <3>1, CompleteMeansAll
    <3>7. OnlyWholeBodies'
      <4>1. \A q \in Party, d \in Body : q # p \/ d # b => handed'[q][d] = handed[q][d]
        BY <1>1, <2>1, <3>1 DEF PumpSide, PumpTypeOK
      <4>2. \A q \in Party, d \in Body : handed'[q][d] > 0 => \A i \in Indices(d) : Published(q, d, i)
        BY <1>1, <3>6, <4>1 DEF PumpSide, OnlyWholeBodies
      <4>3. QED
        BY <1>2, <4>2 DEF OnlyWholeBodies, Published, Indices
    <3>8. NoLeftovers'
      <4>1. \A q \in Party, d \in Body :
              (q # p \/ d # b) /\ d \in processed'[q] => d \in processed[q]
        BY <1>1, <3>1 DEF PumpSide, PumpTypeOK
      <4>2. buffer'[p][b] = NoState
        BY <1>1, <2>1, <3>1 DEF PumpSide, PumpTypeOK
      <4>3. \A q \in Party, d \in Body :
              /\ d \in processed'[q] => buffer'[q][d] = NoState
              /\ buffer'[q][d].parts # {} => Cardinality(buffer'[q][d].parts) < Chunks[d]
        BY <1>1, <2>5, <4>1, <4>2, NoStateIsEmpty DEF PumpSide, NoLeftovers
      <4>4. QED
        BY <4>3 DEF NoLeftovers, NoState
    <3>9. QED
      BY <1>2, <1>3, <2>9, <3>4, <3>5, <3>7, <3>8, Sides DEF PumpSide
  <2>12. QED
    BY <2>3, <2>10, <2>11
<1>6. QED
  BY <1>4, <1>5

-----------------------------------------------------------------------------
(* Theorems *)

\* Every step keeps the invariant.
LEMMA NextIInv == IInv /\ [Next]_vars => IInv'
<1> SUFFICES ASSUME IInv, [Next]_vars  PROVE IInv'
  OBVIOUS
<1>1. CASE Tick \/ \E p \in Party : Cancel(p)
  BY <1>1, ClockStep
<1>2. ASSUME NEW m \in Msg, Sender(m)  PROVE IInv'
  BY <1>2, LocalSendStep, PublishStep DEF Sender
<1>3. ASSUME NEW p \in Receiver, Pump(p)  PROVE IInv'
  <2>1. p \in Party
    BY DEF Receiver
  <2>2. QED
    BY <1>3, <2>1, SubscriptionStep, CleanupStep, ReceiveStep DEF Pump
<1>4. CASE UNCHANGED vars
  <2>1. SendSide /\ PumpSide /\ Shared
    BY Sides
  <2>2. UNCHANGED <<senderVars, pumpVars, now, cancelled, pending>>
    BY <1>4 DEF vars, senderVars, pumpVars
  <2>3. PumpTypeOK'
    BY <2>1, <2>2 DEF PumpSide, PumpTypeOK, pumpVars, Indices
  <2>4. PumpSide'
    BY <2>1, <2>2, <2>3, PumpSideFrame DEF pumpVars, senderVars
  <2>5. Shared'
    BY <2>1, <2>2 DEF Shared, PendingInv, senderVars, Wrap
  <2>6. QED
    BY <2>1, <2>2, <2>4, <2>5, SendSideFrame, Sides
<1>5. QED
  BY <1>1, <1>2, <1>3, <1>4 DEF Next

\* The inductive invariant holds in every reachable state.
THEOREM Invariance == Spec => []IInv
  BY InitIInv, NextIInv, PTL DEF Spec

\* Type correctness, for any parties, bodies, messages and bounds: above all, an
\* assembler never holds a chunk index its body does not have.
THEOREM TypeCorrect == Spec => []TypeOK
<1>1. IInv => TypeOK
  BY DEF IInv
<1>2. QED
  BY <1>1, Invariance, PTL

\* However messages are retried, duplicated at the relays and replayed by new
\* subscriptions, no body reaches a handler twice.
THEOREM HandedAtMostOnce == Spec => []AtMostOnce
<1>1. IInv => AtMostOnce
  BY DEF IInv, ProcessedInv, AtMostOnce
<1>2. QED
  BY <1>1, Invariance, PTL

\* Only bodies all of whose chunks a peer published are handed over.
THEOREM HandedWhole == Spec => []OnlyWholeBodies
<1>1. IInv => OnlyWholeBodies
  BY DEF IInv
<1>2. QED
  BY <1>1, Invariance, PTL

\* When SendMessage returns nil, the relays hold every chunk of the message.
THEOREM OkIsPublished == Spec => []OkMeansPublished
<1>1. IInv => OkMeansPublished
  BY DEF IInv, SenderInv, OkMeansPublished, Indices
<1>2. QED
  BY <1>1, Invariance, PTL

\* The assembler forgets what was handed over and never sits on a whole body.
THEOREM AssemblerForgets == Spec => []NoLeftovers
<1>1. IInv => NoLeftovers
  BY DEF IInv
<1>2. QED
  BY <1>1, Invariance, PTL

\* Only the chunk that completes a body counts it as handed over, and a state
\* that is new or expired starts over with that chunk alone.
LEMMA DeliverInTime ==
  ASSUME IInv, NEW p \in Party, NEW w \in pending[p], Receive(p, w),
         NEW q \in Party, NEW b \in Body, handed'[q][b] > handed[q][b], Chunks[b] > 1
  PROVE  now <= buffer[q][b].deadline
<1> DEFINE c == w.msg.body
           state == Collect(buffer[p][c], w.index)
<1>1. Deliver(p, c, state)
  <2>1. handed[q][b] \in Nat
    BY DEF IInv, TypeOK, PumpTypeOK
  <2>2. handed' # handed
    BY <2>1
  <2>3. QED
    BY <2>2 DEF Receive, Keep
<1>2. handed \in [Party -> [Body -> Nat]]
  BY DEF IInv, TypeOK, PumpTypeOK
<1>3. q = p /\ b = c
  <2>1. handed' = [handed EXCEPT ![p][c] = @ + 1] /\ handed[q][b] \in Nat
    BY <1>1, <1>2 DEF Deliver
  <2>2. handed'[q][b] # handed[q][b]
    BY <2>1
  <2>3. QED
    BY <1>2, <2>1, <2>2
<1>4. state.parts # {w.index}
  <2> SUFFICES ASSUME state.parts = {w.index}  PROVE FALSE
    OBVIOUS
  <2>1. Cardinality(state.parts) = Chunks[b]
    BY <1>1, <1>3 DEF Deliver, Complete
  <2> HIDE DEF state
  <2>2. Cardinality(state.parts) = Cardinality({w.index})
    OBVIOUS
  <2>3. Chunks[b] = 1
    BY <2>1, <2>2, FS_Singleton
  <2>4. QED
    BY <2>3
<1>5. ~(now > buffer[p][c].deadline)
  BY <1>4 DEF Collect
<1>6. now \in Nat /\ buffer[q][b].deadline \in Nat
  BY DEF IInv, TypeOK, PumpTypeOK
<1>7. QED
  BY <1>3, <1>5, <1>6

\* A body is never completed with chunks whose deadline had passed, although
\* Cleanup may not have run since.
THEOREM CompletesInTime == Spec => CompletedInTime
<1> DEFINE InTime(p, b) == (handed'[p][b] > handed[p][b] /\ Chunks[b] > 1)
                             => now <= buffer[p][b].deadline
<1>1. IInv /\ [Next]_vars => \A p \in Party, b \in Body : InTime(p, b)
  <2> SUFFICES ASSUME IInv, [Next]_vars, NEW q \in Party, NEW b \in Body,
                      handed'[q][b] > handed[q][b], Chunks[b] > 1
               PROVE  now <= buffer[q][b].deadline
    OBVIOUS
  <2>1. handed' # handed
    <3>1. handed[q][b] \in Nat
      BY DEF IInv, TypeOK, PumpTypeOK
    <3>2. QED
      BY <3>1
  <2>2. PICK p \in Receiver : Pump(p)
    <3>1. ~Tick /\ ~(\E p \in Party : Cancel(p)) /\ ~UNCHANGED vars
      BY <2>1 DEF Tick, Cancel, vars, pumpVars
    <3>2. ~(\E m \in Msg : Sender(m))
      BY <2>1 DEF Sender, Begin, CheckContext, PublishAccepted, PublishRejected, Retry, pumpVars
    <3>3. QED
      BY <3>1, <3>2 DEF Next
  <2>3. PICK w \in pending[p] : Receive(p, w)
    BY <2>1, <2>2 DEF Pump, Start, Stop, Subscribe, Disconnect, Resubscribe, Cleanup,
                      HandlerReturns
  <2>4. p \in Party
    BY DEF Receiver
  <2>5. QED
    BY <2>3, <2>4, DeliverInTime
<1>2. QED
  BY <1>1, Invariance, PTL DEF Spec, CompletedInTime

\* NostrTransport implements MessageDelivery: beginning a call is its Send, the
\* completion of a body its HandOver, and every other step stutters.
THEOREM ImplementsDelivery == Spec => DeliverySpec
<1> DEFINE begun == {m \in Msg : sendPc[m] # "idle"}
<1>1. Init => Delivery!AInit
  BY DEF Init, Delivery!AInit
<1>2. IInv /\ [Next]_vars => [Delivery!ANext]_<<begun, handed>>
  <2> SUFFICES ASSUME IInv, [Next]_vars
               PROVE  Delivery!ANext \/ UNCHANGED <<begun, handed>>
    OBVIOUS
  <2>0. sendPc \in [Msg -> {"idle", "loop", "publish", "backoff", "ok", "error"}]
    BY DEF IInv, TypeOK, SenderTypeOK
  <2>1. CASE Tick \/ \E p \in Party : Cancel(p)
    BY <2>1 DEF Tick, Cancel, senderVars, pumpVars
  <2>2. ASSUME NEW m \in Msg, Begin(m)
        PROVE  Delivery!ANext
    <3>1. m \notin begun /\ begun' = begun \cup {m} /\ UNCHANGED handed
      BY <2>0, <2>2 DEF Begin, pumpVars
    <3>2. QED
      BY <3>1 DEF Delivery!ANext, Delivery!Send
  <2>3. ASSUME NEW m \in Msg,
               CheckContext(m) \/ PublishAccepted(m) \/ PublishRejected(m) \/ Retry(m)
        PROVE  UNCHANGED <<begun, handed>>
    <3>1. UNCHANGED handed
      BY <2>3 DEF CheckContext, PublishAccepted, PublishRejected, Retry, pumpVars
    <3>2. sendPc[m] # "idle" /\ \E pc \in {"loop", "publish", "backoff", "ok", "error"} :
                                 sendPc' = [sendPc EXCEPT ![m] = pc]
      BY <2>3 DEF CheckContext, PublishAccepted, PublishRejected, Retry, Confirmed, Unconfirmed
    <3>3. \A n \in Msg : sendPc'[n] = "idle" <=> sendPc[n] = "idle"
      BY <2>0, <3>2
    <3>4. QED
      BY <3>1, <3>3
  <2>4. ASSUME NEW p \in Party,
               \/ Start(p) \/ Stop(p) \/ Subscribe(p) \/ Disconnect(p)
               \/ Resubscribe(p) \/ Cleanup(p) \/ HandlerReturns(p)
        PROVE  UNCHANGED <<begun, handed>>
    BY <2>4 DEF Start, Stop, Subscribe, Disconnect, Resubscribe, Cleanup, HandlerReturns, senderVars
  <2>5. ASSUME NEW p \in Party, NEW w \in pending[p], Receive(p, w)
        PROVE  Delivery!ANext \/ UNCHANGED <<begun, handed>>
    <3> DEFINE b == w.msg.body
               state == Collect(buffer[p][b], w.index)
    <3>1. UNCHANGED begun
      BY <2>5 DEF Receive, senderVars
    <3>2. CASE Wanted(p, w) /\ Deliver(p, b, state)
      <4>1. w \in stored /\ w.msg.to = p /\ w \in Wrap
        BY DEF IInv, PendingInv, TypeOK
      <4>2. w.msg \in begun /\ b \in Body /\ w.msg.from \in Peers[p]
        BY <3>2, <4>1 DEF Wrap, IInv, StoreInv, Wanted
      <4>3. handed[p][b] = 0
        BY <3>2, <4>2 DEF IInv, ProcessedInv, Wanted
      <4>4. handed' = [handed EXCEPT ![p][b] = 1]
        BY <3>2, <4>3 DEF Deliver
      <4>5. QED
        BY <3>1, <4>1, <4>2, <4>3, <4>4 DEF Delivery!ANext, Delivery!HandOver
    <3>3. CASE ~(Wanted(p, w) /\ Deliver(p, b, state))
      <4>1. UNCHANGED handed
        BY <2>5, <3>3 DEF Receive, Keep
      <4>2. QED
        BY <3>1, <4>1
    <3>4. QED
      BY <3>2, <3>3
  <2>6. CASE UNCHANGED vars
    BY <2>6 DEF vars
  <2>7. ASSUME NEW p \in Receiver, Pump(p)
        PROVE  Delivery!ANext \/ UNCHANGED <<begun, handed>>
    <3>1. p \in Party
      BY DEF Receiver
    <3>2. QED
      BY <2>4, <2>5, <2>7, <3>1 DEF Pump
  <2>8. QED
    BY <2>1, <2>2, <2>3, <2>6, <2>7 DEF Next, Sender
<1>3. QED
  BY <1>1, <1>2, Invariance, PTL DEF Spec, DeliverySpec, Delivery!ASpec, Delivery!avars
-----------------------------------------------------------------------------
(* Nothing that was published in time is lost on the way *)

\* The wraps that can make up body b for p, and whether its deadline can have
\* passed for the first of them.
WrapsFor(p, b) == {w \in stored : w.msg.to = p /\ w.msg.from \in Peers[p] /\ w.msg.body = b}
Recent(p, b) == \A w \in WrapsFor(p, b) : w.at + ChunkTTL >= now

\* Wraps are not made in the future, and the deadline of a chunkState is not
\* before that of a wrap it may have begun with.
ClockInv == \A w \in stored : w.at <= now
DeadlineInv ==
  \A p \in Party, b \in Body :
    buffer[p][b].parts # {} => \E w \in WrapsFor(p, b) : w.at + ChunkTTL <= buffer[p][b].deadline

\* While the pump is subscribed, a wrap its filter matches is on its way, its chunk
\* is in the assembler, or its body was handed over.
Accounted(p, w) == \/ w \in pending[p]
                   \/ w.msg.body \in processed[p]
                   \/ w.index \in buffer[p][w.msg.body].parts
Kept(p, b) == pumpPc[p] \in {"select", "handler"} =>
                \A w \in WrapsFor(p, b) : w.at >= since[p] => Accounted(p, w)
KeptInv == \A p \in Party, b \in Body : Recent(p, b) => Kept(p, b)

FlowInv == ClockInv /\ DeadlineInv /\ KeptInv

LEMMA FlowInit == Init => FlowInv
  BY DEF Init, FlowInv, ClockInv, DeadlineInv, KeptInv, Kept, WrapsFor, NoState

\* What is recent after a step was so before it.
LEMMA RecentBefore ==
  ASSUME IInv, now' \in Nat, now <= now', stored \subseteq stored',
         NEW p \in Party, NEW b \in Body, Recent(p, b)'
  PROVE  Recent(p, b)
<1>1. \A w \in stored : w \in stored' /\ w.at \in Nat
  BY DEF IInv, TypeOK, SenderTypeOK, Wrap
<1>2. now \in Nat /\ ChunkTTL \in Nat
  BY DEF IInv, TypeOK
<1>3. \A w \in WrapsFor(p, b) : w \in WrapsFor(p, b)' /\ w.at \in Nat
  BY <1>1 DEF WrapsFor
<1>4. QED
  BY <1>2, <1>3 DEF Recent

\* A step that changes neither relays nor pumps.
LEMMA FlowQuiet ==
  ASSUME IInv, FlowInv, now' \in Nat, now <= now',
         UNCHANGED <<stored, pumpPc, since, pending, buffer, processed>>
  PROVE  FlowInv'
<1>1. ClockInv'
  <2>1. \A w \in stored : w.at \in Nat
    BY DEF IInv, TypeOK, SenderTypeOK, Wrap
  <2>2. now \in Nat
    BY DEF IInv, TypeOK
  <2>3. QED
    BY <2>1, <2>2 DEF FlowInv, ClockInv
<1>2. DeadlineInv'
  BY DEF FlowInv, DeadlineInv, WrapsFor
<1>3. KeptInv'
  <2>1. \A p \in Party, b \in Body : Recent(p, b)' => Recent(p, b)
    BY RecentBefore
  <2>2. \A p \in Party, b \in Body : Kept(p, b) => Kept(p, b)'
    BY DEF Kept, WrapsFor, Accounted
  <2>3. QED
    BY <2>1, <2>2 DEF FlowInv, KeptInv
<1>4. QED
  BY <1>1, <1>2, <1>3 DEF FlowInv

\* A relay streams the new wrap to a subscription that is open.
LEMMA FlowPublish == ASSUME IInv, FlowInv, NEW m \in Msg, PublishAccepted(m)  PROVE FlowInv'
<1> DEFINE new == WrapOf(m)
<1>1. /\ stored' = stored \cup {new}
      /\ pending' = IF pumpPc[m.to] \in {"select", "handler"}
                      THEN [pending EXCEPT ![m.to] = @ \cup {new}] ELSE pending
      /\ UNCHANGED <<now, pumpPc, since, buffer, processed>>
  BY DEF PublishAccepted, pumpVars
<1>2. new.at = now /\ new.msg = m /\ m.to \in Party /\ now \in Nat
  BY DEF WrapOf, IInv, TypeOK
<1> HIDE DEF new
<1>3. ClockInv'
  BY <1>1, <1>2 DEF FlowInv, ClockInv
<1>4. DeadlineInv'
  BY <1>1 DEF FlowInv, DeadlineInv, WrapsFor
<1>5. KeptInv'
  <2>1. SUFFICES ASSUME NEW p \in Party, NEW b \in Body, Recent(p, b)',
                        pumpPc[p] \in {"select", "handler"}, NEW w \in WrapsFor(p, b)', w.at >= since[p]
                 PROVE  Accounted(p, w)'
    BY <1>1 DEF KeptInv, Kept
  <2>2. Kept(p, b)
    BY <1>1, <1>2, <2>1, RecentBefore DEF FlowInv, KeptInv
  <2>3. pending \in [Party -> SUBSET Wrap]
    BY DEF IInv, TypeOK
  <2>4. CASE w = new
    <3>1. p = m.to
      BY <1>2, <2>1, <2>4 DEF WrapsFor
    <3>2. w \in pending'[p]
      BY <1>1, <1>2, <2>1, <2>3, <2>4, <3>1
    <3>3. QED
      BY <3>2 DEF Accounted
  <2>5. CASE w \in stored
    <3>1. w \in WrapsFor(p, b)
      BY <2>1, <2>5 DEF WrapsFor
    <3>2. Accounted(p, w)
      BY <2>1, <2>2, <3>1 DEF Kept
    <3>3. pending[p] \subseteq pending'[p]
      BY <1>1, <1>2, <2>3
    <3>4. QED
      BY <1>1, <3>2, <3>3 DEF Accounted
  <2>6. QED
    BY <1>1, <2>1, <2>4, <2>5 DEF WrapsFor
<1>6. QED
  BY <1>3, <1>4, <1>5 DEF FlowInv

\* A subscription starts with everything its filter matches; one that ends leaves
\* nothing to account for.
LEMMA FlowSubscription ==
  ASSUME IInv, FlowInv, NEW p \in Party,
         \/ Start(p) \/ Stop(p) \/ Subscribe(p) \/ Disconnect(p)
         \/ Resubscribe(p) \/ HandlerReturns(p)
  PROVE  FlowInv'
<1>1. UNCHANGED <<now, stored, buffer, processed>>
  BY DEF Start, Stop, Subscribe, Disconnect, Resubscribe, HandlerReturns, senderVars
<1>2. ClockInv' /\ DeadlineInv'
  BY <1>1 DEF FlowInv, ClockInv, DeadlineInv, WrapsFor
<1>3. /\ pumpPc \in [Party -> {"init", "subscribe", "select", "handler", "backoff", "stopped"}]
      /\ since \in [Party -> Int] /\ pending \in [Party -> SUBSET Wrap] /\ now \in Nat
  BY DEF IInv, TypeOK, PumpTypeOK
<1>4. \A q \in Party \ {p} : pumpPc'[q] = pumpPc[q] /\ since'[q] = since[q] /\ pending'[q] = pending[q]
  BY <1>3 DEF Start, Stop, Subscribe, Disconnect, Resubscribe, HandlerReturns
<1>5. \/ pumpPc'[p] \notin {"select", "handler"}
      \/ pumpPc'[p] = "select" /\ since'[p] = since[p] /\ pending'[p] = Matching(p)
      \/ /\ pumpPc[p] = "handler" /\ pumpPc'[p] = "select" /\ since'[p] = since[p]
         /\ pending'[p] = pending[p]
  <2>1. CASE Subscribe(p)
    BY <1>3, <2>1 DEF Subscribe
  <2>2. CASE HandlerReturns(p)
    BY <1>3, <2>2 DEF HandlerReturns
  <2>3. CASE Start(p) \/ Stop(p) \/ Disconnect(p) \/ Resubscribe(p)
    BY <1>3, <2>3 DEF Start, Stop, Disconnect, Resubscribe
  <2>4. QED
    BY <2>1, <2>2, <2>3
<1>6. KeptInv'
  <2>1. SUFFICES ASSUME NEW q \in Party, NEW b \in Body, Recent(q, b)'
                 PROVE  Kept(q, b)'
    BY DEF KeptInv
  <2>2. Kept(q, b)
    BY <1>1, <1>3, <2>1, RecentBefore DEF FlowInv, KeptInv
  <2>3. CASE q # p
    BY <1>1, <1>4, <2>2, <2>3 DEF Kept, WrapsFor, Accounted
  <2>4. CASE q = p
    <3>1. CASE pumpPc'[p] \notin {"select", "handler"}
      BY <2>4, <3>1 DEF Kept
    <3>2. CASE pumpPc'[p] = "select" /\ since'[p] = since[p] /\ pending'[p] = Matching(p)
      BY <1>1, <2>4, <3>2 DEF Kept, WrapsFor, Accounted, Matching
    <3>3. CASE pumpPc[p] = "handler" /\ since'[p] = since[p] /\ pending'[p] = pending[p]
      BY <1>1, <2>2, <2>4, <3>3 DEF Kept, WrapsFor, Accounted
    <3>4. QED
      BY <1>5, <3>1, <3>2, <3>3
  <2>5. QED
    BY <2>3, <2>4
<1>7. QED
  BY <1>2, <1>6 DEF FlowInv

\* The state of a body whose wraps are recent has not expired.
LEMMA NotExpired ==
  ASSUME IInv, DeadlineInv, NEW p \in Party, NEW b \in Body, Recent(p, b),
         buffer[p][b].parts # {}
  PROVE  now <= buffer[p][b].deadline
<1>1. PICK w \in WrapsFor(p, b) : w.at + ChunkTTL <= buffer[p][b].deadline
  BY DEF DeadlineInv
<1>2. w.at \in Nat /\ now \in Nat /\ ChunkTTL \in Nat
  BY DEF IInv, TypeOK, SenderTypeOK, Wrap, WrapsFor
<1>3. buffer[p][b].deadline \in Nat
  BY DEF IInv, TypeOK, PumpTypeOK
<1>4. now <= w.at + ChunkTTL
  BY <1>2 DEF Recent
<1>5. QED
  BY <1>1, <1>2, <1>3, <1>4

LEMMA FlowCleanup == ASSUME IInv, FlowInv, NEW p \in Party, Cleanup(p)  PROVE FlowInv'
<1>1. UNCHANGED <<now, stored, pumpPc, since, pending, processed>>
  BY DEF Cleanup, senderVars
<1>2. /\ buffer \in [Party -> [Body -> [parts : SUBSET Nat, deadline : Nat]]]
      /\ now \in Nat
  BY DEF IInv, TypeOK, PumpTypeOK
<1>3. \A q \in Party, b \in Body :
        \/ buffer'[q][b] = buffer[q][b]
        \/ buffer'[q][b] = NoState /\ now > buffer[q][b].deadline
  BY <1>2 DEF Cleanup
<1>4. ClockInv' /\ DeadlineInv'
  BY <1>1, <1>3, NoStateIsEmpty DEF FlowInv, ClockInv, DeadlineInv, WrapsFor
<1>5. KeptInv'
  <2>1. SUFFICES ASSUME NEW q \in Party, NEW b \in Body, Recent(q, b)'
                 PROVE  Kept(q, b)'
    BY DEF KeptInv
  <2>2. Recent(q, b) /\ Kept(q, b)
    BY <1>1, <1>2, <2>1, RecentBefore DEF FlowInv, KeptInv
  <2>3. buffer[q][b].parts \subseteq buffer'[q][b].parts
    <3>1. CASE buffer[q][b].parts = {}
      BY <3>1
    <3>2. CASE buffer[q][b].parts # {}
      <4>1. now <= buffer[q][b].deadline /\ buffer[q][b].deadline \in Nat
        BY <1>2, <2>2, <3>2, NotExpired DEF FlowInv
      <4>2. ~ (now > buffer[q][b].deadline)
        BY <1>2, <4>1
      <4>3. buffer'[q][b] = buffer[q][b]
        BY <1>3, <2>1, <4>2
      <4>4. QED
        BY <4>3
    <3>3. QED
      BY <3>1, <3>2
  <2>4. QED
    BY <1>1, <2>2, <2>3 DEF Kept, WrapsFor, Accounted
<1>6. QED
  BY <1>4, <1>5 DEF FlowInv

\* Reading a wrap accounts for it: it is unwanted because its body was handed over,
\* or its chunk is kept with those before it, or it completes the body.
LEMMA FlowReceive ==
  ASSUME IInv, FlowInv, NEW p \in Party, NEW w \in pending[p], Receive(p, w)
  PROVE  FlowInv'
<1> DEFINE b == w.msg.body
           old == buffer[p][b]
           state == Collect(old, w.index)
<1>1. /\ UNCHANGED <<now, stored, since>>
      /\ pumpPc[p] = "select" /\ pending' = [pending EXCEPT ![p] = @ \ {w}]
  BY DEF Receive, senderVars
<1>2. /\ buffer \in [Party -> [Body -> [parts : SUBSET Nat, deadline : Nat]]]
      /\ pumpPc \in [Party -> {"init", "subscribe", "select", "handler", "backoff", "stopped"}]
      /\ processed \in [Party -> SUBSET Body] /\ pending \in [Party -> SUBSET Wrap]
      /\ now \in Nat /\ ChunkTTL \in Nat
  BY DEF IInv, TypeOK, PumpTypeOK
<1>3. w \in stored /\ w.msg.to = p /\ b \in Body /\ w.at \in Nat /\ w.at <= now
  BY DEF IInv, PendingInv, TypeOK, SenderTypeOK, Wrap, FlowInv, ClockInv
<1>4. ClockInv'
  BY <1>1 DEF FlowInv, ClockInv
<1>5. \A q \in Party, c \in Body : WrapsFor(q, c)' = WrapsFor(q, c) /\ Recent(q, c)' = Recent(q, c)
  BY <1>1 DEF WrapsFor, Recent
<1>6. CASE ~Wanted(p, w)
  <2>1. UNCHANGED <<pumpPc, buffer, processed>>
    BY <1>6 DEF Receive
  <2>2. DeadlineInv'
    BY <1>1, <2>1 DEF FlowInv, DeadlineInv, WrapsFor
  <2>3. \A q \in Party, c \in Body : \A v \in WrapsFor(q, c) : Accounted(q, v) => Accounted(q, v)'
    <3>1. SUFFICES ASSUME NEW q \in Party, NEW c \in Body, NEW v \in WrapsFor(q, c), Accounted(q, v)
                   PROVE  Accounted(q, v)'
      OBVIOUS
    <3>2. CASE q = p /\ v = w
      BY <1>6, <2>1, <3>1, <3>2 DEF Wanted, WrapsFor, Accounted
    <3>3. CASE q # p \/ v # w
      <4>1. v \in pending[q] => v \in pending'[q]
        BY <1>1, <1>2, <3>3
      <4>2. QED
        BY <2>1, <3>1, <4>1 DEF Accounted
    <3>4. QED
      BY <3>2, <3>3
  <2>4. KeptInv'
    BY <1>1, <1>5, <2>1, <2>3 DEF FlowInv, KeptInv, Kept
  <2>5. QED
    BY <1>4, <2>2, <2>4 DEF FlowInv
<1>7. CASE Wanted(p, w)
  <2>1. Keep(p, b, state) \/ Deliver(p, b, state)
    BY <1>7 DEF Receive
  <2>2. w \in WrapsFor(p, b)
    BY <1>3, <1>7 DEF WrapsFor, Wanted
  <2>3. \/ (old.parts = {} \/ now > old.deadline) /\ state = [parts |-> {w.index}, deadline |-> now + ChunkTTL]
        \/ old.parts # {} /\ state = [old EXCEPT !.parts = @ \cup {w.index}]
    BY DEF Collect
  <2>4. old \in [parts : SUBSET Nat, deadline : Nat]
    BY <1>2, <1>3
  <2>5. w.index \in state.parts
    BY <2>3, <2>4
  <2>6. \E v \in WrapsFor(p, b) : v.at + ChunkTTL <= state.deadline
    <3>1. CASE state = [parts |-> {w.index}, deadline |-> now + ChunkTTL]
      BY <1>2, <1>3, <2>2, <3>1
    <3>2. CASE old.parts # {} /\ state = [old EXCEPT !.parts = @ \cup {w.index}]
      <4>1. state.deadline = old.deadline
        BY <2>4, <3>2
      <4>2. QED
        BY <1>3, <3>2, <4>1 DEF FlowInv, DeadlineInv
    <3>3. QED
      BY <2>3, <3>1, <3>2
  <2>7. Recent(p, b) => old.parts \subseteq state.parts
    <3>1. SUFFICES ASSUME Recent(p, b)  PROVE old.parts \subseteq state.parts
      OBVIOUS
    <3>2. CASE old.parts = {}
      BY <3>2
    <3>3. CASE old.parts # {}
      <4>1. now <= old.deadline
        BY <1>3, <3>1, <3>3, NotExpired DEF FlowInv
      <4>2. ~(now > old.deadline)
        BY <1>2, <2>4, <4>1
      <4>3. state = [old EXCEPT !.parts = @ \cup {w.index}]
        BY <2>3, <3>3, <4>2
      <4>4. QED
        BY <2>4, <4>3
    <3>4. QED
      BY <3>2, <3>3
  <2> HIDE DEF state
  <2>8. /\ buffer'[p][b] = state \/ (b \in processed'[p] /\ buffer'[p][b] = NoState)
        /\ \A q \in Party, c \in Body : (q # p \/ c # b) => buffer'[q][c] = buffer[q][c]
    <3>1. CASE Keep(p, b, state)
      BY <1>2, <1>3, <3>1 DEF Keep
    <3>2. CASE Deliver(p, b, state)
      BY <1>2, <1>3, <3>2 DEF Deliver
    <3>3. QED
      BY <2>1, <3>1, <3>2
  <2>9. \A q \in Party : processed[q] \subseteq processed'[q]
    <3>1. processed' = processed \/ processed' = [processed EXCEPT ![p] = processed[p] \cup {b}]
      BY <2>1 DEF Keep, Deliver
    <3>2. QED
      BY <1>2, <3>1
  <2>10. \A q \in Party : pumpPc'[q] \in {"select", "handler"} => pumpPc[q] \in {"select", "handler"}
    BY <1>1, <1>2, <2>1 DEF Keep, Deliver
  <2>11. DeadlineInv'
    <3>1. SUFFICES ASSUME NEW q \in Party, NEW c \in Body, buffer'[q][c].parts # {}
                   PROVE  \E v \in WrapsFor(q, c) : v.at + ChunkTTL <= buffer'[q][c].deadline
      BY <1>5 DEF DeadlineInv
    <3>2. CASE q = p /\ c = b
      BY <2>6, <2>8, <3>1, <3>2, NoStateIsEmpty
    <3>3. CASE q # p \/ c # b
      <4>1. buffer'[q][c] = buffer[q][c]
        BY <2>8, <3>3
      <4>2. QED
        BY <3>1, <4>1 DEF FlowInv, DeadlineInv
    <3>4. QED
      BY <3>2, <3>3
  <2>12. KeptInv'
    <3>1. SUFFICES ASSUME NEW q \in Party, NEW c \in Body, Recent(q, c),
                          pumpPc'[q] \in {"select", "handler"}, NEW v \in WrapsFor(q, c), v.at >= since[q]
                   PROVE  Accounted(q, v)'
      BY <1>1, <1>5 DEF KeptInv, Kept
    <3>2. Accounted(q, v)
      BY <2>10, <3>1 DEF FlowInv, KeptInv, Kept
    <3>3. v.msg.body = c
      BY <3>1 DEF WrapsFor
    <3>4. CASE q = p /\ c = b
      <4>1. v = w => v.index \in state.parts
        BY <2>5
      <4>2. v # w /\ v \in pending[q] => v \in pending'[q]
        BY <1>1, <1>2
      <4>3. v.index \in buffer[q][c].parts => v.index \in state.parts
        BY <2>7, <3>1, <3>4
      <4>4. QED
        BY <2>8, <2>9, <3>1, <3>2, <3>3, <3>4, <4>1, <4>2, <4>3 DEF Accounted
    <3>5. CASE q # p \/ c # b
      <4>1. buffer'[q][c] = buffer[q][c]
        BY <2>8, <3>5
      <4>2. v # w \/ q # p
        BY <3>3, <3>5
      <4>3. v \in pending[q] => v \in pending'[q]
        BY <1>1, <1>2, <4>2
      <4>4. QED
        BY <2>9, <3>1, <3>2, <3>3, <4>1, <4>3 DEF Accounted
    <3>6. QED
      BY <3>4, <3>5
  <2>13. QED
    BY <1>4, <2>11, <2>12 DEF FlowInv
<1>8. QED
  BY <1>6, <1>7

LEMMA FlowStep == IInv /\ FlowInv /\ [Next]_vars => FlowInv'
<1> SUFFICES ASSUME IInv, FlowInv, [Next]_vars  PROVE FlowInv'
  OBVIOUS
<1>1. now \in Nat
  BY DEF IInv, TypeOK
<1>2. CASE Tick \/ \E p \in Party : Cancel(p)
  BY <1>1, <1>2, FlowQuiet DEF Tick, Cancel, senderVars, pumpVars
<1>3. ASSUME NEW m \in Msg, Sender(m)  PROVE FlowInv'
  <2>1. CASE Begin(m) \/ CheckContext(m) \/ Retry(m) \/ PublishRejected(m)
    BY <1>1, <2>1, FlowQuiet DEF Begin, CheckContext, Retry, PublishRejected, pumpVars
  <2>2. QED
    BY <1>3, <2>1, FlowPublish DEF Sender
<1>4. ASSUME NEW p \in Receiver, Pump(p)  PROVE FlowInv'
  <2>1. p \in Party
    BY DEF Receiver
  <2>2. QED
    BY <1>4, <2>1, FlowSubscription, FlowCleanup, FlowReceive DEF Pump
<1>5. CASE UNCHANGED vars
  BY <1>1, <1>5, FlowQuiet DEF vars
<1>6. QED
  BY <1>2, <1>3, <1>4, <1>5 DEF Next

\* SendMessage returned nil, and the pump, which is subscribed, has read what the
\* relays had for it of this message, all made within its window and within the
\* time a chunk is kept: then it has handed the body over.  Chunks may have come in
\* any order, been retried or replayed, and the subscription may have dropped.
SentAndRead(m) ==
  LET p == m.to
  IN  /\ sendPc[m] = "ok" /\ Chunks[m.body] > 0 /\ m.from \in Peers[p]
      /\ pumpPc[p] = "select" /\ \A w \in pending[p] : w.msg # m
      /\ Recent(p, m.body) /\ \A w \in WrapsFor(p, m.body) : w.at >= since[p]
THEOREM ReadIsHandedOver == Spec => [](\A m \in Msg : SentAndRead(m) => handed[m.to][m.body] = 1)
<1>1. IInv /\ FlowInv => \A m \in Msg : SentAndRead(m) => handed[m.to][m.body] = 1
  <2>1. SUFFICES ASSUME IInv, FlowInv, NEW m \in Msg, SentAndRead(m),
                        m.body \notin processed[m.to]
                 PROVE  FALSE
    BY DEF IInv, ProcessedInv
  <2> DEFINE p == m.to
             b == m.body
  <2>2. p \in Party /\ b \in Body /\ Chunks[b] \in Nat /\ Chunks[b] > 0
    BY <2>1 DEF SentAndRead
  <2>3. ASSUME NEW i \in Indices(b)  PROVE i \in buffer[p][b].parts
    <3>1. PICK w \in stored : w.msg = m /\ w.index = i
      BY <2>1, <2>3 DEF SentAndRead, IInv, SenderInv, Indices
    <3>2. w \in WrapsFor(p, b)
      BY <2>1, <3>1 DEF SentAndRead, WrapsFor
    <3>3. Accounted(p, w)
      BY <2>1, <2>2, <3>2 DEF SentAndRead, FlowInv, KeptInv, Kept
    <3>4. QED
      BY <2>1, <3>1, <3>3 DEF SentAndRead, Accounted
  <2>4. buffer[p][b].parts \subseteq Indices(b)
    BY <2>1, <2>2 DEF IInv, TypeOK, PumpTypeOK
  <2>5. buffer[p][b].parts = Indices(b)
    BY <2>3, <2>4
  <2>6. Cardinality(buffer[p][b].parts) = Chunks[b]
    BY <2>2, <2>5, IndicesFinite
  <2>7. buffer[p][b].parts # {}
    <3>1. 0 \in Indices(b)
      BY <2>2 DEF Indices
    <3>2. QED
      BY <2>5, <3>1
  <2>8. Cardinality(buffer[p][b].parts) < Chunks[b]
    BY <2>1, <2>2, <2>7 DEF IInv, NoLeftovers
  <2>9. QED
    BY <2>2, <2>6, <2>8
<1>2. Spec => []FlowInv
  BY FlowInit, FlowStep, Invariance, PTL DEF Spec
<1>3. QED
  BY <1>1, <1>2, Invariance, PTL
================================================================================
