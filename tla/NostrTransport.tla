---------------------------- MODULE NostrTransport ----------------------------
(***************************************************************************)
(* The message transport of tss/nostrtransport: Messenger.SendMessage cuts *)
(* a body into chunks and publishes one gift wrap per chunk, retrying with *)
(* a new wrap; relays store wraps; MessagePump.Run streams them to the     *)
(* recipient, ChunkAssembler collects them and a complete body goes to the *)
(* handler.                                                                *)
(*                                                                         *)
(* A body stands for its sha256 hash.  The relays the parties share are    *)
(* one store.  Time is counted in minutes.  Every honest chunk carries a   *)
(* valid tag, so the pump's parse errors and the assembler's index and     *)
(* hash checks (lines 193-241 and 261-266 of pump.go, 118-121 of           *)
(* chunker.go) always succeed here.                                        *)
(***************************************************************************)
EXTENDS Integers, FiniteSets

CONSTANTS
  Party,      \* npubs
  Peers,      \* Peers[p]: p's Config.PeersNpub
  Body,       \* message bodies
  Chunks,     \* Chunks[b]: number of chunks ChunkPayload cuts b into
  Msg,        \* the calls of SendMessage: [from, to, body] records
  ChunkTTL,   \* Config.ChunkTTL, in minutes (2 by default)
  Lookback,   \* the pump's Since window, in minutes (1)
  MaxNow,     \* bound on the clock
  MaxTries,   \* MaxTries[m]: bound on the failed publications of m
  MaxDrops    \* bound on the disconnections of one pump

ASSUME TransportAssumption ==
  /\ Peers \in [Party -> SUBSET Party]
  /\ Chunks \in [Body -> Nat]
  /\ Msg \subseteq [from : Party, to : Party, body : Body]
  /\ MaxTries \in [Msg -> Nat]
  /\ {ChunkTTL, Lookback, MaxNow, MaxDrops} \subseteq Nat

VARIABLES
  now,        \* the wall clock
  cancelled,  \* cancelled[p]: p's session context is done
  sendPc,     \* where the SendMessage call of a message stands
  cursor,     \* the chunk it is publishing
  tries,      \* wraps of it whose publication reported an error
  stored,     \* wraps the relays hold
  pumpPc,     \* where Run stands
  since,      \* the Since of the pump's filter, fixed when Run starts
  drops,      \* times the pump's event channel was closed
  pending,    \* wraps the current subscription has yet to stream
  buffer,     \* ChunkAssembler.buffer
  processed,  \* MessagePump.processed
  handed      \* history: calls of the handler

vars == <<now, cancelled, sendPc, cursor, tries, stored, pumpPc, since, drops,
          pending, buffer, processed, handed>>
senderVars == <<sendPc, cursor, tries, stored>>
pumpVars   == <<pumpPc, since, drops, buffer, processed, handed>>

-----------------------------------------------------------------------------
(* Chunks and wraps *)

\* The parties whose pump matters: the others run one that receives nothing.
Receiver == {m.to : m \in Msg}

\* ChunkPayload numbers the chunks from 0; an empty body has none.
Indices(b) == 0 .. (Chunks[b] - 1)

Wrap == [msg : Msg, index : Nat, try : Nat, at : Nat]

\* Mutant: the tag carries the one-based index of the log lines.
WrapOfOneBased(m) == [msg |-> m, index |-> cursor[m] + 1, try |-> tries[m], at |-> now]

\* The wrap of the current attempt: a new event on every retry.
WrapOf(m) == [msg |-> m, index |-> cursor[m], try |-> tries[m], at |-> now]

\* A chunkState; no entry in the map is NoState.
NoState == [parts |-> {}, deadline |-> 0]

\* Mutant: the deadline is left to Cleanup.
CollectAnyTime(state, i) ==
  IF state.parts = {} THEN [parts |-> {i}, deadline |-> now + ChunkTTL]
                      ELSE [state EXCEPT !.parts = @ \cup {i}]

\* Add without its last step: a new or expired state starts over.
Collect(state, i) ==
  IF state.parts = {} \/ now > state.deadline
    THEN [parts |-> {i}, deadline |-> now + ChunkTTL]
    ELSE [state EXCEPT !.parts = @ \cup {i}]

\* Mutant: the last index is mistaken for the total.
CompleteOffByOne(state, b) == Cardinality(state.parts) >= Chunks[b] - 1

\* Every chunk is there.
Complete(state, b) == Cardinality(state.parts) = Chunks[b]

\* Mutant: a subscription streams new events only.
MatchingLive(p) == {}

\* The pump's filter: the wraps a subscription of p replays.
Matching(p) == {w \in stored : w.msg.to = p /\ w.at >= since[p]}

\* Mutants: no processed check; no sender check.
WantedAgain(p, w) == w.msg.from \in Peers[p]
WantedFromAnyone(p, w) == w.msg.body \notin processed[p]

\* The seal is from an expected peer and the hash was not processed before.
Wanted(p, w) == w.msg.from \in Peers[p] /\ w.msg.body \notin processed[p]

-----------------------------------------------------------------------------
Init ==
  /\ now = 0
  /\ cancelled = [p \in Party |-> FALSE]
  /\ sendPc = [m \in Msg |-> "idle"]
  /\ cursor = [m \in Msg |-> 0]
  /\ tries = [m \in Msg |-> 0]
  /\ stored = {}
  /\ pumpPc = [p \in Party |-> "init"]
  /\ since = [p \in Party |-> 0]
  /\ drops = [p \in Party |-> 0]
  /\ pending = [p \in Party |-> {}]
  /\ buffer = [p \in Party |-> [b \in Body |-> NoState]]
  /\ processed = [p \in Party |-> {}]
  /\ handed = [p \in Party |-> [b \in Body |-> 0]]

(* The clock and the session contexts *)

Tick == /\ now < MaxNow
        /\ now' = now + 1
        /\ UNCHANGED <<cancelled, senderVars, pumpVars, pending>>

\* MaxTimeout passes, or the caller cancels the session.
Cancel(p) == /\ ~cancelled[p]
             /\ cancelled' = [cancelled EXCEPT ![p] = TRUE]
             /\ UNCHANGED <<now, senderVars, pumpVars, pending>>

(* Messenger.SendMessage *)

Begin(m) ==
  /\ sendPc[m] = "idle"
  /\ sendPc' = [sendPc EXCEPT ![m] = IF Chunks[m.body] = 0 THEN "ok" ELSE "loop"]
  /\ UNCHANGED <<now, cancelled, cursor, tries, stored, pumpVars, pending>>

\* The head of the retry loop looks at the context once.
CheckContext(m) ==
  /\ sendPc[m] = "loop"
  /\ sendPc' = [sendPc EXCEPT ![m] = IF cancelled[m.from] THEN "error" ELSE "publish"]
  /\ UNCHANGED <<now, cancelled, cursor, tries, stored, pumpVars, pending>>

\* PublishWrap returned nil: next chunk, or the call returns.
Confirmed(m) ==
  /\ cursor' = [cursor EXCEPT ![m] = @ + 1]
  /\ sendPc' = [sendPc EXCEPT ![m] = IF cursor[m] + 1 = Chunks[m.body] THEN "ok" ELSE "loop"]
  /\ UNCHANGED tries

\* Mutant: the failed chunk is given up and the next one follows.
UnconfirmedSkips(m) ==
  /\ tries[m] < MaxTries[m]
  /\ tries' = [tries EXCEPT ![m] = @ + 1]
  /\ cursor' = [cursor EXCEPT ![m] = @ + 1]
  /\ sendPc' = [sendPc EXCEPT ![m] = IF cursor[m] + 1 = Chunks[m.body] THEN "ok" ELSE "backoff"]

\* PublishWrap returned an error: wait for the retry ticker.
Unconfirmed(m) ==
  /\ tries[m] < MaxTries[m]
  /\ tries' = [tries EXCEPT ![m] = @ + 1]
  /\ sendPc' = [sendPc EXCEPT ![m] = "backoff"]
  /\ UNCHANGED cursor

\* A relay stores the wrap and streams it to the recipient's subscription.
\* Its answer may be lost, or the context may end before it is read.
PublishAccepted(m) ==
  /\ sendPc[m] = "publish"
  /\ stored' = stored \cup {WrapOf(m)}
  /\ pending' = IF pumpPc[m.to] \in {"select", "handler"}
                  THEN [pending EXCEPT ![m.to] = @ \cup {WrapOf(m)}]
                  ELSE pending
  /\ Confirmed(m) \/ Unconfirmed(m)
  /\ UNCHANGED <<now, cancelled, pumpVars>>

PublishRejected(m) ==
  /\ sendPc[m] = "publish"
  /\ Unconfirmed(m)
  /\ UNCHANGED <<now, cancelled, stored, pumpVars, pending>>

Retry(m) ==
  /\ sendPc[m] = "backoff"
  /\ \/ sendPc' = [sendPc EXCEPT ![m] = "loop"]
     \/ cancelled[m.from] /\ sendPc' = [sendPc EXCEPT ![m] = "error"]
  /\ UNCHANGED <<now, cancelled, cursor, tries, stored, pumpVars, pending>>

(* MessagePump.Run *)

Start(p) ==
  /\ pumpPc[p] = "init"
  /\ pumpPc' = [pumpPc EXCEPT ![p] = "subscribe"]
  /\ since' = [since EXCEPT ![p] = now - Lookback]
  /\ UNCHANGED <<now, cancelled, senderVars, drops, pending, buffer, processed, handed>>

Stop(p) ==
  /\ cancelled[p]
  /\ pumpPc[p] \in {"subscribe", "select", "backoff"}
  /\ pumpPc' = [pumpPc EXCEPT ![p] = "stopped"]
  /\ pending' = [pending EXCEPT ![p] = {}]
  /\ UNCHANGED <<now, cancelled, senderVars, since, drops, buffer, processed, handed>>

\* Subscribe fails only for a client without relays, which NewClient excludes.
Subscribe(p) ==
  /\ pumpPc[p] = "subscribe"
  /\ ~cancelled[p]
  /\ pumpPc' = [pumpPc EXCEPT ![p] = "select"]
  /\ pending' = [pending EXCEPT ![p] = Matching(p)]
  /\ UNCHANGED <<now, cancelled, senderVars, since, drops, buffer, processed, handed>>

\* The event channel closes; what it had not streamed goes with it.
Disconnect(p) ==
  /\ pumpPc[p] = "select"
  /\ drops[p] < MaxDrops
  /\ drops' = [drops EXCEPT ![p] = @ + 1]
  /\ pumpPc' = [pumpPc EXCEPT ![p] = "backoff"]
  /\ pending' = [pending EXCEPT ![p] = {}]
  /\ UNCHANGED <<now, cancelled, senderVars, since, buffer, processed, handed>>

Resubscribe(p) ==
  /\ pumpPc[p] = "backoff"
  /\ pumpPc' = [pumpPc EXCEPT ![p] = "subscribe"]
  /\ UNCHANGED <<now, cancelled, senderVars, since, drops, pending, buffer, processed, handed>>

\* The cleanup ticker: forget the states whose deadline has passed.
Cleanup(p) ==
  /\ pumpPc[p] = "select"
  /\ \E b \in Body : buffer[p][b].parts # {} /\ now > buffer[p][b].deadline
  /\ buffer' = [buffer EXCEPT ![p] =
       [b \in Body |-> IF now > @[b].deadline THEN NoState ELSE @[b]]]
  /\ UNCHANGED <<now, cancelled, senderVars, pumpPc, since, drops, pending, processed, handed>>

\* The assembler keeps the chunk, or completes the body: its state is deleted,
\* its hash marked as processed, and only then the handler is called.
Keep(p, b, state) ==
  /\ ~Complete(state, b)
  /\ buffer' = [buffer EXCEPT ![p][b] = state]
  /\ UNCHANGED <<pumpPc, processed, handed>>

\* Mutant: the assembler's state outlives the body.
DeliverAndKeep(p, b, state) ==
  /\ Complete(state, b)
  /\ buffer' = [buffer EXCEPT ![p][b] = state]
  /\ processed' = [processed EXCEPT ![p] = @ \cup {b}]
  /\ handed' = [handed EXCEPT ![p][b] = @ + 1]
  /\ pumpPc' = [pumpPc EXCEPT ![p] = "handler"]

Deliver(p, b, state) ==
  /\ Complete(state, b)
  /\ buffer' = [buffer EXCEPT ![p][b] = NoState]
  /\ processed' = [processed EXCEPT ![p] = @ \cup {b}]
  /\ handed' = [handed EXCEPT ![p][b] = @ + 1]
  /\ pumpPc' = [pumpPc EXCEPT ![p] = "handler"]

Receive(p, w) ==
  LET b == w.msg.body
      state == Collect(buffer[p][b], w.index)
  IN  /\ pumpPc[p] = "select"
      /\ w \in pending[p]
      /\ pending' = [pending EXCEPT ![p] = @ \ {w}]
      /\ \/ ~Wanted(p, w) /\ UNCHANGED <<pumpPc, buffer, processed, handed>>
         \/ Wanted(p, w) /\ Keep(p, b, state)
         \/ Wanted(p, w) /\ Deliver(p, b, state)
      /\ UNCHANGED <<now, cancelled, senderVars, since, drops>>

\* The handler returns nil and the loop goes on, or its error ends Run.
HandlerReturns(p) ==
  /\ pumpPc[p] = "handler"
  /\ \/ pumpPc' = [pumpPc EXCEPT ![p] = "select"] /\ UNCHANGED pending
     \/ /\ pumpPc' = [pumpPc EXCEPT ![p] = "stopped"]
        /\ pending' = [pending EXCEPT ![p] = {}]
  /\ UNCHANGED <<now, cancelled, senderVars, since, drops, buffer, processed, handed>>

-----------------------------------------------------------------------------
Sender(m) == Begin(m) \/ CheckContext(m) \/ PublishAccepted(m)
             \/ PublishRejected(m) \/ Retry(m)

Pump(p) == \/ Start(p) \/ Stop(p) \/ Subscribe(p) \/ Disconnect(p)
           \/ Resubscribe(p) \/ Cleanup(p) \/ HandlerReturns(p)
           \/ \E w \in pending[p] : Receive(p, w)

Next == \/ Tick
        \/ \E p \in Party : Cancel(p)
        \/ \E m \in Msg : Sender(m)
        \/ \E p \in Receiver : Pump(p)

Spec == Init /\ [][Next]_vars

\* Goroutines keep running and the handler returns; nothing obliges the clock,
\* a cancellation or a disconnection.
Fairness ==
  /\ \A m \in Msg : WF_vars(Sender(m))
  /\ \A p \in Receiver :
                      /\ WF_vars(Start(p) \/ Stop(p) \/ Subscribe(p) \/ Resubscribe(p))
                      /\ WF_vars(HandlerReturns(p))
                      /\ WF_vars(\E w \in pending[p] : Receive(p, w))

FairSpec == Spec /\ Fairness
-----------------------------------------------------------------------------
(* Properties *)

\* A chunkState holds indices of the body's own chunks; counters stay within
\* their bounds; every stored wrap was made by a SendMessage call.
SenderTypeOK ==
  /\ sendPc \in [Msg -> {"idle", "loop", "publish", "backoff", "ok", "error"}]
  /\ cursor \in [Msg -> Nat]
  /\ tries \in [Msg -> Nat]
  /\ stored \in SUBSET Wrap

PumpTypeOK ==
  /\ pumpPc \in [Party -> {"init", "subscribe", "select", "handler", "backoff", "stopped"}]
  /\ since \in [Party -> Int]
  /\ drops \in [Party -> Nat]
  /\ buffer \in [Party -> [Body -> [parts : SUBSET Nat, deadline : Nat]]]
  /\ \A p \in Party, b \in Body : buffer[p][b].parts \subseteq Indices(b)
  /\ processed \in [Party -> SUBSET Body]
  /\ handed \in [Party -> [Body -> Nat]]

TypeOK == /\ now \in Nat /\ cancelled \in [Party -> BOOLEAN]
          /\ SenderTypeOK /\ PumpTypeOK
          /\ pending \in [Party -> SUBSET Wrap]

\* Whatever is retried, published twice or replayed by a new subscription, the
\* handler sees a body once: a TSS round applied twice would fail the session.
AtMostOnce == \A p \in Party, b \in Body : handed[p][b] <= 1

\* The relays hold chunk i of b for p, from one of p's peers.
Published(p, b, i) ==
  \E w \in stored : /\ w.msg.to = p /\ w.msg.body = b /\ w.index = i
                    /\ w.msg.from \in Peers[p]

\* The handler is called only with whole bodies: a relay accepted each chunk of
\* it, addressed to this party by a peer of its session.
OnlyWholeBodies ==
  \A p \in Party, b \in Body :
    handed[p][b] > 0 => \A i \in Indices(b) : Published(p, b, i)

\* What SendMessage reports: nil means that every chunk is at a relay.
OkMeansPublished ==
  \A m \in Msg : sendPc[m] = "ok" =>
    \A i \in Indices(m.body) : \E w \in stored : w.msg = m /\ w.index = i

\* The assembler's memory: a body that was handed over leaves no chunks behind,
\* late duplicates included, and what it holds is never already complete.
NoLeftovers ==
  \A p \in Party, b \in Body :
    /\ b \in processed[p] => buffer[p][b] = NoState
    /\ buffer[p][b].parts # {} => Cardinality(buffer[p][b].parts) < Chunks[b]

\* A body is never completed with chunks whose deadline had passed.
CompletedInTime ==
  [][\A p \in Party, b \in Body :
       (handed'[p][b] > handed[p][b] /\ Chunks[b] > 1) => now <= buffer[p][b].deadline]_vars

\* The transport implements MessageDelivery.
Delivery == INSTANCE MessageDelivery WITH sent <- {m \in Msg : sendPc[m] # "idle"}
DeliverySpec == Delivery!ASpec

\* A body whose SendMessage returned nil reaches the handler unless the receiver
\* stops, however often its subscription drops: as long as the exchange fits in
\* the Since window and the chunk deadline.
Reaches(m) == handed[m.to][m.body] > 0 \/ pumpPc[m.to] = "stopped"
SentIsHandedOver ==
  \A m \in Msg : (sendPc[m] = "ok" /\ Chunks[m.body] > 0 /\ m.from \in Peers[m.to])
                   ~> (Reaches(m) \/ now > Lookback)
=============================================================================
