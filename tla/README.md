# A verification of BBMTLib

BBMTLib lets the devices of one owner hold shares of a Bitcoin key, generate
the key together and sign payments together. The cryptographic rounds are those
of tss-lib. What this repository adds, and what is modelled here, is everything
around them: getting messages from one device to another over Nostr relays that
lose, repeat and delay them, meeting at a barrier before the rounds start,
driving the rounds under deadlines, tearing all of it down, and agreeing on what
is to be signed.

The project is TLA+ modules translated from `src/tss`, TLC configurations that
check them on small instances, and TLAPS proofs of the safety properties for
every instance. `PROJECT.json` maps each definition to the lines it stands for.

## The system

| component | source | state | operations |
|---|---|---|---|
| message transport | `nostrtransport/{chunker,messenger,pump,crypto}.go` | assembler buffer, processed hashes, retry state of each `SendMessage` | `SendMessage`, `Run`, `Add`, `Cleanup` |
| relay client | `nostrtransport/{client,config}.go` | pool, `urls` (the relay that connected first), workers and their channels | `NewClient`, `PublishWrap`, `Subscribe`, `Close` |
| session coordinator | `nostrtransport/session.go` | peers seen | `PublishReady`, `AwaitPeers`, `PublishComplete` |
| TSS service | `tss.go` | the loop's channels, result and deadline | `KeygenECDSA`, `KeysignECDSA`, `ApplyData` |
| session functions | `mpc_nostr.go` | contexts, pump, status | `runNostrKeygenInternal`, `runNostrKeysignInternal`, `...WithSighash` |
| pre-agreement | `mpc_nostr.go:350` | nonce, fee, the peer's message | `runNostrPreAgreementSendBTC` |
| payment over Nostr | `mpc_nostr.go:586`, `btc.go` | inputs, change, signatures | `runNostrMpcSendBTCInternal` |
| HTTP party and relay | `mpc.go`, `relay.go` | status map, seen messages; sessions, completions and messages in a cache | `JoinKeygen`, `JoinKeysign`, `Send`, `downloadMessage`; the handlers |
| peer discovery | `peers.go` | one port per device, the maps and slices of its handlers and probes, the channel of each call | `ListenForPeers`, `DiscoverPeers`, `FetchData`, `PublishData` |
| Bitcoin operations | `btc.go` | none between calls | `SelectUTXOs`, `EstimateFees`, `PostTx`, ... |
| keys, formats, logs, tools | `common.go`, `localstate_nostr.go`, `hooks.go`, `logs.go`, `cmd/`, `scripts/` | none | |

How they interact. A session function creates a client, announces itself with
`PublishReady`, waits in `AwaitPeers`, starts a pump in a goroutine whose
handler is `ApplyData`, and calls `KeygenECDSA` or `KeysignECDSA`. Their loop
receives from the TSS party (outgoing messages, the result), from `ApplyData`
(an unbuffered channel), and from its helper goroutines (an error channel of
capacity one). Each outgoing message gets a goroutine that calls `SendMessage`.
Afterwards the session function cancels the pump, in the signing functions
waits for it, says `PublishComplete` and returns; deferred calls end the session
context. A payment runs the pre-agreement first, then each signer fetches the
outputs of the address and builds the transaction by itself, and one signing
session per input follows; every signer broadcasts the result. The HTTP party does
the same over a relay of its own: it registers with a session, polls until all are
listed, and runs the same loop with a goroutine that polls for messages. Before all
this, devices on one local network find each other: each listens on a port known to
all, asks the other addresses, and calls back whoever asks; then one publishes a
secret on that port and the others fetch it.

What is hard here:

- publications are retried as new events, subscriptions replay, relays answer
  late or never: the same chunk arrives several times, after its body, or after
  its deadline;
- the pump, the loop, the senders and the teardown run concurrently and meet
  at unbuffered or one-place channels, with four different deadlines;
- a session id is reused when a call is repeated, and the relays still hold
  what the earlier call said;
- over HTTP every request may be applied and its answer lost, every poll returns
  everything again, and the status map, which numbers the messages, has no lock;
- two signers build what they sign from two views of the chain, and both broadcast;
- parties start at different times: something published before a subscription
  must be replayed by it, and only the last minute is;
- a client has several relays, of which the first that connects is the one it
  publishes to, while it subscribes to all, and any of them stops and comes back;
- discovery, the relay and the publisher of a device use one port one after the
  other, so that what was meant for one reaches another; the handlers and probes
  share maps without a lock.

What makes each component correct is stated with its module below; the list of
hazards, each at its line and with the properties that would catch it, is in
`PROJECT.json`.

## The modules

| module | models | composes |
|---|---|---|
| `MessageDelivery` | what the transport promises: a message that was sent is handed to its recipient's handler at most once | |
| `NostrTransport` | `Messenger`, `MessagePump`, `ChunkAssembler`, and the relays as a store | implements `MessageDelivery` |
| `NostrTransport_proofs` | proofs | |
| `RelayStore` | what the relay client promises: behind all relays there is one store | |
| `RelayClient` | `NewClient`, `Close`, `PublishWrap`, `Subscribe` over several relays | implements `RelayStore`, which is what `NostrTransport` and `NostrSession` take for the relays |
| `RelayClient_proofs` | proofs | |
| `MpcSession` | `processKeygen`, `processKeySign`, their goroutines, the pump and the teardown | uses the promise of `MessageDelivery` as its network |
| `MpcSession_proofs` | proofs | |
| `NostrSession` | the phases around the protocol: ready, barrier, complete, repeated calls | |
| `NostrSession_proofs` | proofs | |
| `PreAgreement` | the exchange of nonces and fees of a payment, with repeated attempts | |
| `PreAgreement_proofs` | proofs | |
| `Payment` | a payment after the pre-agreement: views, selection, change, a keysign per input, broadcasts, repeated payments | takes the promises of `PreAgreement` and `MpcSession` |
| `Payment_proofs` | proofs | |
| `HttpRelay` | the relay's handlers, as operators on its cache | |
| `HttpParty` | `JoinKeygen` and `JoinKeysign` over the HTTP relay | extends `HttpRelay` |
| `HttpParty_proofs` | proofs | |
| `PeerDiscovery` | `ListenForPeers` and `DiscoverPeers`: their handlers, callbacks and probes on the common port | |
| `PeerExchange` | `PublishData` and `FetchData` on the same port | extends `PeerDiscovery` |
| `PeerExchange_proofs` | proofs | |
| `MC*` | instances for TLC | |

### NostrTransport

A message body stands for its hash; `Chunks[b]` says into how many chunks it is
cut. `sendPc`, `cursor` and `tries` are the position of each `SendMessage` call;
`stored` is what the relays hold, each wrap with the attempt that made it, so
that a retry is a different event with the same chunk. `pumpPc`, `since`,
`pending` and `drops` are the pump's loop, its filter and the stream of its
current subscription; `buffer` and `processed` are the assembler's and the
pump's maps. `PublishAccepted` covers the answer that is lost and the race of
`PublishWrap` between success and a cancelled context; `Disconnect` drops the
stream and `Subscribe` replays what the filter matches. Encryption is abstracted
to what it decides: a wrap names its sender and recipient, and the pump rejects
strangers (`Wanted`). The parse and hash checks succeed for honest chunks and are
left out. The `handed` counter is a history variable.

### RelayClient

`Relays[p]` is the valid part of a party's configuration. `dials` and `connectedCh` are
the goroutines and the channel of `NewClient`, which returns with the first relay that
connects: `urls`, the relays of every later publication, is that one. `asked`, `answers`
and `worker` are a `PublishWrap` call: the pool asks each relay in a goroutine, a worker
counts the results, the caller selects among a success, an error and its context.
`streams`, `seen` and `relayCh` are a subscription, which follows every valid relay.
Of the session context, `done` says that it has ended. `Stored` and `Reported` map all
this to `RelayStore`. The background connections of `NewClient` only warm the pool.
`Publish`, which nothing calls, repeats `PublishWrap` after signing.

### MpcSession

One variable per channel and goroutine: `outCh`, `endCh`, `errChan`, `startErr`,
`sending` (a message per sender goroutine), `applying` (a message per inbound
goroutine), `held` (the message with which the pump's handler is blocked in
`ApplyData`). `runPc` is the loop and the teardown after it. The `select` is one
action per case; its default branch is `LoopIdle`, taken only when no case is
ready, followed after the sleep by `GiveUp`, `ReportError`, `ReturnResult` or
`SelectAgain`, in the code's order. `Expire` is the loop's own deadline, `TimeOut`
the session context's. tss-lib is external: a party sends one message per peer
and round, and ends a round when it has applied one of each peer (`HeardAll`,
`TssAdvance`).

`kind` separates the two forms of the code: a failed sender of keygen gives up
its other peers where that of keysign goes on; only keygen stores a share, which
may fail; only keysign waits for the pump before it returns (`MayLeave`).

### NostrSession

`pc` follows one call through publish, await, query, waiting, protocol and
complete. `QueryAnswers` may happen while the query is waited for or after the
subscription has started, with any part of the matching wraps, or never.
`PublishFailed` covers a wrap that was stored although its publication failed.
A returned party may `Call` again with the same session id. The protocol is one
step here; `MpcSession` is its detail.

### PreAgreement

Two parties; `attempt` numbers the nonces. The pump's handler keeps the first
message only (`inbox`). `RetryGap` is an assumption on the caller: it begins again
only more than that long after its last attempt ended. With 0 it is the code,
which assumes nothing.

### Payment

A call is `Call` (with the pre-agreement, of which a session id and a fee are
what matters here), `Prepare` (`FetchUTXOs`, `SelectUTXOs`, change, and the first
keysign), `SignInput` per input and `PostTx`. Amounts are integers. `sort.Slice` is
not stable and the explorer's order is arbitrary: `Ordered` is every order that is
sorted. `offered` holds which party gave a signing share for which input of which
transaction in which session, and an input is signed when all shares name the
same transaction: the hash covers all inputs and outputs, and a keysign in which
the parties' hashes differ produces no signature. The explorer and the mempool are
external: they take a transaction unless it conflicts with one that pays no less,
and may refuse one they know. `PostLost` is a request or an answer that is lost. A
caller whose payment failed may pay again, in a new session. Script types, which
select the form of the hash and of the witness, are left out; an unsupported one is
a `Fail`.

### HttpRelay and HttpParty

The relay's handlers run under its mutex, so that each is one operator on
`participants`, `messages` and `completed`. The list of a session is a set of records
which carry their place in it (`at`). `Hash` is the MD5 of the body, by which a
message is deleted and recognised: the body names its sender and not its receiver.
`DeleteTssMessage` compares the participant of the path with the sender, as the code
does, where the party passes the receiver.

`pc` follows a call through join, await, loop, end, flag, close and wait; `dl` is
the `downloadMessage` goroutine through its select, the request, the batch, the
blocked `ApplyData` and the deletion; `Precedes` is its stable sort, `Current` the
message of the batch it has come to. The loop of `tss.go` is one state here, in which
a message can be received; `MpcSession` is its detail. `LoseSeqNo` is the outcome
of the race on the status map that matters: a number is used twice. The other, that
Go ends the process, is one of the two readings of `DeleteCrashes`; the first is a nil
response that `deleteMessage` dereferences. A status writer is taken to be
preempted for less than one whole `Send`, so that it can lose the last number only.

### PeerDiscovery and PeerExchange

`port` is what answers on the common port of a device: nothing, its relay, its listener
or its publisher. A request is its kind and its ends, in `net` until somebody serves,
refuses or loses it. `handling` and `serving` are handlers between their first read of
the shared maps and slices and their write, `probe` the goroutines of `DiscoverPeers`
and where each stands. In trio mode these goroutines race: `Finish`, `Add` and
`Collect` append to the slice as it is or as it was when they looked, and `MapRace` and
`PublishRace` are Go ending the process, and with it the connections of its
publisher's handlers (`CutServing`), as the publisher does when it closes its server. `setting` is what the callers of one device
want, chosen at the start: mode, who listens, discovers, publishes and fetches, the
remote addresses, and how many requests are lost. `missed` is a history variable, as is
`heard` in duo mode. That `ListenForPeers` can name one device twice in trio mode, when
two of its requests are handled at once, is a behaviour of the model that no property
forbids.

## The runs

| run | configuration | shows |
|---|---|---|
| `transport` | `MCNostrTransport` | types; at most once; whole bodies only; nil means published; no leftovers; no completion after the deadline; refinement of `MessageDelivery`; a published body is handed over |
| `relays` | `MCRelayClient` | several relays behave like one store; `NewClient` and `PublishWrap` end; an event on a relay both ends share arrives |
| `mpc_session` | `MCMpcSession` | a result leaves nothing in the pump or the appliers; nobody succeeds alone; key generation always returns, and so does a signing call whose protocol succeeded |
| `keysign_hang` (violation) | `MCKeysignHang` | a failed signing call may wait for its pump for ever |
| `session` | `MCNostrSession` | who passes the barrier was told recently; a ready wrap is not missed |
| `preagreement` | `MCPreAgreement` | patient callers agree; overlapping calls hear each other |
| `pre_retry` (violation) | `MCPreRetry` | an immediate retry makes the two parties disagree |
| `payment` | `MCPayment` | a broadcast transaction is signed by both, input by input; one per session; the agreed fee; a second payment only after an unanswered broadcast |
| `http` | `MCHttpParty` | nobody starts alone or loses its session while it waits; messages are applied in order, without gaps and once; a success leaves nothing to apply; every call returns |
| `keygen_lost` (violation) | `MCKeygenLost` | a failed `endSession` costs a finished keygen its share |
| `peers` | `MCPeers` | an answer is from a device that knows the caller; whoever is named was called back; the devices found are distinct; what was fetched was published; every call ends but one kind of discovery |
| `peers_hang` (violation) | `MCPeersHang` | which is that of a remote address that answers: `DiscoverPeers` does not return |

The four violations are findings; `PROJECT.json` quotes what each contradicts.

Five things the passing runs establish that the code does not say. The hang of
`keysign_hang` needs a failure: after a success the pump cannot be blocked, since
a result means that every message of every peer has gone through the loop
(`ResultMeansDrained`), and the pump hands each over once. And the pre-agreement
is sound when callers wait longer than `2 * Lookback + Timeout` (four minutes with
the code's constants): without a gap it is refuted by TLC, this one is proved
sufficient. The HTTP relay never deletes a message, which costs traffic and
nothing else: the downloader recognises what it has applied. And the call that waits
for its downloader cannot wait for ever, although a message handed to the finished
loop would block it: a success means that there is none left. And the client that
publishes to one relay is enough as long as the addressee has configured that relay
and it stays up (`SharedRelayDelivers`): other relays of the sender do not help, though
`CLI_USAGE_README.md:442` recommends several for redundancy.

### Bounds

- `MCNostrTransport`: two peers and a stranger, one body of two chunks and
  one of one. The clock ticks once, `ChunkTTL` and `Lookback` are zero: a tick is
  "longer than the window", which is all the code compares, so that chunks
  expire mid-assembly and wraps fall out of the filter. One failed publication
  (`MaxTries`) and one dropped subscription (`MaxDrops`) make every mechanism
  occur: a duplicate after delivery, expiry, replay, a lost answer.
- `MCRelayClient`: a sender and a receiver with the same two relays, any of
  which may be down at the start and one of which may stop (`MaxOutages`); one event.
  A client returns with either relay, loses it, and the other one is left.
- `MCMpcSession`: two parties and two rounds, so that a message of one round may
  wait while the other is in progress.
- `MCNostrSession`: two parties, one of which calls twice, since stale wraps
  need an earlier call; `ConnectTimeout < MaxTimeout`, as in the code.
- `MCPreAgreement`: two attempts of one party and one of the other, clock past
  the gap of the first.
- `MCPayment`: two outputs of equal value that only together are enough, so that
  their order is open, a second input exists and dust remains, and two that
  are enough alone, with change; any of them may be there from the start or
  arrive between the two fetches. Two sessions, so that a payment can be tried
  again, and one broadcast without an answer (`MaxLost`).
- `MCHttpParty`: two parties, two rounds, two requests that fail, lose their answer
  or meet the race (`MaxFaults`), so that a registration may be repeated or a number
  used twice and something else fail as well. Each party
  calls once, with a new session id; the cache keeps an entry for five minutes, longer
  than a call, and does not expire it.
- `MCPeers`: three devices and eight settings. `Pair`: two look for each other at once.
  `Share`: one looks, then publishes, and the other's relay still holds its port.
  `Remote`: the address is given. `Trio`: one looks for two, reaches one of them twice,
  and is given its own address. `Called`: two look for a third that they both call, the
  case in which handlers race. `Twice`: a device is called back by whom it called.
  `Trusted` and `Strange`: a publisher with two clients, one of them unknown to it. In
  those with one loss, one request or answer may be lost (`losses`); the others have none.

`CHECK_DEADLOCK FALSE` is set where calls end and nothing is left to do.

### Fairness

`NostrTransport`: `SendMessage` and the pump's goroutine run and a handler
returns; the clock, cancellations, disconnections and the cleanup ticker are not
obliged to happen. `MpcSession`: the goroutines of the process run and the loop's
deadline passes; nothing is assumed of senders, relays, peers or the session
context, so the liveness properties hold against any network. `NostrSession`:
`AwaitPeers` runs and its subscription streams; the query may never answer.
`PreAgreement`: the pump streams and the call reads its channel. `HttpParty`: the call
itself, with its timers and the deadline of its loop, and the downloader run;
registration, the senders and the rounds need not. It assumes that a request ends,
with an answer or an error: the code's HTTP clients have no timeout of their own.
`RelayClient`: dialling, connections, the workers of a publication and the forwarding
from relays that never stop run; `FirstConnected` has strong fairness, because Go's
select picks at random among the cases that are ready; calls, cancellations and outages
are not obliged. `PeerExchange`: the calls of a device and what it serves run; losses
and races need not. `Payment` states safety only. This is what the
Go scheduler and a live connection give. A broken connection is an action of its
own, without fairness.

## The proofs

TLAPS checks these for all values of the constants that satisfy each module's
assumption (finite or infinite sets of parties and bodies, any timeouts).

**NostrTransport_proofs.** `TypeCorrect`, `HandedAtMostOnce`, `HandedWhole`,
`OkIsPublished`, `AssemblerForgets`, and `ImplementsDelivery`, the refinement. None
of the invariants is inductive alone. The invariant adds where evidence comes
from: each stored wrap was made by a call that had come that far; each
pending wrap is stored; each chunk in a buffer is published by a peer; each index below a call's cursor is
published; a hash is processed exactly when it was handed. A body completes
only when its buffer and the new chunk fill its index set, a cardinality
argument over `0 .. Chunks[b] - 1`, and so each chunk was published. `CompletesInTime`
is the action property: an expired state starts over with the chunk that arrives, and
one chunk does not complete a body of several, so `Cleanup` need not have run.
`ReadIsHandedOver` is what `SentIsHandedOver` rests on: as long as a body's wraps are
recent, each that its party's subscription matches is accounted for (`FlowInv`: pending,
in the handler's hands, in the buffer, or its body processed), across retries, replays
and reconnections; so once they have all been read the body has been handed over.

**NostrSession_proofs.** `TypeCorrect` and `BarrierSound`. The invariant follows the
evidence from the relays to the barrier: what a subscription holds is recent
(`StreamInv`), and so is the wrap behind each peer that was seen (`SeenInv`). It needs
that a wrap published now is later than the start of any barrier (`ClockInv`), and
that wraps are not removed. `ReadyIsOnItsWay` is the converse: a ready wrap within a
waiting barrier's filter was counted or is about to be streamed (`GapInv`), whether it was
published before, between or after the query and the subscription.

**PreAgreement_proofs.** `TypeCorrect` and `PatientCallersAgree`: if
`RetryGap >= 2 * Lookback + Timeout` then `Spec => []Agreement`. The invariant bounds
the age of what can be heard: a message in a channel, a stream or within a
filter's reach belongs to the attempt the peer is in or has just ended, because
an older one ended more than `RetryGap` before the next began. `ResultCommutes`
then says that both sides compute the same nonce and fee from the same two
messages. The assumption is a hypothesis of the theorem, not of the module: the
code's callers do not meet it, as `pre_retry` shows. `OverlapIsOnItsWay` needs no
assumption: while a party listens, each message of its peer from within its window is to
be streamed or one of them is in its channel (`ListenInv`), so that a full channel never
drops the only one.

**Payment_proofs.** `BroadcastIsSignedByAll`, `OneTransactionPerSession`, `AgreedFeePaid`,
`PaidOncePerLoss`, `SelectionIsComplete` and `TypeCorrect`, for any outputs (a finite set),
amounts and fees. The invariant follows the shares: a party gives those of
a session for one transaction only (`ShareInv`), because it prepares once between
two calls and no session is entered twice; behind the input it is signing lie the
shares of all (`SignInv`), and so behind every input of what it broadcasts (`PostInv`).
That the shares of one party and session name one transaction (`OneOffer`) is
carried along, and two broadcasts of a session are then equal because some party
signed the first input of both. None of this looks at an amount.

`AmountInv` adds that what a party has prepared, offered or broadcast covers the amount
and the fee of its session, and that the change is the rest unless that is dust. It
rests on the sums of sequences of any length: `Total` is a recursive function, a
`CHOOSE` whose existence `SumsExist` shows, by induction in the form of a least
counterexample (`LeastNumber`, from `NatLessThanWellFounded`), which needs no operator
as a parameter. `SelectionIsComplete` is about the loop of `SelectUTXOs` alone: given
the order the outputs are sorted in, it finds a selection exactly when all of them
together are enough, and only one. `LossInv` bounds the transactions in
the mempool by the broadcasts without an answer, and one more once somebody has an
answer: who is about to broadcast holds shares of every party for its session, and a
party that has its answer gives none for a later one.

**RelayClient_proofs.** `ImplementsStore`, the refinement, for any finite set of relays and any
configurations, outages and events, and `TypeCorrect`. Its invariant says where a success can come from: an answer that
is ok, a success that was counted or reported, and a call that returned nil each have
their event at a relay, and relays forget nothing; the pool's `seen` separates what
was streamed from what the forwarder holds. `CallsInv` bounds the counters: the relays still
asked, the results not read and those counted are together no more than the relays in
`urls`. `ErrorsAreUnanimous` says what a caller of `PublishWrap` may conclude from an error
that is not its context's: every relay was asked and none said yes; and that a caller that
waits has a worker that runs or a result in a channel (`ServedInv`).
`StreamLosesNothing` says that what the pool drops as a duplicate is exactly what the
subscriber has read or the forwarder holds (`SeenInv` with `ForwardInv`).

**MpcSession_proofs.** `TypeCorrect`, `ResultIsDrained` and `SuccessNeedsAll`. The invariant
places every message: `FlowInv` says that one that was handed over is with the pump,
with a goroutine that applies it, applied, or was dropped by a loop that has no result;
`SentInv` and `RoundInv` that none is ahead of its sender's round, and that a round is
ended only with one of each peer. That the pump holds at most one message, which
`TypeOK` says by a cardinality, is carried as `HeldOne`. `SuccessIsNeverStuck` follows from
`ResultIsDrained` and `LeftInv`: the pump of a call that succeeded holds nothing and will
be given nothing, and is cancelled before it is waited for. A call that failed has no such
guarantee, as `keysign_hang` shows.

**HttpParty_proofs.** `TypeCorrect`, `BarrierSound`, `WaitersKeepSession`, `AppliedInOrder` and
`SuccessDrained`, for any committee, rounds and number of faults. `CallInv` says who has
passed the barrier, and that whoever ends a session has heard from all, so that
nobody polls it any more; `SendInv` that the relay's list holds no message twice, and
those of one sender in the order of their numbers, which is what the race on the
status map could break and does not; `DeliverInv` that what is remembered is exactly
what was applied or is about to be. From these, the relay's comparison of a
receiver with a sender deletes nothing (`NothingDeleted`), the stable sort leaves no
earlier message of a sender behind (`EarlierIsNotLeft`), and a finished loop has
nothing to come (`ReturnIsDrained`). `NeverHeldBySuccess` adds that while such a call ends
its session the downloader can go on: it has messages to delete but none to apply, the
first of them (`FirstOfBatch`, by the least arrival) can be deleted, and its end channel is
closed before the call waits for it (`DrainInv`).

**PeerExchange_proofs.** `TypeCorrect`, `PairingMutual`, `AnswersTrue`, `PeersDistinct` and
`FetchedPublished`, for any devices, plans of their callers and losses. `StepKinds` splits
the steps by what they touch; `Cells` and `Results` say what any step leaves of a probe and
of a result, so that each invariant is argued once for them instead of once per action.
`AnswerInv` follows an answer from the listener through probes that append to what they
read before; that it stays true is `StepGrows` (what a listener that is up has heard only
grows). `DistinctInv` says of a probe about to append that its host is not yet found and
that what it read are hosts that are. `PairInv` covers everyone a listener or one of its
handlers knows of, not only those it returns, and needs `AnswerInv` (a listener that is
closing has its peers). `PublishInv` says that no handler of a duo publisher is past the
send to `published` before the caller took its request. `FetchIsAnswerable` says that the
request of a `FetchData` that waits is on its way or with a handler (`AskInv`), and that
such a handler's `PublishData` still runs and will answer it or cut it off (`PortInv`),
whatever races have ended which process.

Only model-checked: liveness (`SentIsHandedOver`, `KeygenReturns`, `SignedReturns`,
`ReadyIsSeen`, `OverlapIsHeard`, `CallReturns`, `CallsSettle`, `SharedRelayDelivers`,
`OnlyRemoteHangs`), which is beyond the prover, as fairness speaks of ENABLED. What can be
proved of them is their safety half, that nothing is lost on the way and that whoever
waits waits for something that is still to come. It is proved for all but `KeygenReturns`:

| checked by TLC | its safety half, proved |
|---|---|
| `SentIsHandedOver` | `ReadIsHandedOver` |
| `ReadyIsSeen` | `ReadyIsOnItsWay` |
| `OverlapIsHeard` | `OverlapIsOnItsWay` |
| `SignedReturns` | `SuccessIsNeverStuck` |
| `CallReturns` | `NeverHeldBySuccess` (a call whose loop succeeded) |
| `CallsSettle` | `ErrorsAreUnanimous` (`PublishWrap`) |
| `SharedRelayDelivers` | `StreamLosesNothing` |
| `OnlyRemoteHangs` | `FetchIsAnswerable` (`FetchData`) |

`KeygenReturns`, and the part of `OnlyRemoteHangs` on discovery, rest on timeouts alone.
The statement of a safety half holds in every state, and so for any scheduling; that
the remaining steps are taken is what the runs add. Every invariant and every other action
property that a passing run checks is proved, and so are the refinements.

## Not modelled, and the plan

What is left, in this order:

1. Repeated HTTP calls with one session id, against what the relay still holds; the
   expiry of the relay's cache.
2. `ReplaceTransaction` and `EstimateFees` of `btc.go`.
3. `PublishData` with a key that cannot be used: it answers with status 500 and returns
   the text "error" as if it were the query of a peer.

Left out for good: the cryptographic rounds (tss-lib), encryption and key
formats, block-explorer requests, logging, the command line tools and scripts.
The status map is modelled where it numbers messages; what it shows of the progress is
left out.
