-------------------------- MODULE PeerExchange_proofs --------------------------
(***************************************************************************)
(* Peer discovery and the exchange after it, for any number of devices,    *)
(* plans of their callers and losses.  A step is known by what it does to  *)
(* the listeners, to the probes (Cells) and to the results (Results); the  *)
(* invariants are                                                          *)
(*   Types        ExchangeTypeOK, one group of variables at a time;        *)
(*   PublishInv   no handler of a duo publisher answers before the caller  *)
(*                took its request;                                        *)
(*   AnswerInv    an answer is true when it is given, and what it says     *)
(*                stays true while its device is up: also in the view of a *)
(*                probe that appends to what it read before;               *)
(*   DistinctInv  a probe that will append is of a host not yet found, and *)
(*                what it read is of hosts that are, none of them twice;   *)
(*   PairInv      whomever a listener or one of its handlers knows of is   *)
(*                told, or is being told, or the callback was missed;      *)
(*   PortInv      a publisher's port is that of a PublishData that runs;   *)
(*   AskInv       a FetchData that waits has its request somewhere.        *)
(***************************************************************************)
EXTENDS PeerExchange, SequenceTheorems, TLAPS

NetTypes ==
  /\ setting \in SettingType /\ setting \in Setting
  /\ up \subseteq Device /\ lost \in 0..setting.losses
  /\ port \in [Device -> {"free", "relay", "listener", "publisher"}]
  /\ net \subseteq Request /\ missed \subseteq Device \X Device

ListenTypes ==
  /\ lPc \in [Device -> {"idle", "serve", "closing", "returned"}]
  /\ heard \in [Device -> SUBSET Device]
  /\ collected \in [Device -> Seq(Device)] /\ found \in [Device -> Seq(Device)]
  /\ lResult \in [Device -> Seq(Device)] /\ handling \subseteq Handler

DiscoverTypes ==
  /\ dPc \in [Device -> {"idle", "remote", "select", "returned"}]
  /\ todo \in [Device -> Seq(Device)] /\ expired \in [Device -> BOOLEAN]
  /\ probe \in [Device -> [Device -> Probe]]
  /\ hosts \in [Device -> SUBSET Device]
  /\ payloads \in [Device -> Seq(Answer)] /\ dResult \in [Device -> Seq(Answer)]

ExchangeTypes ==
  /\ pPc \in [Device -> {"idle", "serve", "closing", "returned"}]
  /\ fPc \in [Device -> {"idle", "asking", "returned"}]
  /\ clients \in [Device -> SUBSET Device] /\ fetched \subseteq Device
  /\ queries \in [Device -> Seq(Request)] /\ pResult \in [Device -> Seq(Request)]
  /\ serving \subseteq [req : Request, at : {"collect", "emit", "flush"},
                        fresh : BOOLEAN, view : Seq(Request)]

Types == NetTypes /\ ListenTypes /\ DiscoverTypes /\ ExchangeTypes

LEMMA TypesMeanTypeOK == Types => ExchangeTypeOK
<1> SUFFICES ASSUME Types PROVE ExchangeTypeOK
  OBVIOUS
<1>1. TypeOK
  BY DEF Types, NetTypes, ListenTypes, DiscoverTypes, TypeOK
<1>2. QED
  BY <1>1 DEF Types, ExchangeTypes, ExchangeTypeOK

LEMMA ConstantTypes ==
  /\ Off \in Probe /\ Done \in Probe
  /\ \A d, ip \in Device : ProbeOf(d, ip) \in Request /\ CallbackOf(d, ip) \in Request
<1>1. <<>> \in Seq(Answer)
  OBVIOUS
<1>2. Off \in Probe
  BY <1>1 DEF Off, Probe
<1>3. Done \in Probe
  BY <1>2 DEF Done, Probe
<1>4. QED
  BY <1>2, <1>3 DEF ProbeOf, CallbackOf, Request

LEMMA InitTypes == ExchangeInit => Types
<1> SUFFICES ASSUME ExchangeInit PROVE Types
  OBVIOUS
<1>1. NetTypes
  BY SettingAssumption DEF ExchangeInit, Init, NetTypes, SettingType
<1>2. ListenTypes
  BY DEF ExchangeInit, Init, ListenTypes
<1>3. DiscoverTypes
  BY ConstantTypes DEF ExchangeInit, Init, DiscoverTypes
<1>4. ExchangeTypes
  BY DEF ExchangeInit, ExchangeTypes
<1>5. QED
  BY <1>1, <1>2, <1>3, <1>4 DEF Types

-----------------------------------------------------------------------------
(* The steps by what they touch. *)

\* What DiscoverPeers does by itself.
Asks(d) ==
  \/ Start(d) \/ SkipSelf(d) \/ Check(d) \/ Checked(d) \/ Scan(d)
  \/ DiscoverTimeout(d) \/ Expire(d)
  \/ \E ip \in Device : Ask(d, ip) \/ Take(d, ip) \/ Add(d, ip) \/ Receive(d, ip)

\* What ListenForPeers does by itself.
Listens(d) == Listen(d) \/ ListenBusy(d) \/ ListenFound(d)
Closes(d)  == ListenClose(d) \/ ListenTimeout(d)

\* What the listener or the network does to a request.
Handles(r) == Accept(r) \/ AcceptClosing(r) \/ Refuse(r) \/ Lose(r)

\* The steps of the discovery alone.
Discovery ==
  /\ UNCHANGED exchangeVars
  /\ \/ \E d \in up : Asks(d) \/ Listens(d) \/ Closes(d) \/ \E ip \in Device : GiveUp(d, ip)
     \/ \E r \in net : Handles(r)
     \/ \E h \in handling : h.req.to \in up /\ Finish(h)

\* What PublishData and FetchData do without an answer to anyone.
Shares(d) ==
  \/ Publish(d) \/ PublishBusy(d) \/ Fetch(d) \/ FetchLost(d)
  \/ \E h \in serving : h.req.to = d /\ (Collect(h) \/ Emit(h))

\* What the publisher does to a request.
Answers(r) == Serve(r) \/ Reject(r) \/ FetchMisses(r)

Exchange ==
  \/ \E d \in up : Shares(d) \/ PublishEnds(d)
  \/ \E r \in net : Answers(r)
  \/ \E h \in serving : Flush(h)

Dying(d) == /\ MapRace(d) \/ PublishRace(d)
            /\ CutServing(d) /\ UNCHANGED <<pPc, clients, queries, pResult, fetched>>
Death == \E d \in up : Dying(d)

LEMMA StepKinds ==
  ASSUME [Next]_allVars
  PROVE  Discovery \/ Exchange \/ Death \/ UNCHANGED allVars
<1>1. ASSUME NEW d \in Device, ExchangeCalls(d)
      PROVE  Discovery \/ Exchange
  BY <1>1 DEF ExchangeCalls, Calls, Discovery, Asks, Listens, Closes, Handles, Exchange, Shares,
              Answers
<1>2. ASSUME NEW d \in Device, ExchangeServes(d)
      PROVE  Discovery \/ Exchange
  BY <1>2 DEF ExchangeServes, Serves, Discovery, Handles, Exchange, Shares, Answers
<1>3. ASSUME NEW d \in Device, ExchangeFaults(d)
      PROVE  Discovery \/ Exchange \/ Death
  BY <1>3 DEF ExchangeFaults, Faults, Discovery, Handles, Exchange, Shares, Death, Dying
<1>4. QED
  BY <1>1, <1>2, <1>3 DEF Next

LEMMA NetTypesStep == Types /\ [Next]_allVars => NetTypes'
<1> SUFFICES ASSUME Types, [Next]_allVars PROVE NetTypes'
  OBVIOUS
<1> USE DEF Types, NetTypes
<1>0. setting.losses \in Nat
  BY DEF SettingType
<1>1. ASSUME NEW d \in up, Asks(d) PROVE NetTypes'
  <2>1. UNCHANGED <<setting, up, port, lost, missed>>
    BY <1>1 DEF Asks, Start, SkipSelf, Check, Checked, Scan, DiscoverTimeout, Expire, Ask, Take,
                Add, Receive, DiscoverEnds
  <2>2. net' = net \/ \E ip \in Device : net' = net \cup {ProbeOf(d, ip)}
    BY <1>1 DEF Asks, Start, SkipSelf, Check, Checked, Scan, DiscoverTimeout, Expire, Ask, Take,
                Add, Receive, DiscoverEnds
  <2>3. QED
    BY <2>1, <2>2, ConstantTypes
<1>2. ASSUME NEW d \in up, Listens(d) PROVE NetTypes'
  BY <1>2 DEF Listens, Listen, ListenBusy, ListenFound
<1>3. ASSUME NEW d \in up, Closes(d) PROVE NetTypes'
  <2>1. \A h \in handling : Untaken(h.req) \subseteq Device \X Device
    BY DEF ListenTypes, Handler, Request, Untaken
  <2>2. UNCHANGED <<setting, up, lost, net>> /\ port' = [port EXCEPT ![d] = "free"]
    BY <1>3 DEF Closes, ListenClose, ListenTimeout, CloseListener
  <2>3. missed' \subseteq missed \cup UNION {Untaken(h.req) : h \in handling}
    BY <1>3 DEF Closes, ListenClose, ListenTimeout, CloseListener
  <2>4. QED
    BY <2>1, <2>2, <2>3
<1>4. ASSUME NEW d \in up, NEW ip \in Device, GiveUp(d, ip) PROVE NetTypes'
  BY <1>0, <1>4 DEF GiveUp
<1>5. ASSUME NEW r \in net, Handles(r) PROVE NetTypes'
  <2>1. /\ UNCHANGED <<setting, up, port>> /\ net' \subseteq net \cup {CallbackOf(r.to, r.from)}
        /\ missed' \subseteq missed \cup Untaken(r)
        /\ lost' = lost \/ (lost < setting.losses /\ lost' = lost + 1)
    <3>1. CASE Accept(r) \/ AcceptClosing(r)
      BY <3>1 DEF Accept, AcceptClosing, CallBack
    <3>2. CASE Refuse(r) \/ Lose(r)
      BY <3>2 DEF Refuse, Lose, Fails
    <3>3. QED
      BY <1>5, <3>1, <3>2 DEF Handles
  <2>2. CallbackOf(r.to, r.from) \in Request /\ Untaken(r) \subseteq Device \X Device
    BY ConstantTypes DEF Request, Untaken
  <2>3. QED
    BY <1>0, <2>1, <2>2
<1>6. ASSUME NEW h \in handling, Finish(h) PROVE NetTypes'
  BY <1>6 DEF Finish
<1>7. ASSUME NEW d \in up, Shares(d) \/ PublishEnds(d) PROVE NetTypes'
  <2>1. /\ UNCHANGED <<setting, up, missed>>
        /\ \/ port' = port
           \/ \E x \in {"free", "publisher"} : port' = [port EXCEPT ![d] = x]
        /\ lost' = lost \/ (lost < setting.losses /\ lost' = lost + 1)
    <3>1. CASE Publish(d) \/ PublishEnds(d)
      BY <3>1 DEF Publish, PublishEnds
    <3>2. CASE PublishBusy(d) \/ \E h \in serving : Collect(h) \/ Emit(h)
      BY <3>2 DEF PublishBusy, Collect, Emit, vars
    <3>3. CASE Fetch(d) \/ FetchLost(d)
      BY <3>3 DEF Fetch, FetchLost
    <3>4. QED
      BY <1>7, <3>1, <3>2, <3>3 DEF Shares
  <2>2. net' \subseteq Request
    <3>1. CASE Fetch(d)
      BY <3>1 DEF Fetch, SettingType, Request
    <3>2. CASE ~ Fetch(d)
      BY <1>7, <3>2 DEF Shares, Publish, PublishBusy, FetchLost, Collect, Emit, PublishEnds, vars
    <3>3. QED
      BY <3>1, <3>2
  <2>3. QED
    BY <1>0, <2>1, <2>2
<1>8. ASSUME NEW r \in net, Answers(r) PROVE NetTypes'
  <2>1. /\ UNCHANGED <<setting, up, port, lost>> /\ net' \subseteq net
        /\ missed' \subseteq missed \cup Untaken(r)
    BY <1>8 DEF Answers, Serve, Reject, FetchMisses
  <2>2. Untaken(r) \subseteq Device \X Device
    BY DEF Request, Untaken
  <2>3. QED
    BY <2>1, <2>2
<1>9. ASSUME NEW h \in serving, Flush(h) PROVE NetTypes'
  BY <1>9 DEF Flush
<1>10. ASSUME NEW d \in up, MapRace(d) \/ PublishRace(d) PROVE NetTypes'
  BY <1>10 DEF MapRace, PublishRace, Dies
<1>11. CASE UNCHANGED allVars
  BY <1>11 DEF allVars, vars
<1>12. QED
  BY <1>1, <1>2, <1>3, <1>4, <1>5, <1>6, <1>7, <1>8, <1>9, <1>10, <1>11, StepKinds
     DEF Discovery, Exchange, Death, Dying

-----------------------------------------------------------------------------
LEMMA ListenFrame ==
  /\ \A d \in up : Asks(d) \/ Shares(d) \/ PublishEnds(d) \/ (\E ip \in Device : GiveUp(d, ip))
       => UNCHANGED listenVars
  /\ \A r \in net : Answers(r) \/ AcceptClosing(r) \/ Refuse(r) \/ Lose(r) => UNCHANGED listenVars
  /\ \A h \in serving : Flush(h) => UNCHANGED listenVars
<1>1. ASSUME NEW d \in up, Asks(d) PROVE UNCHANGED listenVars
  BY <1>1 DEF Asks, Start, SkipSelf, Check, Checked, Scan, DiscoverTimeout, Expire, Ask, Take,
              Add, Receive, DiscoverEnds
<1>2. ASSUME NEW d \in up, Shares(d) PROVE UNCHANGED listenVars
  BY <1>2 DEF Shares, Publish, PublishBusy, Fetch, FetchLost, Collect, Emit, vars
<1>3. ASSUME NEW d \in up, PublishEnds(d) \/ \E ip \in Device : GiveUp(d, ip)
      PROVE  UNCHANGED listenVars
  BY <1>3 DEF PublishEnds, GiveUp
<1>4. ASSUME NEW r \in net, Answers(r) \/ AcceptClosing(r) \/ Refuse(r) \/ Lose(r)
      PROVE  UNCHANGED listenVars
  BY <1>4 DEF Answers, Serve, Reject, FetchMisses, AcceptClosing, Refuse, Lose, Fails
<1>5. ASSUME NEW h \in serving, Flush(h) PROVE UNCHANGED listenVars
  BY <1>5 DEF Flush
<1>6. QED
  BY <1>1, <1>2, <1>3, <1>4, <1>5

LEMMA AppendRange ==
  ASSUME NEW S, NEW s \in Seq(S), NEW x \in S
  PROVE  Append(s, x) \in Seq(S) /\ Range(Append(s, x)) = Range(s) \cup {x}
<1>1. /\ Append(s, x) \in Seq(S) /\ Len(Append(s, x)) = Len(s) + 1 /\ Len(s) \in Nat
      /\ \A i \in 1 .. Len(s) : Append(s, x)[i] = s[i]
      /\ Append(s, x)[Len(s) + 1] = x
  OBVIOUS
<1>2. DOMAIN s = 1 .. Len(s) /\ DOMAIN Append(s, x) = 1 .. Len(s) + 1
  BY <1>1
<1>3. QED
  BY <1>1, <1>2 DEF Range

LEMMA FirstTwo ==
  ASSUME NEW S, NEW s \in Seq(S), Len(s) >= 2
  PROVE  SubSeq(s, 1, 2) \in Seq(S) /\ Range(SubSeq(s, 1, 2)) \subseteq Range(s)
<1>1. /\ SubSeq(s, 1, 2) \in Seq(S) /\ Len(SubSeq(s, 1, 2)) = 2
      /\ \A i \in 1 .. 2 : SubSeq(s, 1, 2)[i] = s[i]
  OBVIOUS
<1>2. DOMAIN s = 1 .. Len(s) /\ DOMAIN SubSeq(s, 1, 2) = 1 .. 2 /\ Len(s) \in Nat
  BY <1>1
<1>3. QED
  BY <1>1, <1>2 DEF Range

\* What a handler leaves is of what was collected and of who asked.
LEMMA FinishCollects ==
  ASSUME Types, NEW h \in handling, NEW base \in {h.view, collected[h.req.to]}
  PROVE  LET all == Collects(h, base) IN
         /\ all \in Seq(Device) /\ Offer(h, all) \in Seq(Device)
         /\ Range(all) \subseteq Range(base) \cup Range(collected[h.req.to]) \cup {h.req.from}
         /\ Range(Offer(h, all)) \subseteq Range(all) \cup {h.req.from}
<1> DEFINE all == Collects(h, base)
<1>1. /\ h.req.to \in Device /\ h.req.from \in Device /\ base \in Seq(Device)
      /\ collected[h.req.to] \in Seq(Device)
  BY DEF Types, ListenTypes, Handler, Request
<1>2. all \in Seq(Device) /\ Range(all) \subseteq Range(base) \cup Range(collected[h.req.to]) \cup {h.req.from}
  BY <1>1, AppendRange DEF Collects
<1> HIDE DEF all
<1>3. <<>> \in Seq(Device) /\ Range(<<>>) = {}
  BY DEF Range
<1>4. <<h.req.from>> \in Seq(Device) /\ Range(<<h.req.from>>) = {h.req.from}
  <2>1. <<h.req.from>> \in Seq(Device) /\ <<h.req.from>>[1] = h.req.from
    BY <1>1
  <2>2. DOMAIN <<h.req.from>> = {1}
    OBVIOUS
  <2>3. QED
    BY <2>1, <2>2 DEF Range
<1>5. Offer(h, all) \in Seq(Device) /\ Range(Offer(h, all)) \subseteq Range(all) \cup {h.req.from}
  BY <1>2, <1>3, <1>4, FirstTwo DEF Offer
<1>6. QED
  BY <1>2, <1>5 DEF all

LEMMA ListenTypesStep == Types /\ [Next]_allVars => ListenTypes'
<1> SUFFICES ASSUME Types, [Next]_allVars PROVE ListenTypes'
  OBVIOUS
<1> USE DEF Types, ListenTypes
<1>0. up \subseteq Device /\ net \subseteq Request /\ <<>> \in Seq(Device)
  BY DEF NetTypes
<1>1. ASSUME NEW d \in up, Listens(d) PROVE ListenTypes'
  <2>1. UNCHANGED <<heard, collected, found, handling>>
    BY <1>1 DEF Listens, Listen, ListenBusy, ListenFound
  <2>2. /\ lPc' \in [Device -> {"idle", "serve", "closing", "returned"}]
        /\ lResult' \in [Device -> Seq(Device)]
    BY <1>0, <1>1 DEF Listens, Listen, ListenBusy, ListenFound
  <2>3. QED
    BY <2>1, <2>2
<1>2. ASSUME NEW d \in up, Closes(d) PROVE ListenTypes'
  <2>1. /\ lPc' = [lPc EXCEPT ![d] = "returned"] /\ UNCHANGED <<heard, lResult>>
        /\ collected' = [collected EXCEPT ![d] = <<>>] /\ found' = [found EXCEPT ![d] = <<>>]
        /\ handling' \subseteq handling
    BY <1>2 DEF Closes, ListenClose, ListenTimeout, CloseListener
  <2>2. QED
    BY <1>0, <2>1
<1>3. ASSUME NEW r \in net, Accept(r) PROVE ListenTypes'
  <2>1. r \in Request /\ collected[r.to] \in Seq(Device)
    BY <1>0 DEF Request
  <2>2. \A b \in BOOLEAN : [req |-> r, fresh |-> b, view |-> collected[r.to]] \in Handler
    BY <2>1 DEF Handler
  <2>3. QED
    BY <1>3, <2>2 DEF Accept
<1>4. ASSUME NEW h \in handling, Finish(h) PROVE ListenTypes'
  <2>1. PICK base \in {h.view, collected[h.req.to]} :
          LET all == Collects(h, base) IN
          /\ collected' = [collected EXCEPT ![h.req.to] = all]
          /\ found' = [found EXCEPT ![h.req.to] =
                         IF @ = <<>> /\ lPc[h.req.to] = "serve" THEN Offer(h, all) ELSE @]
    BY <1>4 DEF Finish
  <2>2. /\ handling' = handling \ {h} /\ UNCHANGED <<lPc, lResult>>
        /\ heard' = [heard EXCEPT ![h.req.to] = @ \cup {h.req.from}]
    BY <1>4 DEF Finish
  <2>3. h.req.to \in Device /\ h.req.from \in Device
    BY DEF Handler, Request
  <2>4. QED
    BY <2>1, <2>2, <2>3, FinishCollects
<1>5. ASSUME NEW d \in up, MapRace(d) \/ PublishRace(d) PROVE ListenTypes'
  <2>1. /\ lPc' = [lPc EXCEPT ![d] = "returned"] /\ heard' = [heard EXCEPT ![d] = {}]
        /\ collected' = [collected EXCEPT ![d] = <<>>] /\ found' = [found EXCEPT ![d] = <<>>]
        /\ lResult' = [lResult EXCEPT ![d] = <<>>] /\ handling' \subseteq handling
    BY <1>5 DEF MapRace, PublishRace, Dies
  <2>2. QED
    BY <1>0, <2>1
<1>6. CASE UNCHANGED listenVars
  BY <1>6 DEF listenVars
<1>7. CASE UNCHANGED allVars
  BY <1>6, <1>7 DEF allVars, vars
<1>8. QED
  BY <1>1, <1>2, <1>3, <1>4, <1>5, <1>6, <1>7, StepKinds, ListenFrame
     DEF Discovery, Exchange, Death, Dying, Handles

-----------------------------------------------------------------------------
(* What happens to a probe. *)

\* One probe of one device is replaced.
LEMMA PutProbe ==
  Types => \A d, ip \in Device, v \in Probe :
    LET put == [probe EXCEPT ![d][ip] = v] IN
    /\ put \in [Device -> [Device -> Probe]] /\ put[d][ip] = v
    /\ \A e, q \in Device : e # d \/ q # ip => put[e][q] = probe[e][q]
BY DEF Types, DiscoverTypes

\* An answer to a probe that waits for it: a listener's, if it has heard who
\* asks, an empty one of a listener that is closing, or a publisher's.
Answered(d, ip) == \E b \in {"peer", "empty", "data"} :
  /\ probe'[d][ip] = [probe[d][ip] EXCEPT !.at = "answered", !.body = b]
  /\ b = "peer" => d \in heard'[ip]
  /\ b = "empty" => lPc[ip] = "closing"

\* What others do to a probe.
Settled(d, ip) == \/ probe'[d][ip] = probe[d][ip]
                  \/ probe[d][ip].at = "asking" /\ (probe'[d][ip] = Done \/ Answered(d, ip))

LEMMA AnswerSettles ==
  ASSUME Types, NEW r \in Request, NEW b \in {"peer", "empty", "data"}, probe' = AnswerTo(r, b),
         b = "peer" => r.from \in heard'[r.to], b = "empty" => lPc[r.to] = "closing"
  PROVE  /\ probe' \in [Device -> [Device -> Probe]]
         /\ \A d, ip \in Device : Settled(d, ip)
<1>1. CASE probe' = probe
  BY <1>1 DEF Settled, Types, DiscoverTypes
<1>2. CASE probe' # probe
  <2> DEFINE v == [probe[r.from][r.to] EXCEPT !.at = "answered", !.body = b]
  <2>1. r.from \in Device /\ r.to \in Device
    BY DEF Request
  <2>2. probe[r.from][r.to] \in Probe
    BY <2>1 DEF Types, DiscoverTypes
  <2>3. v \in Probe
    BY <2>2 DEF Probe
  <2>4. probe[r.from][r.to].at = "asking" /\ probe' = [probe EXCEPT ![r.from][r.to] = v]
    BY <1>2, <2>1, <2>2 DEF AnswerTo, Types, DiscoverTypes, Probe
  <2> HIDE DEF v
  <2>5. /\ probe' \in [Device -> [Device -> Probe]] /\ probe'[r.from][r.to] = v
        /\ \A e, q \in Device : e # r.from \/ q # r.to => probe'[e][q] = probe[e][q]
    BY <2>1, <2>3, <2>4, PutProbe
  <2>6. Settled(r.from, r.to)
    BY <2>4, <2>5 DEF Settled, Answered, v
  <2>7. QED
    BY <2>5, <2>6 DEF Settled
<1>3. QED
  BY <1>1, <1>2

LEMMA DoneSettles ==
  ASSUME Types, NEW d \in Device, NEW ip \in Device, probe[d][ip].at = "asking",
         probe' = [probe EXCEPT ![d][ip] = Done]
  PROVE  /\ probe' \in [Device -> [Device -> Probe]]
         /\ \A e, q \in Device : Settled(e, q)
BY PutProbe, ConstantTypes DEF Settled

LEMMA ErrorSettles ==
  ASSUME Types, NEW r \in Request, probe' = ErrorTo(r)
  PROVE  /\ probe' \in [Device -> [Device -> Probe]]
         /\ \A d, ip \in Device : Settled(d, ip)
<1>1. CASE probe' = probe
  BY <1>1 DEF Settled, Types, DiscoverTypes
<1>2. CASE probe[r.from][r.to].at = "asking" /\ probe' = [probe EXCEPT ![r.from][r.to] = Done]
  BY <1>2, DoneSettles DEF Request
<1>3. QED
  BY <1>1, <1>2 DEF ErrorTo

LEMMA CutSettles ==
  ASSUME Types, NEW d \in Device
  PROVE  /\ Cut(d) \in [Device -> [Device -> Probe]]
         /\ \A e, q \in Device :
           Cut(d)[e][q] = probe[e][q] \/ (probe[e][q].at = "asking" /\ Cut(d)[e][q] = Done)
BY ConstantTypes DEF Cut, Types, DiscoverTypes

\* The steps that only settle probes.
Settles ==
  \/ \E d \in up : Closes(d) \/ PublishEnds(d) \/ \E ip \in Device : GiveUp(d, ip)
  \/ \E r \in net : AcceptClosing(r) \/ Refuse(r) \/ Lose(r) \/ Reject(r)
  \/ \E h \in handling : Finish(h)
  \/ \E h \in serving : Flush(h)

LEMMA SettlesSettle ==
  ASSUME Types, Settles
  PROVE  /\ probe' \in [Device -> [Device -> Probe]]
         /\ \A d, ip \in Device : Settled(d, ip)
         /\ UNCHANGED <<dPc, todo, expired, hosts, payloads, dResult>>
<1> DEFINE Goal == /\ probe' \in [Device -> [Device -> Probe]]
                   /\ \A d, ip \in Device : Settled(d, ip)
                   /\ UNCHANGED <<dPc, todo, expired, hosts, payloads, dResult>>
<1>1. ASSUME NEW d \in up, Closes(d) \/ PublishEnds(d) PROVE Goal
  <2>1. probe' = Cut(d) /\ UNCHANGED <<dPc, todo, expired, hosts, payloads, dResult>>
    BY <1>1 DEF Closes, ListenClose, ListenTimeout, CloseListener, PublishEnds
  <2>2. d \in Device
    BY DEF Types, NetTypes
  <2>3. QED
    BY <2>1, <2>2, CutSettles DEF Settled
<1>2. ASSUME NEW d \in up, NEW ip \in Device, GiveUp(d, ip) PROVE Goal
  BY <1>2, DoneSettles DEF GiveUp, Types, NetTypes
<1>3. ASSUME NEW r \in net, AcceptClosing(r) PROVE Goal
  BY <1>3, AnswerSettles DEF AcceptClosing, Types, NetTypes
<1>4. ASSUME NEW r \in net, Refuse(r) \/ Lose(r) \/ Reject(r) PROVE Goal
  BY <1>4, ErrorSettles DEF Refuse, Lose, Reject, Fails, Types, NetTypes
<1>5. ASSUME NEW h \in handling, Finish(h) PROVE Goal
  <2>1. h.req \in Request /\ h.req.to \in Device /\ heard \in [Device -> SUBSET Device]
    BY DEF Types, ListenTypes, Handler, Request
  <2>2. /\ probe' = AnswerTo(h.req, "peer") /\ heard' = [heard EXCEPT ![h.req.to] = @ \cup {h.req.from}]
        /\ UNCHANGED <<dPc, todo, expired, hosts, payloads, dResult>>
    BY <1>5 DEF Finish
  <2>3. h.req.from \in heard'[h.req.to]
    BY <2>1, <2>2
  <2>4. QED
    BY <2>1, <2>2, <2>3, AnswerSettles
<1>6. ASSUME NEW h \in serving, Flush(h) PROVE Goal
  BY <1>6, AnswerSettles DEF Flush, Types, ExchangeTypes
<1>7. QED
  BY <1>1, <1>2, <1>3, <1>4, <1>5, <1>6 DEF Settles

LEMMA DiscoverFrame ==
  /\ \A d \in up : Listens(d) \/ Shares(d) => UNCHANGED discoverVars
  /\ \A r \in net : Accept(r) \/ Serve(r) \/ FetchMisses(r) => UNCHANGED discoverVars
<1>1. ASSUME NEW d \in up, Listens(d) PROVE UNCHANGED discoverVars
  BY <1>1 DEF Listens, Listen, ListenBusy, ListenFound
<1>2. ASSUME NEW d \in up, Shares(d) PROVE UNCHANGED discoverVars
  BY <1>2 DEF Shares, Publish, PublishBusy, Fetch, FetchLost, Collect, Emit, vars
<1>3. ASSUME NEW r \in net, Accept(r) \/ Serve(r) \/ FetchMisses(r)
      PROVE  UNCHANGED discoverVars
  BY <1>3 DEF Accept, Serve, FetchMisses
<1>4. QED
  BY <1>1, <1>2, <1>3

\* The steps of discovery, by what they do to the discoverers.
LEMMA DiscoverKinds ==
  ASSUME [Next]_allVars
  PROVE  (\E d \in up : Asks(d)) \/ Settles \/ Death \/ UNCHANGED discoverVars
<1>1. CASE UNCHANGED allVars
  BY <1>1 DEF allVars, vars
<1>2. QED
  BY <1>1, StepKinds, DiscoverFrame DEF Discovery, Exchange, Handles, Answers, Settles

\* What the steps of a discoverer write, and where.
Changes(d, ip, v) == v \in Probe /\ probe' = [probe EXCEPT ![d][ip] = v]

LEMMA ChangesOne ==
  Types => \A d, ip \in Device : \A v : Changes(d, ip, v) =>
    /\ v \in Probe /\ probe' \in [Device -> [Device -> Probe]] /\ probe'[d][ip] = v
    /\ \A e, q \in Device : e # d \/ q # ip => probe'[e][q] = probe[e][q]
<1> SUFFICES ASSUME Types, NEW d \in Device, NEW ip \in Device, NEW v, Changes(d, ip, v)
    PROVE  /\ v \in Probe /\ probe' \in [Device -> [Device -> Probe]] /\ probe'[d][ip] = v
           /\ \A e, q \in Device : e # d \/ q # ip => probe'[e][q] = probe[e][q]
  OBVIOUS
<1>1. v \in Probe /\ probe' = [probe EXCEPT ![d][ip] = v]
  BY DEF Changes
<1>2. QED
  BY <1>1, PutProbe

LEMMA AskWrites ==
  ASSUME Types, NEW d \in up, NEW ip \in Device
  PROVE  /\ Ask(d, ip) => \E v \in {Done, [probe[d][ip] EXCEPT !.at = "asking"]} : Changes(d, ip, v)
         /\ Take(d, ip) => Changes(d, ip,
              IF Duo THEN [probe[d][ip] EXCEPT !.at = "sending"]
              ELSE IF Known(d, ip) THEN Done
              ELSE [probe[d][ip] EXCEPT !.at = "adding", !.view = payloads[d]])
         /\ Add(d, ip) => \E base \in {probe[d][ip].view, payloads[d]} :
              LET all == Append(base, [ip |-> ip, body |-> probe[d][ip].body]) IN
              /\ base \in Seq(Answer) /\ all \in Seq(Answer)
              /\ Range(all) = Range(base) \cup {[ip |-> ip, body |-> probe[d][ip].body]}
              /\ payloads' = [payloads EXCEPT ![d] = all]
              /\ Changes(d, ip, IF Len(all) >= 2 THEN [Off EXCEPT !.at = "sending", !.view = all]
                                ELSE Done)
<1> DEFINE p == probe[d][ip]
<1>1. p \in Probe /\ d \in Device /\ payloads[d] \in Seq(Answer)
  BY DEF Types, NetTypes, DiscoverTypes
<1>2. [p EXCEPT !.at = "asking"] \in Probe /\ [p EXCEPT !.at = "sending"] \in Probe
  BY <1>1 DEF Probe
<1>3. [p EXCEPT !.at = "adding", !.view = payloads[d]] \in Probe
  BY <1>1 DEF Probe
<1>4. probe \in [Device -> [Device -> Probe]]
  BY DEF Types, DiscoverTypes
<1>5. Ask(d, ip) => \E v \in {Done, [p EXCEPT !.at = "asking"]} : Changes(d, ip, v)
  <2> SUFFICES ASSUME Ask(d, ip) PROVE \E v \in {Done, [p EXCEPT !.at = "asking"]} : Changes(d, ip, v)
    OBVIOUS
  <2>1. CASE expired[d]
    BY <2>1, ConstantTypes DEF Ask, Changes
  <2>2. CASE ~ expired[d]
    <3>1. probe' = [probe EXCEPT ![d][ip] = [p EXCEPT !.at = "asking"]]
      BY <1>1, <1>4, <2>2 DEF Ask
    <3>2. QED
      BY <1>2, <3>1 DEF Changes
  <2>3. QED
    BY <2>1, <2>2
<1>6. Take(d, ip) => Changes(d, ip,
        IF Duo THEN [p EXCEPT !.at = "sending"]
        ELSE IF Known(d, ip) THEN Done ELSE [p EXCEPT !.at = "adding", !.view = payloads[d]])
  <2> SUFFICES ASSUME Take(d, ip)
               PROVE  Changes(d, ip, IF Duo THEN [p EXCEPT !.at = "sending"]
                        ELSE IF Known(d, ip) THEN Done
                        ELSE [p EXCEPT !.at = "adding", !.view = payloads[d]])
    OBVIOUS
  <2>1. CASE Duo
    <3>1. probe' = [probe EXCEPT ![d][ip] = [p EXCEPT !.at = "sending"]]
      BY <1>1, <1>4, <2>1 DEF Take
    <3>2. QED
      BY <1>2, <2>1, <3>1 DEF Changes
  <2>2. CASE ~ Duo /\ Known(d, ip)
    <3>1. probe' = [probe EXCEPT ![d][ip] = Done]
      BY <1>1, <1>4, <2>2 DEF Take
    <3>2. QED
      BY ConstantTypes, <2>2, <3>1 DEF Changes
  <2>3. CASE ~ Duo /\ ~ Known(d, ip)
    <3>1. probe' = [probe EXCEPT ![d][ip] = [p EXCEPT !.at = "adding", !.view = payloads[d]]]
      BY <1>1, <1>4, <2>3 DEF Take
    <3>2. QED
      BY <1>3, <2>3, <3>1 DEF Changes
  <2>4. QED
    BY <2>1, <2>2, <2>3
<1>7. ASSUME Add(d, ip)
      PROVE  \E base \in {p.view, payloads[d]} :
               LET all == Append(base, [ip |-> ip, body |-> p.body]) IN
               /\ base \in Seq(Answer) /\ all \in Seq(Answer)
               /\ Range(all) = Range(base) \cup {[ip |-> ip, body |-> p.body]}
               /\ payloads' = [payloads EXCEPT ![d] = all]
               /\ Changes(d, ip, IF Len(all) >= 2 THEN [Off EXCEPT !.at = "sending", !.view = all]
                                 ELSE Done)
  <2>1. PICK base \in {p.view, payloads[d]} :
          LET all == Append(base, [ip |-> ip, body |-> p.body]) IN
          /\ payloads' = [payloads EXCEPT ![d] = all]
          /\ probe' = [probe EXCEPT ![d][ip] =
                         IF Len(all) >= 2 THEN [Off EXCEPT !.at = "sending", !.view = all] ELSE Done]
    BY <1>7 DEF Add
  <2>2. base \in Seq(Answer)
    BY <1>1 DEF Probe
  <2>3. [ip |-> ip, body |-> p.body] \in Answer
    BY <1>1 DEF Probe, Answer
  <2> DEFINE all == Append(base, [ip |-> ip, body |-> p.body])
  <2>4. all \in Seq(Answer) /\ Range(all) = Range(base) \cup {[ip |-> ip, body |-> p.body]}
    BY <2>2, <2>3, AppendRange
  <2> HIDE DEF all
  <2>5. [Off EXCEPT !.at = "sending", !.view = all] \in Probe
    BY <2>4 DEF Off, Probe
  <2>6. Changes(d, ip, IF Len(all) >= 2 THEN [Off EXCEPT !.at = "sending", !.view = all] ELSE Done)
    BY <2>1, <2>5, ConstantTypes DEF Changes, all
  <2>7. QED
    BY <2>1, <2>2, <2>4, <2>6 DEF all
<1>8. QED
  BY <1>5, <1>6, <1>7

LEMMA CheckWrites ==
  ASSUME Types, NEW d \in up, Check(d) \/ Checked(d)
  PROVE  \E ip \in Device : \E v \in {Off, [probe[d][ip] EXCEPT !.at = "ready"]} :
           Changes(d, ip, v) /\ (v = Off \/ ip # d)
<1> DEFINE ip == Head(todo[d])
<1>1. probe \in [Device -> [Device -> Probe]] /\ d \in Device /\ todo[d] \in Seq(Device)
  BY DEF Types, NetTypes, DiscoverTypes
<1>2. todo[d] # <<>>
  BY DEF Check, Checked
<1>3. ip \in Device
  BY <1>1, <1>2
<1>4. probe[d][ip] \in Probe
  BY <1>1, <1>3
<1>5. [probe[d][ip] EXCEPT !.at = "ready"] \in Probe
  BY <1>4 DEF Probe
<1>6. CASE Check(d)
  <2>1. probe' = [probe EXCEPT ![d][ip] = [probe[d][ip] EXCEPT !.at = "ready"]] /\ ip # d
    BY <1>1, <1>3, <1>4, <1>6 DEF Check
  <2>2. QED
    BY <1>3, <1>5, <2>1 DEF Changes
<1>7. CASE Checked(d)
  <2>1. probe' = [probe EXCEPT ![d][ip] = Off]
    BY <1>7 DEF Checked
  <2>2. QED
    BY <1>3, <2>1, ConstantTypes DEF Changes
<1>8. QED
  BY <1>6, <1>7

\* A row of probes of which none has answered.
Fresh(row, d) == /\ row \in [Device -> Probe] /\ row[d] = Off
                 /\ \A ip \in Device : row[ip].at \in {"off", "ready"}

LEMMA RowWrites ==
  ASSUME Types, NEW d \in up
  PROVE  /\ Scan(d) \/ DiscoverTimeout(d) \/ (\E ip \in Device : Receive(d, ip)) =>
              \E row : Fresh(row, d) /\ probe' = [probe EXCEPT ![d] = row]
         /\ MapRace(d) \/ PublishRace(d) =>
              \E row : Fresh(row, d) /\ probe' = [Cut(d) EXCEPT ![d] = row]
<1>0. d \in Device
  BY DEF Types, NetTypes
<1>1. Fresh([ip \in Device |-> Off], d)
  BY <1>0, ConstantTypes DEF Fresh, Off
<1>2. Scan(d) => \E row : Fresh(row, d) /\ probe' = [probe EXCEPT ![d] = row]
  <2> DEFINE row == [ip \in Device |-> IF ip \in setting.lan \ {d} THEN [Off EXCEPT !.at = "ready"]
                                                                   ELSE Off]
  <2>1. [Off EXCEPT !.at = "ready"] \in Probe
    BY ConstantTypes DEF Probe
  <2>2. Fresh(row, d)
    BY <1>0, <2>1, ConstantTypes DEF Fresh, Off
  <2>3. Scan(d) => probe' = [probe EXCEPT ![d] = row]
    BY DEF Scan
  <2>4. QED
    BY <2>2, <2>3
<1>3. DiscoverTimeout(d) \/ (\E ip \in Device : Receive(d, ip)) =>
        probe' = [probe EXCEPT ![d] = [ip \in Device |-> Off]]
  BY DEF DiscoverTimeout, Receive, DiscoverEnds
<1>4. MapRace(d) \/ PublishRace(d) => probe' = [Cut(d) EXCEPT ![d] = [ip \in Device |-> Off]]
  BY DEF MapRace, PublishRace, Dies
<1>5. QED
  BY <1>1, <1>2, <1>3, <1>4

\* Such a row is put in place of another.
LEMMA PutRow ==
  \A f \in [Device -> [Device -> Probe]], d \in Device : \A row : Fresh(row, d) =>
    LET put == [f EXCEPT ![d] = row] IN
    /\ put \in [Device -> [Device -> Probe]] /\ put[d] = row
    /\ \A e \in Device \ {d} : put[e] = f[e]
BY DEF Fresh

LEMMA DiscoverTypesStep == Types /\ [Next]_allVars => DiscoverTypes'
<1> SUFFICES ASSUME Types, [Next]_allVars PROVE DiscoverTypes'
  OBVIOUS
<1>0. up \subseteq Device /\ DiscoverTypes /\ setting \in SettingType /\ <<>> \in Seq(Answer)
  BY DEF Types, NetTypes
<1> USE DEF DiscoverTypes
<1>1. ASSUME NEW d \in up, Start(d) \/ SkipSelf(d) \/ Expire(d) PROVE DiscoverTypes'
  <2>1. setting.remote[d] \in Seq(Device) /\ todo[d] \in Seq(Device)
    BY <1>0 DEF SettingType
  <2>2. SkipSelf(d) => Tail(todo[d]) \in Seq(Device)
    BY <2>1 DEF SkipSelf
  <2>3. UNCHANGED <<probe, hosts, payloads, dResult>>
    BY <1>1 DEF Start, SkipSelf, Expire
  <2>4. /\ dPc' \in [Device -> {"idle", "remote", "select", "returned"}]
        /\ todo' \in [Device -> Seq(Device)] /\ expired' \in [Device -> BOOLEAN]
    BY <1>0, <1>1, <2>1, <2>2 DEF Start, SkipSelf, Expire
  <2>5. QED
    BY <1>0, <2>3, <2>4
<1>2. ASSUME NEW d \in up, Check(d) \/ Checked(d) PROVE DiscoverTypes'
  <2>1. probe' \in [Device -> [Device -> Probe]]
    BY <1>0, <1>2, CheckWrites, ChangesOne
  <2>2. UNCHANGED <<dPc, expired, hosts, payloads, dResult>>
    BY <1>2 DEF Check, Checked
  <2>3. todo[d] \in Seq(Device)
    BY <1>0
  <2>4. todo' \in [Device -> Seq(Device)]
    <3>1. CASE Check(d)
      BY <1>0, <3>1 DEF Check
    <3>2. CASE Checked(d)
      <4>1. Tail(todo[d]) \in Seq(Device) /\ todo' = [todo EXCEPT ![d] = Tail(@)]
        BY <2>3, <3>2 DEF Checked
      <4>2. QED
        BY <1>0, <4>1
    <3>3. QED
      BY <1>2, <3>1, <3>2
  <2>5. QED
    BY <1>0, <2>1, <2>2, <2>4
<1>3. ASSUME NEW d \in up, Scan(d) \/ DiscoverTimeout(d) PROVE DiscoverTypes'
  <2>1. probe' \in [Device -> [Device -> Probe]]
    <3>1. PICK row : Fresh(row, d) /\ probe' = [probe EXCEPT ![d] = row]
      BY <1>3, RowWrites
    <3>2. QED
      BY <1>0, <3>1, PutRow
  <2>2. /\ dPc' \in [Device -> {"idle", "remote", "select", "returned"}] /\ UNCHANGED <<todo, dResult>>
        /\ expired' \in [Device -> BOOLEAN] /\ hosts' \in [Device -> SUBSET Device]
        /\ payloads' \in [Device -> Seq(Answer)]
    <3>1. CASE Scan(d)
      BY <1>0, <3>1 DEF Scan
    <3>2. CASE DiscoverTimeout(d)
      BY <1>0, <3>2 DEF DiscoverTimeout, DiscoverEnds
    <3>3. QED
      BY <1>3, <3>1, <3>2
  <2>3. QED
    BY <1>0, <2>1, <2>2
<1>4. ASSUME NEW d \in up, NEW ip \in Device, Receive(d, ip) PROVE DiscoverTypes'
  <2>1. probe' \in [Device -> [Device -> Probe]]
    <3>1. PICK row : Fresh(row, d) /\ probe' = [probe EXCEPT ![d] = row]
      BY <1>4, RowWrites
    <3>2. QED
      BY <1>0, <3>1, PutRow
  <2>2. /\ dPc' \in [Device -> {"idle", "remote", "select", "returned"}] /\ UNCHANGED todo
        /\ expired' \in [Device -> BOOLEAN] /\ hosts' \in [Device -> SUBSET Device]
        /\ payloads' \in [Device -> Seq(Answer)]
    BY <1>0, <1>4 DEF Receive, DiscoverEnds
  <2>3. probe[d][ip] \in Probe
    BY <1>0
  <2>4. probe[d][ip].view \in Seq(Answer) /\ [ip |-> ip, body |-> probe[d][ip].body] \in Answer
    BY <2>3 DEF Probe, Answer
  <2>5. <<[ip |-> ip, body |-> probe[d][ip].body]>> \in Seq(Answer)
    BY <2>4
  <2>6. dResult' \in [Device -> Seq(Answer)]
    BY <1>0, <1>4, <2>4, <2>5 DEF Receive
  <2>7. QED
    BY <1>0, <2>1, <2>2, <2>6
<1>5. ASSUME NEW d \in up, NEW ip \in Device, Ask(d, ip) \/ Take(d, ip) PROVE DiscoverTypes'
  <2>1. probe' \in [Device -> [Device -> Probe]]
    <3>1. \E v : Changes(d, ip, v)
      BY <1>0, <1>5, AskWrites
    <3>2. QED
      BY <1>0, <3>1, ChangesOne
  <2>2. UNCHANGED <<dPc, todo, expired, hosts, payloads, dResult>>
    BY <1>5 DEF Ask, Take
  <2>3. QED
    BY <1>0, <2>1, <2>2
<1>6. ASSUME NEW d \in up, NEW ip \in Device, Add(d, ip) PROVE DiscoverTypes'
  <2>1. probe' \in [Device -> [Device -> Probe]] /\ payloads' \in [Device -> Seq(Answer)]
    <3>1. /\ \E v : Changes(d, ip, v)
          /\ \E all : all \in Seq(Answer) /\ payloads' = [payloads EXCEPT ![d] = all]
      BY <1>0, <1>6, AskWrites
    <3>2. QED
      BY <1>0, <3>1, ChangesOne
  <2>2. UNCHANGED <<dPc, todo, expired, dResult>> /\ hosts' = [hosts EXCEPT ![d] = @ \cup {ip}]
    BY <1>6 DEF Add
  <2>3. QED
    BY <1>0, <2>1, <2>2
<1>7. ASSUME NEW d \in up, Asks(d) PROVE DiscoverTypes'
  BY <1>1, <1>2, <1>3, <1>4, <1>5, <1>6, <1>7 DEF Asks
<1>8. CASE Settles
  BY <1>0, <1>8, SettlesSettle
<1>9. CASE Death
  <2>1. PICK d \in up : MapRace(d) \/ PublishRace(d)
    BY <1>9 DEF Death, Dying
  <2>2. probe' \in [Device -> [Device -> Probe]]
    <3>1. PICK row : Fresh(row, d) /\ probe' = [Cut(d) EXCEPT ![d] = row]
      BY <2>1, RowWrites
    <3>2. QED
      BY <1>0, <3>1, PutRow, CutSettles
  <2>3. /\ dPc' = [dPc EXCEPT ![d] = "returned"] /\ expired' = [expired EXCEPT ![d] = FALSE]
        /\ hosts' = [hosts EXCEPT ![d] = {}] /\ payloads' = [payloads EXCEPT ![d] = <<>>]
        /\ todo' = [todo EXCEPT ![d] = <<>>] /\ dResult' = [dResult EXCEPT ![d] = <<>>]
    BY <2>1 DEF MapRace, PublishRace, Dies
  <2>4. QED
    BY <1>0, <2>2, <2>3
<1>10. CASE UNCHANGED discoverVars
  BY <1>0, <1>10 DEF discoverVars
<1>11. QED
  BY <1>7, <1>8, <1>9, <1>10, DiscoverKinds

LEMMA ExchangeFrame ==
  ASSUME [Next]_allVars, ~ Exchange, ~ Death
  PROVE  UNCHANGED exchangeVars
BY StepKinds DEF Discovery, allVars

LEMMA ExchangeTypesStep == Types /\ [Next]_allVars => ExchangeTypes'
<1> SUFFICES ASSUME Types, [Next]_allVars PROVE ExchangeTypes'
  OBVIOUS
<1>0. up \subseteq Device /\ net \subseteq Request /\ ExchangeTypes /\ <<>> \in Seq(Request)
  BY DEF Types, NetTypes
<1> USE DEF ExchangeTypes
<1> DEFINE Handling == [req : Request, at : {"collect", "emit", "flush"},
                        fresh : BOOLEAN, view : Seq(Request)]
<1>1. ASSUME NEW R, Unserved(R) PROVE fPc' \in [Device -> {"idle", "asking", "returned"}]
  BY <1>0, <1>1 DEF Unserved
<1>2. ASSUME NEW d \in up, Publish(d) \/ PublishBusy(d) \/ Fetch(d) \/ FetchLost(d)
      PROVE  ExchangeTypes'
  <2>1. UNCHANGED <<clients, queries, pResult, serving, fetched>>
    BY <1>2 DEF Publish, PublishBusy, Fetch, FetchLost
  <2>2. /\ pPc' \in [Device -> {"idle", "serve", "closing", "returned"}]
        /\ fPc' \in [Device -> {"idle", "asking", "returned"}]
    BY <1>0, <1>2 DEF Publish, PublishBusy, Fetch, FetchLost
  <2>3. QED
    BY <1>0, <2>1, <2>2
<1>3. ASSUME NEW h \in serving, Collect(h) PROVE ExchangeTypes'
  <2>1. h \in Handling
    BY <1>0
  <2>2. h.req \in Request /\ h.req.to \in Device /\ h.req.from \in Device /\ h.view \in Seq(Request)
    BY <2>1 DEF Request
  <2>3. PICK base \in {h.view, queries[h.req.to]} :
          LET all == IF h.fresh THEN Append(base, h.req) ELSE queries[h.req.to] IN
          /\ queries' = [queries EXCEPT ![h.req.to] = all]
          /\ serving' = (serving \ {h}) \cup
               {[h EXCEPT !.at = IF h.fresh /\ Len(all) >= 2 THEN "emit" ELSE "flush",
                          !.fresh = FALSE, !.view = <<>>]}
    BY <1>3 DEF Collect
  <2>4. base \in Seq(Request) /\ queries[h.req.to] \in Seq(Request)
    BY <1>0, <2>2
  <2>5. Append(base, h.req) \in Seq(Request)
    BY <2>2, <2>4
  <2>6. \A x \in {"collect", "emit", "flush"} : [h EXCEPT !.at = x, !.fresh = FALSE, !.view = <<>>] \in Handling
    BY <1>0, <2>1
  <2>7. serving' \subseteq Handling
    BY <1>0, <2>3, <2>6
  <2>8. queries' \in [Device -> Seq(Request)]
    BY <1>0, <2>3, <2>4, <2>5
  <2>9. /\ clients' = [clients EXCEPT ![h.req.to] = @ \cup {h.req.from}]
        /\ UNCHANGED <<pPc, pResult, fPc, fetched>>
    BY <1>3 DEF Collect
  <2>10. QED
    BY <1>0, <2>2, <2>7, <2>8, <2>9
<1>4. ASSUME NEW h \in serving, Emit(h) PROVE ExchangeTypes'
  <2>1. h \in Handling
    BY <1>0
  <2>2. h.req \in Request /\ h.req.to \in Device
    BY <2>1 DEF Request
  <2>3. [h EXCEPT !.at = "flush"] \in Handling
    BY <2>1
  <2>4. <<h.req>> \in Seq(Request) /\ Published(h) \in Seq(Request)
    BY <1>0, <2>2 DEF Published
  <2>5. QED
    BY <1>0, <1>4, <2>2, <2>3, <2>4 DEF Emit
<1>5. ASSUME NEW h \in serving, Flush(h) PROVE ExchangeTypes'
  <2>1. h.req.from \in Device
    BY <1>0 DEF Request
  <2>2. /\ fPc' \in [Device -> {"idle", "asking", "returned"}] /\ fetched' \subseteq Device
        /\ serving' \subseteq serving /\ UNCHANGED <<pPc, clients, queries, pResult>>
    BY <1>0, <1>1, <1>5, <2>1 DEF Flush
  <2>3. QED
    BY <1>0, <2>2
<1>6. ASSUME NEW d \in up, PublishEnds(d) PROVE ExchangeTypes'
  <2>1. /\ pPc' = [pPc EXCEPT ![d] = "returned"] /\ clients' = [clients EXCEPT ![d] = {}]
        /\ queries' = [queries EXCEPT ![d] = <<>>] /\ UNCHANGED <<pResult, fetched>>
        /\ serving' \subseteq serving
        /\ Unserved({h.req : h \in {g \in serving : g.req.to = d}})
    BY <1>6 DEF PublishEnds, CutServing
  <2>2. QED
    BY <1>0, <1>1, <2>1
<1>7. ASSUME NEW r \in net, Serve(r) PROVE ExchangeTypes'
  <2>1. r \in Request /\ queries[r.to] \in Seq(Request)
    BY <1>0 DEF Request
  <2>2. Encrypted \in {"collect", "emit"}
    BY DEF Encrypted
  <2>3. [req |-> r, at |-> Encrypted, fresh |-> r.from \notin clients[r.to], view |-> queries[r.to]]
          \in Handling
    BY <2>1, <2>2
  <2>4. QED
    BY <1>0, <1>7, <2>3 DEF Serve
<1>8. ASSUME NEW r \in net, Reject(r) \/ FetchMisses(r) PROVE ExchangeTypes'
  <2>1. UNCHANGED <<pPc, clients, queries, pResult, serving, fetched>> /\ Unserved({r})
    BY <1>8 DEF Reject, FetchMisses
  <2>2. QED
    BY <1>0, <1>1, <2>1
<1>9. ASSUME NEW d \in up, Dying(d) PROVE ExchangeTypes'
  <2>1. /\ UNCHANGED <<pPc, pResult, clients, queries, fetched>> /\ serving' \subseteq serving
        /\ Unserved({h.req : h \in {g \in serving : g.req.to = d}})
    BY <1>9 DEF Dying, CutServing
  <2>2. QED
    BY <1>0, <1>1, <2>1
<1>10. CASE Exchange
  BY <1>2, <1>3, <1>4, <1>5, <1>6, <1>7, <1>8, <1>10 DEF Exchange, Shares, Answers
<1>11. CASE UNCHANGED exchangeVars
  BY <1>0, <1>11 DEF exchangeVars
<1>12. CASE Death
  BY <1>9, <1>12 DEF Death
<1>13. QED
  BY <1>10, <1>11, <1>12, ExchangeFrame

LEMMA TypesStep == Types /\ [Next]_allVars => Types'
BY NetTypesStep, ListenTypesStep, DiscoverTypesStep, ExchangeTypesStep DEF Types

\* Every variable keeps its type.
THEOREM TypeCorrect == Spec => []ExchangeTypeOK
<1>1. Spec => []Types
  BY InitTypes, TypesStep, PTL DEF Spec
<1>2. QED
  BY <1>1, TypesMeanTypeOK, PTL

-----------------------------------------------------------------------------
(* What a step leaves. *)

\* What a listener that stays up has heard, and that it has returned peers, lasts.
Grows == /\ setting' = setting /\ up' \subseteq up
         /\ \A p \in up' : /\ heard[p] \subseteq heard'[p]
                           /\ lResult[p] # <<>> => lResult'[p] # <<>>
         /\ \A p \in Device : port'[p] = "publisher" => port[p] = "publisher" \/ p \in setting.publish

LEMMA StepGrows == Types /\ [Next]_allVars => Grows
<1> SUFFICES ASSUME Types, [Next]_allVars PROVE Grows
  OBVIOUS
<1>0. /\ up \subseteq Device /\ heard \in [Device -> SUBSET Device]
      /\ lResult \in [Device -> Seq(Device)]
      /\ port \in [Device -> {"free", "relay", "listener", "publisher"}]
  BY DEF Types, NetTypes, ListenTypes
<1>1. CASE UNCHANGED <<setting, up, port, heard, lResult>>
  BY <1>1 DEF Grows
<1>2. ASSUME NEW d \in up, Asks(d) PROVE Grows
  BY <1>1, <1>2 DEF Asks, Start, SkipSelf, Check, Checked, Scan, DiscoverTimeout, Expire, Ask, Take,
                    Add, Receive, DiscoverEnds, listenVars
<1>3. ASSUME NEW d \in up, Listens(d) PROVE Grows
  <2>1. UNCHANGED <<setting, up, heard>>
    BY <1>3 DEF Listens, Listen, ListenBusy, ListenFound
  <2>2. \A p \in Device : lResult[p] # <<>> => lResult'[p] # <<>>
    BY <1>0, <1>3 DEF Listens, Listen, ListenBusy, ListenFound
  <2>3. \A p \in Device : port'[p] = "publisher" => port[p] = "publisher"
    BY <1>0, <1>3 DEF Listens, Listen, ListenBusy, ListenFound
  <2>4. QED
    BY <1>0, <2>1, <2>2, <2>3 DEF Grows
<1>4. ASSUME NEW d \in up, Closes(d) PROVE Grows
  <2>1. UNCHANGED <<setting, up, heard, lResult>> /\ port' = [port EXCEPT ![d] = "free"]
    BY <1>4 DEF Closes, ListenClose, ListenTimeout, CloseListener
  <2>2. QED
    BY <1>0, <2>1 DEF Grows
<1>5. ASSUME NEW d \in up, NEW ip \in Device, GiveUp(d, ip) PROVE Grows
  BY <1>1, <1>5 DEF GiveUp, listenVars
<1>6. ASSUME NEW r \in net, Handles(r) PROVE Grows
  <2>1. CASE Accept(r) \/ AcceptClosing(r)
    BY <1>1, <2>1 DEF Accept, AcceptClosing, listenVars
  <2>2. CASE Refuse(r) \/ Lose(r)
    BY <1>1, <2>2 DEF Refuse, Lose, Fails, listenVars
  <2>3. QED
    BY <1>6, <2>1, <2>2 DEF Handles
<1>7. ASSUME NEW h \in handling, Finish(h) PROVE Grows
  <2>1. UNCHANGED <<setting, up, port, lResult>> /\ heard' = [heard EXCEPT ![h.req.to] = @ \cup {h.req.from}]
    BY <1>7 DEF Finish
  <2>2. QED
    BY <1>0, <2>1 DEF Grows
<1>8. ASSUME NEW d \in up, Publish(d) PROVE Grows
  <2>1. UNCHANGED <<setting, up, heard, lResult>> /\ port' = [port EXCEPT ![d] = "publisher"] /\ d \in setting.publish
    BY <1>8 DEF Publish, listenVars
  <2>2. QED
    BY <1>0, <2>1 DEF Grows
<1>9. ASSUME NEW d \in up, PublishEnds(d) PROVE Grows
  <2>1. UNCHANGED <<setting, up, heard, lResult>> /\ port' = [port EXCEPT ![d] = "free"]
    BY <1>9 DEF PublishEnds, listenVars
  <2>2. QED
    BY <1>0, <2>1 DEF Grows
<1>10. ASSUME NEW d \in up, Shares(d), ~ Publish(d) PROVE Grows
  BY <1>1, <1>10 DEF Shares, PublishBusy, Fetch, FetchLost, Collect, Emit, vars, listenVars
<1>11. ASSUME NEW r \in net, Answers(r) PROVE Grows
  BY <1>1, <1>11 DEF Answers, Serve, Reject, FetchMisses, listenVars
<1>12. ASSUME NEW h \in serving, Flush(h) PROVE Grows
  BY <1>1, <1>12 DEF Flush, listenVars
<1>13. ASSUME NEW d \in up, MapRace(d) \/ PublishRace(d) PROVE Grows
  <2>1. /\ setting' = setting /\ up' = up \ {d} /\ port' = [port EXCEPT ![d] = "free"]
        /\ heard' = [heard EXCEPT ![d] = {}] /\ lResult' = [lResult EXCEPT ![d] = <<>>]
    BY <1>13 DEF MapRace, PublishRace, Dies
  <2>2. QED
    BY <1>0, <2>1 DEF Grows
<1>14. CASE UNCHANGED allVars
  BY <1>1, <1>14 DEF allVars, vars, listenVars
<1>15. QED
  BY <1>2, <1>3, <1>4, <1>5, <1>6, <1>7, <1>8, <1>9, <1>10, <1>11, <1>12, <1>13, <1>14, StepKinds
     DEF Discovery, Exchange, Death, Dying

-----------------------------------------------------------------------------
(* Who fetched did so from a publisher that reports it. *)

Reports(d) == d \in setting.publish /\ pResult[d] # <<>>

PublishInv ==
  /\ \A d \in Device : port[d] = "publisher" => d \in setting.publish
  /\ Duo => \A h \in serving : /\ h.at # "collect" /\ h.req.to \in setting.publish
                               /\ h.at = "flush" => Reports(h.req.to)
  /\ Duo /\ fetched # {} => \E d \in Device : Reports(d)

LEMMA PublishInvInit == ExchangeInit => PublishInv
BY DEF ExchangeInit, Init, PublishInv

LEMMA PublishInvStep == Types /\ [Next]_allVars /\ PublishInv => PublishInv'
<1> SUFFICES ASSUME Types, [Next]_allVars, PublishInv PROVE PublishInv'
  OBVIOUS
<1>0. /\ up \subseteq Device /\ net \subseteq Request /\ ExchangeTypes /\ Grows
      /\ \A h \in serving : h.req \in Request /\ h.req.to \in Device
  BY StepGrows DEF Types, NetTypes, ExchangeTypes, Request
<1>1. (Duo' <=> Duo) /\ setting' = setting
  BY <1>0 DEF Grows, Duo
<1>2. \A d \in Device : port'[d] = "publisher" => d \in setting'.publish
  BY <1>0, <1>1 DEF Grows, PublishInv
<1>3. ASSUME serving' \subseteq serving, UNCHANGED pResult, UNCHANGED fetched PROVE PublishInv'
  BY <1>1, <1>2, <1>3 DEF PublishInv, Reports
<1>4. ASSUME NEW d \in up, Publish(d) \/ PublishBusy(d) \/ Fetch(d) \/ FetchLost(d) \/ PublishEnds(d)
      PROVE  PublishInv'
  BY <1>3, <1>4 DEF Publish, PublishBusy, Fetch, FetchLost, PublishEnds, CutServing
<1>5. ASSUME NEW h \in serving, Collect(h) PROVE PublishInv'
  <2>1. ~ Duo
    BY <1>5 DEF Collect, PublishInv
  <2>2. QED
    BY <1>1, <1>2, <2>1 DEF PublishInv
<1>6. ASSUME NEW h \in serving, Emit(h) PROVE PublishInv'
  <2>1. CASE ~ Duo
    BY <1>1, <1>2, <2>1 DEF PublishInv
  <2>2. CASE Duo
    <3>1. /\ pResult' = [pResult EXCEPT ![h.req.to] = <<h.req>>] /\ UNCHANGED fetched
          /\ serving' = (serving \ {h}) \cup {[h EXCEPT !.at = "flush"]}
      BY <1>6, <2>2 DEF Emit, Published
    <3>2. pResult \in [Device -> Seq(Request)] /\ h.req.to \in Device /\ <<h.req>> # <<>>
      BY <1>0 DEF ExchangeTypes
    <3>3. pResult'[h.req.to] # <<>> /\ \A d \in Device : pResult[d] # <<>> => pResult'[d] # <<>>
      BY <3>1, <3>2
    <3>4. h.req.to \in setting.publish /\ h.at # "collect"
      BY <2>2 DEF PublishInv
    <3>5. \A g \in serving' : g \in serving \/ (g.at = "flush" /\ g.req = h.req)
      <4>1. [h EXCEPT !.at = "flush"].at = "flush" /\ [h EXCEPT !.at = "flush"].req = h.req
        BY <1>0 DEF ExchangeTypes
      <4>2. QED
        BY <3>1, <4>1
    <3>6. \A d \in Device : Reports(d) => Reports(d)'
      BY <1>1, <3>3 DEF Reports
    <3>7. Reports(h.req.to)'
      BY <1>1, <3>3, <3>4 DEF Reports
    <3>8. \A g \in serving' : /\ g.at # "collect" /\ g.req.to \in setting.publish
                              /\ g.at = "flush" => Reports(g.req.to)'
      <4>1. SUFFICES ASSUME NEW g \in serving'
            PROVE  /\ g.at # "collect" /\ g.req.to \in setting.publish
                   /\ g.at = "flush" => Reports(g.req.to)'
        OBVIOUS
      <4>2. CASE g \in serving
        BY <1>0, <2>2, <3>6, <4>2 DEF PublishInv
      <4>3. CASE g.at = "flush" /\ g.req = h.req
        BY <3>4, <3>7, <4>3
      <4>4. QED
        BY <3>5, <4>2, <4>3
    <3>9. fetched' # {} => \E d \in Device : Reports(d)'
      BY <2>2, <3>1, <3>6 DEF PublishInv
    <3>10. QED
      BY <1>1, <1>2, <3>8, <3>9 DEF PublishInv, Reports
  <2>3. QED
    BY <2>1, <2>2
<1>7. ASSUME NEW h \in serving, Flush(h) PROVE PublishInv'
  <2>1. serving' \subseteq serving /\ UNCHANGED pResult /\ h.at = "flush"
    BY <1>7 DEF Flush
  <2>2. Duo => Reports(h.req.to)
    BY <2>1 DEF PublishInv
  <2>3. Duo => \E d \in Device : Reports(d)'
    BY <1>0, <1>1, <2>1, <2>2 DEF Reports
  <2>4. QED
    BY <1>1, <1>2, <2>1, <2>3 DEF PublishInv, Reports
<1>8. ASSUME NEW r \in net, Serve(r) PROVE PublishInv'
  <2>1. /\ port[r.to] = "publisher" /\ UNCHANGED <<pResult, fetched>>
        /\ serving' = serving \cup {[req |-> r, at |-> Encrypted, fresh |-> r.from \notin clients[r.to],
                                     view |-> queries[r.to]]}
    BY <1>8 DEF Serve
  <2>2. r.to \in setting.publish
    BY <1>0, <2>1 DEF PublishInv, Request
  <2>3. Duo => Encrypted = "emit"
    BY DEF Encrypted
  <2>4. QED
    BY <1>1, <1>2, <2>1, <2>2, <2>3 DEF PublishInv, Reports
<1>9. ASSUME NEW r \in net, Reject(r) \/ FetchMisses(r) PROVE PublishInv'
  BY <1>3, <1>9 DEF Reject, FetchMisses
<1>10. ASSUME NEW d \in up, Dying(d) PROVE PublishInv'
  BY <1>3, <1>10 DEF Dying, CutServing
<1>11. CASE Exchange
  BY <1>4, <1>5, <1>6, <1>7, <1>8, <1>9, <1>11 DEF Exchange, Shares, Answers
<1>12. CASE UNCHANGED exchangeVars
  BY <1>3, <1>12 DEF exchangeVars
<1>13. CASE Death
  BY <1>10, <1>13 DEF Death
<1>14. QED
  BY <1>11, <1>12, <1>13, ExchangeFrame

\* In duo mode data is fetched only from a PublishData that reports success.
THEOREM FetchedPublished == Spec => []FetchedIsPublished
<1>1. Spec => [](Types /\ PublishInv)
  BY InitTypes, TypesStep, PublishInvInit, PublishInvStep, PTL DEF Spec
<1>2. Types /\ PublishInv => FetchedIsPublished
  BY DEF PublishInv, Reports, FetchedIsPublished
<1>3. QED
  BY <1>1, <1>2, PTL

-----------------------------------------------------------------------------
(* The probes and the results of the discoverers after a step. *)

Took(d, ip) ==
  /\ probe[d][ip].at = "answered" /\ UNCHANGED hosts
  /\ probe'[d][ip] = IF Duo THEN [probe[d][ip] EXCEPT !.at = "sending"]
                     ELSE IF Known(d, ip) THEN Done
                     ELSE [probe[d][ip] EXCEPT !.at = "adding", !.view = payloads[d]]

Added(d, ip) ==
  /\ probe[d][ip].at = "adding" /\ hosts' = [hosts EXCEPT ![d] = @ \cup {ip}]
  /\ \E base \in {probe[d][ip].view, payloads[d]} :
       LET all == Append(base, [ip |-> ip, body |-> probe[d][ip].body]) IN
       /\ base \in Seq(Answer) /\ all \in Seq(Answer)
       /\ Range(all) = Range(base) \cup {[ip |-> ip, body |-> probe[d][ip].body]}
       /\ payloads' = [payloads EXCEPT ![d] = all]
       /\ probe'[d][ip] = IF Len(all) >= 2 THEN [Off EXCEPT !.at = "sending", !.view = all] ELSE Done

\* A probe that bears no answer.
Blank(d, ip) == \/ probe'[d][ip].at \in {"off", "ready"} /\ (ip = d => probe'[d][ip] = Off)
                \/ probe[d][ip].at = "ready" /\ probe'[d][ip].at \in {"asking", "done"}

LEMMA Cells ==
  ASSUME Types, [Next]_allVars, NEW e \in Device, NEW q \in Device
  PROVE  Settled(e, q) \/ Blank(e, q) \/ Took(e, q) \/ Added(e, q)
<1> DEFINE Goal == Settled(e, q) \/ Blank(e, q) \/ Took(e, q) \/ Added(e, q)
<1>0. /\ up \subseteq Device /\ DiscoverTypes /\ probe \in [Device -> [Device -> Probe]]
      /\ probe[e][q] \in Probe
  BY DEF Types, NetTypes, DiscoverTypes
<1>1. CASE probe'[e][q] = probe[e][q]
  BY <1>1 DEF Settled
<1>2. ASSUME NEW d \in up, Start(d) \/ SkipSelf(d) \/ Expire(d) PROVE Goal
  BY <1>1, <1>2 DEF Start, SkipSelf, Expire
<1>3. ASSUME NEW d \in up, Check(d) \/ Checked(d) PROVE Goal
  <2>1. PICK ip \in Device : \E v \in {Off, [probe[d][ip] EXCEPT !.at = "ready"]} :
          Changes(d, ip, v) /\ (v = Off \/ ip # d)
    BY <1>3, CheckWrites
  <2>2. PICK v \in {Off, [probe[d][ip] EXCEPT !.at = "ready"]} : Changes(d, ip, v) /\ (v = Off \/ ip # d)
    BY <2>1
  <2>3. /\ probe'[d][ip] = v
        /\ \A f, g \in Device : f # d \/ g # ip => probe'[f][g] = probe[f][g]
    BY <1>0, <2>2, ChangesOne
  <2>4. probe[d][ip] \in Probe
    BY <1>0
  <2>5. v.at \in {"off", "ready"}
    BY <2>2, <2>4 DEF Off, Probe
  <2>6. CASE e = d /\ q = ip
    BY <2>2, <2>3, <2>5, <2>6 DEF Blank
  <2>7. QED
    BY <1>1, <2>3, <2>6
<1>4. ASSUME NEW d \in up, Scan(d) \/ DiscoverTimeout(d) \/ \E ip \in Device : Receive(d, ip) PROVE Goal
  <2>1. PICK row : Fresh(row, d) /\ probe' = [probe EXCEPT ![d] = row]
    BY <1>4, RowWrites
  <2>2. e # d => probe'[e] = probe[e]
    BY <1>0, <2>1, PutRow
  <2>3. CASE e = d
    <3>1. probe'[e] = row
      BY <1>0, <2>1, <2>3, PutRow
    <3>2. QED
      BY <2>1, <2>3, <3>1 DEF Fresh, Blank
  <2>4. QED
    BY <1>1, <2>2, <2>3
<1>5. ASSUME NEW d \in up, NEW ip \in Device, Ask(d, ip) PROVE Goal
  <2>1. PICK v \in {Done, [probe[d][ip] EXCEPT !.at = "asking"]} : Changes(d, ip, v)
    BY <1>5, AskWrites
  <2>2. /\ probe'[d][ip] = v
        /\ \A f, g \in Device : f # d \/ g # ip => probe'[f][g] = probe[f][g]
    BY <1>0, <2>1, ChangesOne
  <2>3. probe[d][ip] \in Probe /\ probe[d][ip].at = "ready"
    BY <1>0, <1>5 DEF Ask
  <2>4. v.at \in {"asking", "done"}
    BY <2>1, <2>3 DEF Done, Off, Probe
  <2>5. CASE e = d /\ q = ip
    BY <2>2, <2>3, <2>4, <2>5 DEF Blank
  <2>6. QED
    BY <1>1, <2>2, <2>5
<1>6. ASSUME NEW d \in up, NEW ip \in Device, Take(d, ip) PROVE Goal
  <2>1. Changes(d, ip, IF Duo THEN [probe[d][ip] EXCEPT !.at = "sending"]
              ELSE IF Known(d, ip) THEN Done
              ELSE [probe[d][ip] EXCEPT !.at = "adding", !.view = payloads[d]])
    BY <1>6, AskWrites
  <2>2. /\ probe'[d][ip] = IF Duo THEN [probe[d][ip] EXCEPT !.at = "sending"]
              ELSE IF Known(d, ip) THEN Done
              ELSE [probe[d][ip] EXCEPT !.at = "adding", !.view = payloads[d]]
        /\ \A f, g \in Device : f # d \/ g # ip => probe'[f][g] = probe[f][g]
    BY <1>0, <2>1, ChangesOne
  <2>3. CASE e = d /\ q = ip
    <3>1. UNCHANGED hosts /\ probe[d][ip].at = "answered"
      BY <1>6 DEF Take
    <3>2. QED
      BY <2>2, <2>3, <3>1 DEF Took
  <2>4. QED
    BY <1>1, <2>2, <2>3
<1>7. ASSUME NEW d \in up, NEW ip \in Device, Add(d, ip) PROVE Goal
  <2>1. PICK base \in {probe[d][ip].view, payloads[d]} :
              LET all == Append(base, [ip |-> ip, body |-> probe[d][ip].body]) IN
              /\ base \in Seq(Answer) /\ all \in Seq(Answer)
              /\ Range(all) = Range(base) \cup {[ip |-> ip, body |-> probe[d][ip].body]}
              /\ payloads' = [payloads EXCEPT ![d] = all]
              /\ Changes(d, ip, IF Len(all) >= 2 THEN [Off EXCEPT !.at = "sending", !.view = all]
                                ELSE Done)
    BY <1>7, AskWrites
  <2> DEFINE all == Append(base, [ip |-> ip, body |-> probe[d][ip].body])
  <2>2. /\ probe'[d][ip] = IF Len(all) >= 2 THEN [Off EXCEPT !.at = "sending", !.view = all] ELSE Done
        /\ \A f, g \in Device : f # d \/ g # ip => probe'[f][g] = probe[f][g]
    BY <1>0, <2>1, ChangesOne
  <2>3. CASE e = d /\ q = ip
    <3>1. probe[d][ip].at = "adding" /\ hosts' = [hosts EXCEPT ![d] = @ \cup {ip}]
      BY <1>7 DEF Add
    <3>2. QED
      BY <2>1, <2>2, <2>3, <3>1 DEF Added
  <2>4. QED
    BY <1>1, <2>2, <2>3
<1>8. CASE Settles
  BY <1>8, SettlesSettle
<1>9. CASE Death
  <2>1. PICK d \in up : MapRace(d) \/ PublishRace(d)
    BY <1>9 DEF Death, Dying
  <2>2. PICK row : Fresh(row, d) /\ probe' = [Cut(d) EXCEPT ![d] = row]
    BY <2>1, RowWrites
  <2>3. CASE e # d
    <3>1. probe'[e] = Cut(d)[e]
      BY <1>0, <2>2, <2>3, PutRow, CutSettles
    <3>2. QED
      BY <1>0, <3>1, CutSettles DEF Settled
  <2>4. CASE e = d
    <3>1. probe'[e] = row
      BY <1>0, <2>2, <2>4, PutRow, CutSettles
    <3>2. QED
      BY <2>2, <2>4, <3>1 DEF Fresh, Blank
  <2>5. QED
    BY <2>3, <2>4
<1>10. CASE UNCHANGED discoverVars
  BY <1>1, <1>10 DEF discoverVars
<1>11. ASSUME NEW d \in up, Asks(d) PROVE Goal
  BY <1>2, <1>3, <1>4, <1>5, <1>6, <1>7, <1>11 DEF Asks
<1>12. QED
  BY <1>8, <1>9, <1>10, <1>11, DiscoverKinds

Cleared(d) == /\ payloads'[d] = <<>> /\ hosts'[d] = {}
              /\ \A ip \in Device : probe'[d][ip].at \in {"off", "ready"}

Received(d, ip) ==
  /\ probe[d][ip].at = "sending"
  /\ dResult'[d] = IF Duo THEN <<[ip |-> ip, body |-> probe[d][ip].body]>> ELSE probe[d][ip].view

LEMMA Results ==
  ASSUME Types, [Next]_allVars, NEW e \in Device
  PROVE  /\ \/ payloads'[e] = payloads[e] /\ hosts'[e] = hosts[e]
            \/ Cleared(e)
            \/ \E q \in Device : Added(e, q)
         /\ dResult'[e] \in {dResult[e], <<>>} \/ \E q \in Device : Received(e, q)
<1> DEFINE Goal == /\ \/ payloads'[e] = payloads[e] /\ hosts'[e] = hosts[e]
                      \/ Cleared(e)
                      \/ \E q \in Device : Added(e, q)
                   /\ dResult'[e] \in {dResult[e], <<>>} \/ \E q \in Device : Received(e, q)
<1>0. /\ up \subseteq Device /\ DiscoverTypes /\ probe \in [Device -> [Device -> Probe]]
      /\ hosts \in [Device -> SUBSET Device] /\ payloads \in [Device -> Seq(Answer)]
      /\ dResult \in [Device -> Seq(Answer)]
  BY DEF Types, NetTypes, DiscoverTypes
<1>1. CASE UNCHANGED <<hosts, payloads, dResult>>
  BY <1>1
<1>2. ASSUME NEW d \in up, Start(d) \/ SkipSelf(d) \/ Check(d) \/ Checked(d) \/ Scan(d) \/ Expire(d)
      PROVE  Goal
  BY <1>1, <1>2 DEF Start, SkipSelf, Check, Checked, Scan, Expire
<1>3. ASSUME NEW d \in up, NEW ip \in Device, Ask(d, ip) \/ Take(d, ip) PROVE Goal
  BY <1>1, <1>3 DEF Ask, Take
<1>4. ASSUME NEW d \in up, DiscoverTimeout(d) \/ \E ip \in Device : Receive(d, ip) PROVE Goal
  <2>1. PICK row : Fresh(row, d) /\ probe' = [probe EXCEPT ![d] = row]
    BY <1>4, RowWrites
  <2>2. hosts' = [hosts EXCEPT ![d] = {}] /\ payloads' = [payloads EXCEPT ![d] = <<>>]
    BY <1>4 DEF DiscoverTimeout, Receive, DiscoverEnds
  <2>3. (payloads'[e] = payloads[e] /\ hosts'[e] = hosts[e]) \/ Cleared(e)
    <3>1. e = d => probe'[e] = row
      BY <1>0, <2>1, PutRow
    <3>2. QED
      BY <1>0, <2>1, <2>2, <3>1 DEF Cleared, Fresh
  <2>4. dResult'[e] = dResult[e] \/ \E q \in Device : Received(e, q)
    <3>1. CASE DiscoverTimeout(d)
      BY <3>1 DEF DiscoverTimeout
    <3>2. ASSUME NEW ip \in Device, Receive(d, ip) PROVE dResult'[e] = dResult[e] \/ Received(e, ip)
      BY <1>0, <3>2 DEF Receive, Received
    <3>3. QED
      BY <1>4, <3>1, <3>2
  <2>5. QED
    BY <2>3, <2>4
<1>5. ASSUME NEW d \in up, NEW ip \in Device, Add(d, ip) PROVE Goal
  <2>1. UNCHANGED dResult /\ hosts' = [hosts EXCEPT ![d] = @ \cup {ip}] /\ probe[d][ip].at = "adding"
    BY <1>5 DEF Add
  <2>2. PICK base \in {probe[d][ip].view, payloads[d]} :
              LET all == Append(base, [ip |-> ip, body |-> probe[d][ip].body]) IN
              /\ base \in Seq(Answer) /\ all \in Seq(Answer)
              /\ Range(all) = Range(base) \cup {[ip |-> ip, body |-> probe[d][ip].body]}
              /\ payloads' = [payloads EXCEPT ![d] = all]
              /\ Changes(d, ip, IF Len(all) >= 2 THEN [Off EXCEPT !.at = "sending", !.view = all]
                                ELSE Done)
    BY <1>5, AskWrites
  <2> DEFINE all == Append(base, [ip |-> ip, body |-> probe[d][ip].body])
  <2>3. probe'[d][ip] = IF Len(all) >= 2 THEN [Off EXCEPT !.at = "sending", !.view = all] ELSE Done
    BY <1>0, <2>2, ChangesOne
  <2>4. Added(d, ip)
    BY <2>1, <2>2, <2>3 DEF Added
  <2>5. e # d => payloads'[e] = payloads[e] /\ hosts'[e] = hosts[e]
    BY <1>0, <2>1, <2>2
  <2>6. QED
    BY <2>1, <2>4, <2>5
<1>6. ASSUME NEW d \in up, Asks(d) PROVE Goal
  BY <1>2, <1>3, <1>4, <1>5, <1>6 DEF Asks
<1>7. CASE Settles
  BY <1>1, <1>7, SettlesSettle
<1>8. CASE Death
  <2>1. PICK d \in up : MapRace(d) \/ PublishRace(d)
    BY <1>8 DEF Death, Dying
  <2>2. PICK row : Fresh(row, d) /\ probe' = [Cut(d) EXCEPT ![d] = row]
    BY <2>1, RowWrites
  <2>3. /\ hosts' = [hosts EXCEPT ![d] = {}] /\ payloads' = [payloads EXCEPT ![d] = <<>>]
        /\ dResult' = [dResult EXCEPT ![d] = <<>>]
    BY <2>1 DEF MapRace, PublishRace, Dies
  <2>4. e = d => probe'[e] = row
    BY <1>0, <2>2, PutRow, CutSettles
  <2>5. (payloads'[e] = payloads[e] /\ hosts'[e] = hosts[e]) \/ Cleared(e)
    BY <1>0, <2>2, <2>3, <2>4 DEF Cleared, Fresh
  <2>6. QED
    BY <1>0, <2>3, <2>5
<1>9. CASE UNCHANGED discoverVars
  BY <1>1, <1>9 DEF discoverVars
<1>10. QED
  BY <1>6, <1>7, <1>8, <1>9, DiscoverKinds

-----------------------------------------------------------------------------
(* A device answers only who it has heard, or when it has its own peers. *)

True(d, a) == a.ip \in up => /\ a.body = "peer" => d \in heard[a.ip]
                             /\ a.body = "empty" => lResult[a.ip] # <<>>

AllTrue(d, answers) == \A a \in Range(answers) : True(d, a)

\* The answer a probe bears, and those it has read.
Sound(d, ip) == LET p == probe[d][ip] IN
  /\ p.at \in {"answered", "adding"} \/ (p.at = "sending" /\ Duo) => True(d, [ip |-> ip, body |-> p.body])
  /\ p.at = "adding" => ~ Duo
  /\ p.at = "adding" \/ (p.at = "sending" /\ ~ Duo) => AllTrue(d, p.view)

AnswerInv ==
  /\ \A d \in Device : lPc[d] = "closing" => lResult[d] # <<>>
  /\ \A d \in Device : AllTrue(d, payloads[d]) /\ AllTrue(d, dResult[d])
  /\ \A d, ip \in Device : Sound(d, ip)

LEMMA EmptyRange == Range(<<>>) = {}
BY DEF Range

LEMMA AnswerInvInit == ExchangeInit => AnswerInv
<1> SUFFICES ASSUME ExchangeInit PROVE AnswerInv
  OBVIOUS
<1>1. \A d, ip \in Device : probe[d][ip].at = "off"
  BY DEF ExchangeInit, Init, Off
<1>2. \A d \in Device : lPc[d] = "idle" /\ payloads[d] = <<>> /\ dResult[d] = <<>>
  BY DEF ExchangeInit, Init
<1>3. \A d, ip \in Device : Sound(d, ip)
  BY <1>1 DEF Sound
<1>4. QED
  BY <1>2, <1>3, EmptyRange DEF AnswerInv, AllTrue

LEMMA ClosingStep ==
  ASSUME Types, [Next]_allVars, NEW d \in Device, lPc'[d] = "closing"
  PROVE  \/ lPc[d] = "closing" /\ lResult'[d] = lResult[d]
         \/ lResult'[d] # <<>>
<1> DEFINE Goal == (lPc[d] = "closing" /\ lResult'[d] = lResult[d]) \/ lResult'[d] # <<>>
<1>0. /\ up \subseteq Device /\ lResult \in [Device -> Seq(Device)]
      /\ lPc \in [Device -> {"idle", "serve", "closing", "returned"}]
  BY DEF Types, NetTypes, ListenTypes
<1>1. CASE UNCHANGED <<lPc, lResult>>
  BY <1>1
<1>2. ASSUME NEW e \in up, Listens(e) PROVE Goal
  BY <1>0, <1>2 DEF Listens, Listen, ListenBusy, ListenFound
<1>3. ASSUME NEW e \in up, Closes(e) PROVE Goal
  BY <1>0, <1>3 DEF Closes, ListenClose, ListenTimeout, CloseListener
<1>4. ASSUME NEW r \in net, Accept(r) PROVE Goal
  BY <1>1, <1>4 DEF Accept
<1>5. ASSUME NEW h \in handling, Finish(h) PROVE Goal
  BY <1>1, <1>5 DEF Finish
<1>6. ASSUME NEW e \in up, MapRace(e) \/ PublishRace(e) PROVE Goal
  <2>1. /\ lPc' = [lPc EXCEPT ![e] = "returned"] /\ lResult' = [lResult EXCEPT ![e] = <<>>]
    BY <1>6 DEF MapRace, PublishRace, Dies
  <2>2. QED
    BY <1>0, <2>1
<1>7. CASE UNCHANGED listenVars
  BY <1>1, <1>7 DEF listenVars
<1>8. CASE UNCHANGED allVars
  BY <1>7, <1>8 DEF allVars, vars
<1>9. QED
  BY <1>2, <1>3, <1>4, <1>5, <1>6, <1>7, <1>8, StepKinds, ListenFrame
     DEF Discovery, Exchange, Death, Dying, Handles

LEMMA AnswerInvStep == Types /\ [Next]_allVars /\ AnswerInv => AnswerInv'
<1> SUFFICES ASSUME Types, [Next]_allVars, AnswerInv PROVE AnswerInv'
  OBVIOUS
<1>0. /\ Grows /\ up \subseteq Device /\ Types'
      /\ \A d, ip \in Device : probe[d][ip] \in Probe
  BY StepGrows, TypesStep DEF Types, NetTypes, DiscoverTypes
<1>1. Duo' <=> Duo
  BY <1>0 DEF Grows, Duo
<1>2. ASSUME NEW d, NEW a, True(d, a) PROVE True(d, a)'
  BY <1>0, <1>2 DEF Grows, True
<1>3. ASSUME NEW d, NEW s, AllTrue(d, s)
      PROVE  \A a \in Range(s) : True(d, a)'
  BY <1>2, <1>3 DEF AllTrue
<1>4. \A d \in Device : lPc'[d] = "closing" => lResult'[d] # <<>>
  BY ClosingStep DEF AnswerInv
<1>5. ASSUME NEW d \in Device, NEW ip \in Device, Added(d, ip)
      PROVE  /\ \A a \in Range(payloads'[d]) : True(d, a)'
             /\ Sound(d, ip)'
  <2>1. Sound(d, ip) /\ probe[d][ip].at = "adding"
    BY <1>5 DEF AnswerInv, Added
  <2>2. /\ ~ Duo /\ AllTrue(d, probe[d][ip].view) /\ AllTrue(d, payloads[d])
        /\ True(d, [ip |-> ip, body |-> probe[d][ip].body])
    BY <2>1 DEF Sound, AnswerInv
  <2>3. PICK base \in {probe[d][ip].view, payloads[d]} :
       LET all == Append(base, [ip |-> ip, body |-> probe[d][ip].body]) IN
       /\ all \in Seq(Answer)
       /\ Range(all) = Range(base) \cup {[ip |-> ip, body |-> probe[d][ip].body]}
       /\ payloads' = [payloads EXCEPT ![d] = all]
       /\ probe'[d][ip] = IF Len(all) >= 2 THEN [Off EXCEPT !.at = "sending", !.view = all] ELSE Done
    BY <1>5 DEF Added
  <2> DEFINE all == Append(base, [ip |-> ip, body |-> probe[d][ip].body])
  <2>4. Range(all) = Range(base) \cup {[ip |-> ip, body |-> probe[d][ip].body]}
    BY <2>3
  <2>5. payloads' = [payloads EXCEPT ![d] = all]
    BY <2>3
  <2>6. probe'[d][ip] = IF Len(all) >= 2 THEN [Off EXCEPT !.at = "sending", !.view = all] ELSE Done
    BY <2>3
  <2> HIDE DEF all
  <2>7. AllTrue(d, all)
    BY <2>2, <2>4 DEF AllTrue
  <2>8. \A a \in Range(all) : True(d, a)'
    BY <1>3, <2>7
  <2>9. payloads'[d] = all
    BY <2>5 DEF Types, DiscoverTypes
  <2>10. Sound(d, ip)'
    <3>1. /\ probe'[d][ip].at \in {"sending", "done"}
          /\ probe'[d][ip].at = "sending" => probe'[d][ip].view = all
      BY <2>6 DEF Done, Off
    <3>2. QED
      BY <1>1, <2>2, <2>8, <3>1 DEF Sound, AllTrue
  <2>11. QED
    BY <2>8, <2>9, <2>10
<1>6. ASSUME NEW d \in Device PROVE AllTrue(d, payloads[d])'
  <2>1. AllTrue(d, payloads[d])
    BY DEF AnswerInv
  <2>2. \A a \in Range(payloads'[d]) : True(d, a)'
    BY <1>3, <1>5, <2>1, Results, EmptyRange DEF Cleared
  <2>3. QED
    BY <2>2 DEF AllTrue
<1>7. ASSUME NEW d \in Device PROVE AllTrue(d, dResult[d])'
  <2>1. AllTrue(d, dResult[d])
    BY DEF AnswerInv
  <2>2. ASSUME NEW ip \in Device, Received(d, ip) PROVE \A a \in Range(dResult'[d]) : True(d, a)'
    <3>1. Sound(d, ip)
      BY DEF AnswerInv
    <3>2. CASE Duo
      <4> DEFINE a == [ip |-> ip, body |-> probe[d][ip].body]
      <4>1. True(d, a)
        BY <2>2, <3>1, <3>2 DEF Sound, Received
      <4>2. dResult'[d] = <<a>>
        BY <2>2, <3>2 DEF Received
      <4> HIDE DEF a
      <4>3. Range(<<a>>) = {a}
        BY DEF Range
      <4>4. \A x \in Range(<<a>>) : True(d, x)'
        BY <1>3, <4>1, <4>3 DEF AllTrue
      <4>5. QED
        BY <4>2, <4>4
    <3>3. CASE ~ Duo
      BY <1>3, <2>2, <3>1, <3>3 DEF Sound, Received
    <3>4. QED
      BY <3>2, <3>3
  <2>3. \A a \in Range(dResult'[d]) : True(d, a)'
    BY <1>3, <2>1, <2>2, Results, EmptyRange
  <2>4. QED
    BY <2>3 DEF AllTrue
<1>8. ASSUME NEW d \in Device, NEW ip \in Device PROVE Sound(d, ip)'
  <2>1. Sound(d, ip) /\ AllTrue(d, payloads[d])
    BY DEF AnswerInv
  <2> DEFINE p == probe[d][ip]
             n == probe'[d][ip]
  <2>2. CASE n = p
    <3>1. \A b : b = p.body /\ (p.at \in {"answered", "adding"} \/ (p.at = "sending" /\ Duo))
            => True(d, [ip |-> ip, body |-> b])'
      BY <1>2, <2>1 DEF Sound
    <3>2. p.at = "adding" \/ (p.at = "sending" /\ ~ Duo) => \A a \in Range(p.view) : True(d, a)'
      BY <1>3, <2>1 DEF Sound
    <3>3. QED
      BY <1>1, <2>1, <2>2, <3>1, <3>2 DEF Sound, AllTrue
  <2>3. CASE n.at \in {"off", "ready", "asking", "done"}
    BY <2>3 DEF Sound
  <2>4. CASE p.at = "asking" /\ Answered(d, ip)
    <3>1. PICK b \in {"peer", "empty", "data"} :
            /\ n = [p EXCEPT !.at = "answered", !.body = b]
            /\ b = "peer" => d \in heard'[ip]
            /\ b = "empty" => lPc[ip] = "closing"
      BY <2>4 DEF Answered
    <3>2. b = "empty" /\ ip \in up' => lResult'[ip] # <<>>
      BY <1>0, <3>1 DEF AnswerInv, Grows
    <3>3. n.at = "answered" /\ n.body = b
      BY <1>0, <3>1 DEF Probe
    <3>4. QED
      BY <3>1, <3>2, <3>3 DEF Sound, True
  <2>5. CASE Took(d, ip)
    <3>1. CASE Duo
      <4>1. n.at = "sending" /\ n.body = p.body
        BY <1>0, <2>5, <3>1 DEF Took, Probe
      <4>2. \A b : b = p.body => True(d, [ip |-> ip, body |-> b])'
        BY <1>2, <2>1, <2>5 DEF Sound, Took
      <4>3. QED
        BY <1>1, <3>1, <4>1, <4>2 DEF Sound
    <3>2. CASE ~ Duo /\ Known(d, ip)
      BY <2>3, <2>5, <3>2 DEF Took, Done, Off
    <3>3. CASE ~ Duo /\ ~ Known(d, ip)
      <4>1. n.at = "adding" /\ n.body = p.body /\ n.view = payloads[d]
        BY <1>0, <2>5, <3>3 DEF Took, Probe
      <4>2. \A b : b = p.body => True(d, [ip |-> ip, body |-> b])'
        BY <1>2, <2>1, <2>5 DEF Sound, Took
      <4>3. \A a \in Range(payloads[d]) : True(d, a)'
        BY <1>3, <2>1
      <4>4. QED
        BY <1>1, <3>3, <4>1, <4>2, <4>3 DEF Sound, AllTrue
    <3>4. QED
      BY <3>1, <3>2, <3>3
  <2>6. QED
    BY <1>5, <2>2, <2>3, <2>4, <2>5, Cells DEF Settled, Blank, Done, Off
<1>9. QED
  BY <1>4, <1>6, <1>7, <1>8 DEF AnswerInv

\* DiscoverPeers takes no answer from a device that does not know of it.
THEOREM AnswersTrue == Spec => []AnswersAreTrue
<1>1. Spec => [](Types /\ AnswerInv)
  BY InitTypes, TypesStep, AnswerInvInit, AnswerInvStep, PTL DEF Spec
<1>2. Types /\ AnswerInv => AnswersAreTrue
  BY DEF AnswerInv, AllTrue, True, AnswersAreTrue
<1>3. QED
  BY <1>1, <1>2, PTL

-----------------------------------------------------------------------------
(* No device is found twice. *)

NoTwice(s) == \A i, j \in 1 .. Len(s) : s[i].ip = s[j].ip => i = j

\* Answers of hosts that are known, none of them twice.
Kept(d, s) == NoTwice(s) /\ \A i \in 1 .. Len(s) : s[i].ip \in hosts[d]

DistinctCell(d, ip) == LET p == probe[d][ip] IN
  /\ p.at = "adding" => ~ Duo /\ ip \notin hosts[d] /\ Kept(d, p.view)
  /\ p.at = "sending" /\ ~ Duo => Kept(d, p.view) /\ Len(p.view) >= 2
  /\ ip = d => p.at = "off"

DistinctInv == \A d \in Device :
  /\ Kept(d, payloads[d]) /\ d \notin hosts[d]
  /\ \A ip \in Device : DistinctCell(d, ip)
  /\ dResult[d] # <<>> => /\ NoTwice(dResult[d]) /\ Len(dResult[d]) >= setting.expected
                          /\ \A i \in 1 .. Len(dResult[d]) : dResult[d][i].ip # d

LEMMA DistinctInvInit == ExchangeInit => DistinctInv
<1> SUFFICES ASSUME ExchangeInit, NEW d \in Device
    PROVE  /\ Kept(d, payloads[d]) /\ d \notin hosts[d]
           /\ \A ip \in Device : DistinctCell(d, ip)
           /\ dResult[d] # <<>> => /\ NoTwice(dResult[d]) /\ Len(dResult[d]) >= setting.expected
                                   /\ \A i \in 1 .. Len(dResult[d]) : dResult[d][i].ip # d
  BY DEF DistinctInv
<1>1. payloads[d] = <<>> /\ dResult[d] = <<>> /\ hosts[d] = {}
  BY DEF ExchangeInit, Init
<1>2. \A ip \in Device : probe[d][ip].at = "off"
  BY DEF ExchangeInit, Init, Off
<1>3. Kept(d, <<>>)
  BY DEF Kept, NoTwice
<1>4. QED
  BY <1>1, <1>2, <1>3 DEF DistinctCell

LEMMA KeptAppend ==
  ASSUME NEW d, NEW s \in Seq(Answer), NEW x \in Answer, Kept(d, s), x.ip \notin hosts[d]
  PROVE  /\ NoTwice(Append(s, x))
         /\ \A i \in 1 .. Len(Append(s, x)) : Append(s, x)[i].ip \in hosts[d] \cup {x.ip}
<1>1. /\ Len(Append(s, x)) = Len(s) + 1 /\ Len(s) \in Nat
      /\ \A i \in 1 .. Len(s) : Append(s, x)[i] = s[i]
      /\ Append(s, x)[Len(s) + 1] = x
  OBVIOUS
<1>2. \A i \in 1 .. Len(s) + 1 : i \in 1 .. Len(s) \/ i = Len(s) + 1
  BY <1>1
<1>3. QED
  BY <1>1, <1>2 DEF Kept, NoTwice

LEMMA KeptAdded ==
  ASSUME Types, DistinctInv, NEW d \in Device, NEW ip \in Device, Added(d, ip)
  PROVE  /\ hosts'[d] = hosts[d] \cup {ip} /\ ip # d /\ ip \notin hosts[d] /\ ~ Duo
         /\ Kept(d, payloads[d])'
         /\ \/ probe'[d][ip].at = "done"
            \/ probe'[d][ip].at = "sending" /\ Kept(d, probe[d][ip].view)' /\ Len(probe'[d][ip].view) >= 2
<1>1. /\ DistinctCell(d, ip) /\ Kept(d, payloads[d]) /\ probe[d][ip] \in Probe
      /\ hosts \in [Device -> SUBSET Device] /\ payloads \in [Device -> Seq(Answer)]
  BY DEF DistinctInv, Types, DiscoverTypes
<1>2. /\ probe[d][ip].at = "adding" /\ hosts' = [hosts EXCEPT ![d] = @ \cup {ip}]
  BY DEF Added
<1>3. /\ hosts'[d] = hosts[d] \cup {ip} /\ ip # d /\ ip \notin hosts[d] /\ ~ Duo
      /\ Kept(d, probe[d][ip].view)
  BY <1>1, <1>2 DEF DistinctCell
<1>4. PICK base \in {probe[d][ip].view, payloads[d]} :
       LET all == Append(base, [ip |-> ip, body |-> probe[d][ip].body]) IN
       /\ base \in Seq(Answer) /\ all \in Seq(Answer)
       /\ payloads' = [payloads EXCEPT ![d] = all]
       /\ probe'[d][ip] = IF Len(all) >= 2 THEN [Off EXCEPT !.at = "sending", !.view = all] ELSE Done
  BY DEF Added
<1> DEFINE x == [ip |-> ip, body |-> probe[d][ip].body]
<1>5. x \in Answer /\ x.ip = ip
  BY <1>1 DEF Probe, Answer
<1>6. PICK all \in Seq(Answer) :
       /\ all = Append(base, x) /\ payloads'[d] = all
       /\ probe'[d][ip] = IF Len(all) >= 2 THEN [Off EXCEPT !.at = "sending", !.view = all] ELSE Done
  BY <1>1, <1>4
<1> HIDE DEF x
<1>7. NoTwice(all) /\ \A i \in 1 .. Len(all) : all[i].ip \in hosts'[d]
  BY <1>1, <1>3, <1>4, <1>5, <1>6, KeptAppend
<1>8. probe'[d][ip].at = "done" \/ (probe'[d][ip].at = "sending" /\ probe'[d][ip].view = all /\ Len(all) >= 2)
  BY <1>6 DEF Done, Off
<1>9. QED
  BY <1>3, <1>6, <1>7, <1>8 DEF Kept

LEMMA DistinctInvStep == Types /\ [Next]_allVars /\ DistinctInv => DistinctInv'
<1> SUFFICES ASSUME Types, [Next]_allVars, DistinctInv, NEW d \in Device
    PROVE  /\ Kept(d, payloads[d])' /\ d \notin hosts'[d]
           /\ \A ip \in Device : DistinctCell(d, ip)'
           /\ dResult'[d] # <<>> => /\ NoTwice(dResult'[d]) /\ Len(dResult'[d]) >= setting'.expected
                                    /\ \A i \in 1 .. Len(dResult'[d]) : dResult'[d][i].ip # d
  BY DEF DistinctInv
<1>0. /\ Grows /\ setting \in SettingType /\ \A ip \in Device : probe[d][ip] \in Probe
      /\ hosts[d] \subseteq Device
  BY StepGrows DEF Types, NetTypes, DiscoverTypes
<1>1. (Duo' <=> Duo) /\ setting' = setting
  BY <1>0 DEF Grows, Duo
<1>2. /\ Kept(d, payloads[d]) /\ d \notin hosts[d] /\ \A ip \in Device : DistinctCell(d, ip)
      /\ dResult[d] # <<>> => /\ NoTwice(dResult[d]) /\ Len(dResult[d]) >= setting.expected
                              /\ \A i \in 1 .. Len(dResult[d]) : dResult[d][i].ip # d
  BY DEF DistinctInv
<1>3. ASSUME NEW s, Kept(d, s), hosts[d] \subseteq hosts'[d] PROVE Kept(d, s)'
  BY <1>3 DEF Kept
<1>4. Kept(d, payloads[d])' /\ d \notin hosts'[d]
  <2>1. CASE payloads'[d] = payloads[d] /\ hosts'[d] = hosts[d]
    BY <1>2, <2>1 DEF Kept
  <2>2. CASE Cleared(d)
    BY <2>2 DEF Cleared, Kept, NoTwice
  <2>3. ASSUME NEW q \in Device, Added(d, q) PROVE Kept(d, payloads[d])' /\ d \notin hosts'[d]
    BY <1>2, <2>3, KeptAdded
  <2>4. QED
    BY <2>1, <2>2, <2>3, Results
<1>5. ASSUME NEW ip \in Device PROVE DistinctCell(d, ip)'
  <2> DEFINE p == probe[d][ip]
             n == probe'[d][ip]
  <2>0. DistinctCell(d, ip)
    BY <1>2
  <2>1. CASE n.at \in {"off", "ready", "asking", "done", "answered"} /\ (ip = d => n.at = "off")
    BY <2>1 DEF DistinctCell
  <2>2. CASE n = p /\ hosts[d] \subseteq hosts'[d] /\ (p.at = "adding" => ip \notin hosts'[d])
    <3>1. p.at = "adding" \/ (p.at = "sending" /\ ~ Duo) => Kept(d, p.view)
      BY <2>0 DEF DistinctCell
    <3>2. p.at = "adding" \/ (p.at = "sending" /\ ~ Duo) => \A v : v = p.view => Kept(d, v)'
      BY <1>3, <2>2, <3>1
    <3>3. QED
      BY <1>1, <2>0, <2>2, <3>2 DEF DistinctCell
  <2>3. CASE Took(d, ip)
    <3>1. ip # d /\ hosts' = hosts
      BY <2>0, <2>3 DEF Took, DistinctCell
    <3>2. CASE Duo
      BY <1>0, <1>1, <2>3, <3>1, <3>2 DEF Took, Probe, DistinctCell
    <3>3. CASE ~ Duo /\ Known(d, ip)
      BY <2>1, <2>3, <3>1, <3>3 DEF Took, Done, Off
    <3>4. CASE ~ Duo /\ ~ Known(d, ip)
      <4>1. n.at = "adding" /\ n.view = payloads[d]
        BY <1>0, <2>3, <3>4 DEF Took, Probe
      <4>2. \A v : v = payloads[d] => Kept(d, v)'
        BY <1>2, <1>3, <3>1
      <4>3. QED
        BY <1>1, <3>1, <3>4, <4>1, <4>2 DEF Known, DistinctCell
    <3>5. QED
      BY <3>2, <3>3, <3>4
  <2>4. CASE Added(d, ip)
    BY <1>1, <2>4, KeptAdded DEF DistinctCell
  <2>5. CASE Blank(d, ip)
    BY <2>0, <2>1, <2>5 DEF Blank, DistinctCell, Off
  <2>6. CASE p.at = "asking" /\ (n = Done \/ Answered(d, ip))
    <3>1. n.at \in {"done", "answered"}
      BY <1>0, <2>6 DEF Answered, Probe, Done, Off
    <3>2. QED
      BY <2>0, <2>1, <2>6, <3>1 DEF DistinctCell
  <2>7. CASE n = p
    <3>1. CASE hosts'[d] = hosts[d]
      BY <2>0, <2>2, <2>7, <3>1 DEF DistinctCell
    <3>2. CASE Cleared(d)
      BY <2>0, <2>1, <2>7, <3>2 DEF Cleared, DistinctCell
    <3>3. ASSUME NEW q \in Device, Added(d, q) PROVE DistinctCell(d, ip)'
      <4>1. hosts'[d] = hosts[d] \cup {q} /\ probe'[d][q].at \in {"done", "sending"}
        BY <3>3, KeptAdded
      <4>2. p.at = "adding" => ip \notin hosts'[d]
        BY <2>0, <2>7, <4>1 DEF DistinctCell
      <4>3. QED
        BY <2>2, <2>7, <4>1, <4>2
    <3>4. QED
      BY <3>1, <3>2, <3>3, Results
  <2>8. QED
    BY <2>3, <2>4, <2>5, <2>6, <2>7, Cells DEF Settled
<1>6. ASSUME NEW ip \in Device, Received(d, ip)
      PROVE  /\ NoTwice(dResult'[d]) /\ Len(dResult'[d]) >= setting'.expected
             /\ \A i \in 1 .. Len(dResult'[d]) : dResult'[d][i].ip # d
  <2>1. DistinctCell(d, ip) /\ probe[d][ip].at = "sending"
    BY <1>2, <1>6 DEF Received
  <2>2. CASE Duo
    <3>1. PICK x : x = [ip |-> ip, body |-> probe[d][ip].body]
      OBVIOUS
    <3>2. dResult'[d] = <<x>> /\ x.ip = ip /\ ip # d
      BY <1>6, <2>1, <2>2, <3>1 DEF Received, DistinctCell
    <3>3. Len(<<x>>) = 1 /\ <<x>>[1] = x
      OBVIOUS
    <3>4. setting.expected = 1
      BY <2>2 DEF Duo
    <3>5. QED
      BY <1>1, <3>2, <3>3, <3>4 DEF NoTwice
  <2>3. CASE ~ Duo
    <3>1. dResult'[d] = probe[d][ip].view /\ Kept(d, probe[d][ip].view) /\ Len(probe[d][ip].view) >= 2
      BY <1>6, <2>1, <2>3 DEF Received, DistinctCell
    <3>2. setting.expected = 2
      BY <1>0, <2>3 DEF SettingType, Duo
    <3>3. QED
      BY <1>1, <1>2, <3>1, <3>2 DEF Kept
  <2>4. QED
    BY <2>2, <2>3
<1>7. dResult'[d] # <<>> => /\ NoTwice(dResult'[d]) /\ Len(dResult'[d]) >= setting'.expected
                            /\ \A i \in 1 .. Len(dResult'[d]) : dResult'[d][i].ip # d
  BY <1>1, <1>2, <1>6, Results
<1>8. QED
  BY <1>4, <1>5, <1>7

\* DiscoverPeers names no device twice and never its own, and in trio mode it
\* succeeds only with two.
THEOREM PeersDistinct == Spec => []DistinctPeers
<1>1. Spec => [](Types /\ DistinctInv)
  BY InitTypes, TypesStep, DistinctInvInit, DistinctInvStep, PTL DEF Spec
<1>2. Types /\ DistinctInv => DistinctPeers
  BY DEF DistinctInv, NoTwice, DistinctPeers
<1>3. QED
  BY <1>1, <1>2, PTL

-----------------------------------------------------------------------------
(* Whom a listener names has heard it, or is still being called back. *)

\* p has heard l, has its own peers, or the callback of l is on its way or missed.
Mutual(l, p) == p \in up =>
  \/ l \in heard[p] \/ lResult[p] # <<>>
  \/ CallbackOf(l, p) \in net
  \/ \E h \in handling : h.req = CallbackOf(l, p)
  \/ <<l, p>> \in missed

\* Whom the listener of l and its handlers know of.
Names(l) == Range(collected[l]) \cup Range(found[l]) \cup Range(lResult[l])
            \cup UNION {{h.req.from} \cup Range(h.view) : h \in {g \in handling : g.req.to = l}}

PairInv == \A l \in Device : \A p \in Names(l) : Mutual(l, p)

LEMMA PairInvInit == ExchangeInit => PairInv
<1> SUFFICES ASSUME ExchangeInit, NEW l \in Device PROVE Names(l) = {}
  BY DEF PairInv
<1>1. collected[l] = <<>> /\ found[l] = <<>> /\ lResult[l] = <<>> /\ handling = {}
  BY DEF ExchangeInit, Init
<1>2. QED
  BY <1>1, EmptyRange DEF Names

LEMMA CallbackFields == \A l, p : /\ CallbackOf(l, p).by = "callback"
                                  /\ CallbackOf(l, p).from = l /\ CallbackOf(l, p).to = p
BY DEF CallbackOf

\* Requests and handlers that a step leaves alone, and the history.
LEMMA NetFrame ==
  /\ \A d \in up : Asks(d) \/ Listens(d) \/ Shares(d) \/ PublishEnds(d)
                   \/ (\E ip \in Device : GiveUp(d, ip))
       => net \subseteq net' /\ missed' = missed /\ handling' = handling
  /\ \A h \in serving : Flush(h) => UNCHANGED <<net, missed, handling>>
<1>1. ASSUME NEW d \in up, Asks(d)
      PROVE  net \subseteq net' /\ missed' = missed /\ handling' = handling
  BY <1>1 DEF Asks, Start, SkipSelf, Check, Checked, Scan, DiscoverTimeout, Expire, Ask, Take,
              Add, Receive, DiscoverEnds, listenVars
<1>2. ASSUME NEW d \in up, Shares(d)
      PROVE  net \subseteq net' /\ missed' = missed /\ handling' = handling
  BY <1>2 DEF Shares, Publish, PublishBusy, Fetch, FetchLost, Collect, Emit, vars, listenVars
<1>3. ASSUME NEW d \in up, Listens(d) \/ PublishEnds(d) \/ \E ip \in Device : GiveUp(d, ip)
      PROVE  net \subseteq net' /\ missed' = missed /\ handling' = handling
  BY <1>3 DEF Listens, Listen, ListenBusy, ListenFound, PublishEnds, GiveUp, listenVars
<1>4. ASSUME NEW h \in serving, Flush(h) PROVE UNCHANGED <<net, missed, handling>>
  BY <1>4 DEF Flush, listenVars
<1>5. QED
  BY <1>1, <1>2, <1>3, <1>4

LEMMA AcceptAdds ==
  ASSUME NEW r, Accept(r)
  PROVE  \E h : /\ h.req = r /\ h.view = collected[r.to] /\ handling' = handling \cup {h}
               /\ UNCHANGED <<collected, found, lResult>>
<1> DEFINE h == [req |-> r, fresh |-> r.from \notin heard[r.to], view |-> collected[r.to]]
<1>1. handling' = handling \cup {h} /\ UNCHANGED <<collected, found, lResult>>
  BY DEF Accept
<1>2. h.req = r /\ h.view = collected[r.to]
  OBVIOUS
<1> HIDE DEF h
<1>3. QED
  BY <1>1, <1>2

LEMMA CallbackStays ==
  ASSUME Types, [Next]_allVars, AnswerInv, NEW l \in Device, NEW p \in Device,
         CallbackOf(l, p) \in net, p \in up'
  PROVE  Mutual(l, p)'
<1> DEFINE c == CallbackOf(l, p)
<1>0. Grows /\ c.by = "callback" /\ c.from = l /\ c.to = p
  BY StepGrows, CallbackFields
<1> HIDE DEF c
<1>1. CASE c \in net'
  BY <1>1 DEF Mutual, c
<1>2. ASSUME NEW r \in net, Handles(r) \/ Answers(r) PROVE Mutual(l, p)'
  <2>1. CASE r # c
    <3>1. net \ {r} \subseteq net'
      BY <1>2 DEF Handles, Accept, AcceptClosing, Refuse, Lose, Fails, Answers, Serve, Reject,
                  FetchMisses
    <3>2. QED
      BY <1>1, <2>1, <3>1 DEF c
  <2>2. CASE r = c /\ Accept(r)
    <3>1. PICK h \in handling' : h.req = c
      BY <2>2, AcceptAdds
    <3>2. QED
      BY <3>1 DEF Mutual, c
  <2>3. CASE r = c /\ AcceptClosing(r)
    <3>1. lResult[p] # <<>>
      BY <1>0, <2>3 DEF AcceptClosing, AnswerInv
    <3>2. QED
      BY <1>0, <3>1 DEF Grows, Mutual
  <2>4. CASE r = c /\ (Refuse(r) \/ Lose(r) \/ Serve(r) \/ Reject(r))
    <3>1. missed' = missed \cup Untaken(r)
      BY <2>4 DEF Refuse, Lose, Fails, Serve, Reject
    <3>2. <<l, p>> \in missed'
      BY <1>0, <2>4, <3>1 DEF Untaken
    <3>3. QED
      BY <3>2 DEF Mutual
  <2>5. CASE r = c /\ FetchMisses(r)
    BY <1>0, <2>5 DEF FetchMisses
  <2>6. QED
    BY <1>2, <2>1, <2>2, <2>3, <2>4, <2>5 DEF Handles, Answers
<1>3. ASSUME NEW d \in up, Closes(d) PROVE Mutual(l, p)'
  BY <1>1, <1>3 DEF Closes, ListenClose, ListenTimeout, CloseListener, c
<1>4. ASSUME NEW h \in handling, Finish(h) PROVE Mutual(l, p)'
  BY <1>1, <1>4 DEF Finish, c
<1>5. ASSUME NEW d \in up, MapRace(d) \/ PublishRace(d) PROVE Mutual(l, p)'
  BY <1>1, <1>5 DEF MapRace, PublishRace, Dies, c
<1>6. CASE net \subseteq net'
  BY <1>1, <1>6 DEF c
<1>7. CASE UNCHANGED allVars
  BY <1>6, <1>7 DEF allVars, vars
<1>8. QED
  BY <1>2, <1>3, <1>4, <1>5, <1>6, <1>7, StepKinds, NetFrame DEF Discovery, Exchange, Death, Dying

LEMMA HandlerStays ==
  ASSUME Types, [Next]_allVars, NEW l \in Device, NEW p \in Device,
         NEW h \in handling, h.req = CallbackOf(l, p), p \in up'
  PROVE  Mutual(l, p)'
<1>0. /\ h.req.by = "callback" /\ h.req.from = l /\ h.req.to = p
      /\ heard \in [Device -> SUBSET Device]
  BY CallbackFields DEF Types, ListenTypes
<1>1. CASE h \in handling'
  BY <1>1 DEF Mutual
<1>2. ASSUME NEW r \in net, Handles(r) \/ Answers(r) PROVE h \in handling'
  BY <1>2 DEF Handles, Accept, AcceptClosing, Refuse, Lose, Fails, Answers, Serve, Reject,
              FetchMisses, listenVars
<1>3. ASSUME NEW d \in up, Closes(d) PROVE Mutual(l, p)'
  <2>1. /\ handling' = {g \in handling : g.req.to # d}
        /\ missed' = missed \cup UNION {Untaken(f.req) : f \in {g \in handling : g.req.to = d}}
    BY <1>3 DEF Closes, ListenClose, ListenTimeout, CloseListener
  <2>2. CASE p # d
    BY <1>0, <1>1, <2>1, <2>2
  <2>3. CASE p = d
    <3>1. <<l, p>> \in Untaken(h.req)
      BY <1>0 DEF Untaken
    <3>2. <<l, p>> \in missed'
      BY <1>0, <2>1, <2>3, <3>1
    <3>3. QED
      BY <3>2 DEF Mutual
  <2>4. QED
    BY <2>2, <2>3
<1>4. ASSUME NEW g \in handling, Finish(g) PROVE Mutual(l, p)'
  <2>1. handling' = handling \ {g} /\ heard' = [heard EXCEPT ![g.req.to] = @ \cup {g.req.from}]
    BY <1>4 DEF Finish
  <2>2. g = h => l \in heard'[p]
    BY <1>0, <2>1
  <2>3. QED
    BY <1>1, <2>1, <2>2 DEF Mutual
<1>5. ASSUME NEW d \in up, MapRace(d) \/ PublishRace(d) PROVE Mutual(l, p)'
  <2>1. up' = up \ {d} /\ handling' = {g \in handling : g.req.to # d}
    BY <1>5 DEF MapRace, PublishRace, Dies
  <2>2. QED
    BY <1>0, <1>1, <2>1
<1>6. CASE handling' = handling
  BY <1>1, <1>6
<1>7. CASE UNCHANGED allVars
  BY <1>6, <1>7 DEF allVars, vars, listenVars
<1>8. QED
  BY <1>1, <1>2, <1>3, <1>4, <1>5, <1>6, <1>7, StepKinds, NetFrame DEF Discovery, Exchange, Death, Dying

LEMMA MissedStays == ASSUME [Next]_allVars PROVE missed \subseteq missed'
<1>1. ASSUME NEW r \in net, Handles(r) \/ Answers(r) PROVE missed \subseteq missed'
  BY <1>1 DEF Handles, Accept, AcceptClosing, Refuse, Lose, Fails, Answers, Serve, Reject,
              FetchMisses
<1>2. ASSUME NEW d \in up, Closes(d) PROVE missed \subseteq missed'
  BY <1>2 DEF Closes, ListenClose, ListenTimeout, CloseListener
<1>3. ASSUME NEW g \in handling, Finish(g) PROVE missed \subseteq missed'
  BY <1>3 DEF Finish
<1>4. ASSUME NEW d \in up, MapRace(d) \/ PublishRace(d) PROVE missed \subseteq missed'
  BY <1>4 DEF MapRace, PublishRace, Dies
<1>5. CASE UNCHANGED allVars
  BY <1>5 DEF allVars, vars
<1>6. QED
  BY <1>1, <1>2, <1>3, <1>4, <1>5, StepKinds, NetFrame DEF Discovery, Exchange, Death, Dying

LEMMA MutualStays ==
  ASSUME Types, [Next]_allVars, AnswerInv, NEW l \in Device, NEW p \in Device, Mutual(l, p)
  PROVE  Mutual(l, p)'
<1> SUFFICES ASSUME p \in up' PROVE Mutual(l, p)'
  BY DEF Mutual
<1>1. p \in up /\ Grows
  BY StepGrows DEF Grows
<1>2. CASE l \in heard[p] \/ lResult[p] # <<>>
  BY <1>1, <1>2 DEF Grows, Mutual
<1>3. CASE CallbackOf(l, p) \in net
  BY <1>3, CallbackStays
<1>4. CASE \E h \in handling : h.req = CallbackOf(l, p)
  BY <1>4, HandlerStays
<1>5. CASE <<l, p>> \in missed
  BY <1>5, MissedStays DEF Mutual
<1>6. QED
  BY <1>1, <1>2, <1>3, <1>4, <1>5 DEF Mutual

LEMMA NamesStep ==
  ASSUME Types, [Next]_allVars, NEW l \in Device, NEW p, p \in Names(l)'
  PROVE  p \in Names(l) \/ (p \in Device /\ CallbackOf(l, p) \in net')
<1> DEFINE Goal == p \in Names(l) \/ (p \in Device /\ CallbackOf(l, p) \in net')
<1>0. /\ up \subseteq Device /\ collected \in [Device -> Seq(Device)] /\ found \in [Device -> Seq(Device)]
      /\ lResult \in [Device -> Seq(Device)] /\ net \subseteq Request
  BY DEF Types, NetTypes, ListenTypes
<1>1. CASE UNCHANGED <<collected, found, lResult, handling>>
  BY <1>1 DEF Names
<1>2. ASSUME NEW d \in up, Listens(d) PROVE Goal
  <2>1. CASE Listen(d) \/ ListenBusy(d)
    BY <1>1, <2>1 DEF Listen, ListenBusy
  <2>2. CASE ListenFound(d)
    <3>1. UNCHANGED <<collected, found, handling>> /\ lResult' = [lResult EXCEPT ![d] = found[d]]
      BY <2>2 DEF ListenFound
    <3>2. lResult'[l] \in {lResult[l], found[l]}
      BY <1>0, <3>1
    <3>3. QED
      BY <3>1, <3>2 DEF Names
  <2>3. QED
    BY <1>2, <2>1, <2>2 DEF Listens
<1>3. ASSUME NEW d \in up, Closes(d) \/ MapRace(d) \/ PublishRace(d) PROVE Goal
  <2>1. /\ collected' = [collected EXCEPT ![d] = <<>>] /\ found' = [found EXCEPT ![d] = <<>>]
        /\ lResult' = lResult \/ lResult' = [lResult EXCEPT ![d] = <<>>]
        /\ handling' \subseteq handling
    <3>1. CASE Closes(d)
      BY <3>1 DEF Closes, ListenClose, ListenTimeout, CloseListener
    <3>2. CASE MapRace(d) \/ PublishRace(d)
      BY <3>2 DEF MapRace, PublishRace, Dies
    <3>3. QED
      BY <1>3, <3>1, <3>2
  <2>2. /\ collected'[l] \in {collected[l], <<>>} /\ found'[l] \in {found[l], <<>>}
        /\ lResult'[l] \in {lResult[l], <<>>}
    BY <1>0, <2>1
  <2>3. QED
    BY <2>1, <2>2, EmptyRange DEF Names
<1>4. ASSUME NEW r \in net, Accept(r) PROVE Goal
  <2>1. PICK h : /\ h.req = r /\ h.view = collected[r.to] /\ handling' = handling \cup {h}
                 /\ UNCHANGED <<collected, found, lResult>>
    BY <1>4, AcceptAdds
  <2>2. CallbackOf(r.to, r.from) \in net' /\ r.from \in Device
    BY <1>0, <1>4 DEF Accept, CallBack, Request
  <2>3. CASE p \in {h.req.from} \cup Range(h.view) /\ h.req.to = l
    BY <2>1, <2>2, <2>3 DEF Names
  <2>4. CASE ~ (p \in {h.req.from} \cup Range(h.view) /\ h.req.to = l)
    BY <2>1, <2>4 DEF Names
  <2>5. QED
    BY <2>3, <2>4
<1>5. ASSUME NEW h \in handling, Finish(h) PROVE Goal
  <2>1. PICK base \in {h.view, collected[h.req.to]} :
          LET all == Collects(h, base) IN
          /\ collected' = [collected EXCEPT ![h.req.to] = all]
          /\ found' = [found EXCEPT ![h.req.to] =
                         IF @ = <<>> /\ lPc[h.req.to] = "serve" THEN Offer(h, all) ELSE @]
    BY <1>5 DEF Finish
  <2>2. handling' = handling \ {h} /\ UNCHANGED lResult
    BY <1>5 DEF Finish
  <2> DEFINE all == Collects(h, base)
  <2>3. /\ Range(all) \subseteq Range(base) \cup Range(collected[h.req.to]) \cup {h.req.from}
        /\ Range(Offer(h, all)) \subseteq Range(all) \cup {h.req.from}
    BY FinishCollects
  <2>4. /\ collected'[l] = collected[l] \/ (h.req.to = l /\ collected'[l] = all)
        /\ found'[l] = found[l] \/ (h.req.to = l /\ found'[l] = Offer(h, all))
    BY <1>0, <2>1
  <2> HIDE DEF all
  <2>5. h.req.to = l => Range(base) \cup Range(collected[l]) \cup {h.req.from} \subseteq Names(l)
    BY <2>1 DEF Names
  <2>6. Range(collected'[l]) \subseteq Names(l) /\ Range(found'[l]) \subseteq Names(l)
    BY <2>3, <2>4, <2>5 DEF Names
  <2>7. QED
    BY <2>2, <2>6 DEF Names
<1>6. CASE UNCHANGED listenVars
  BY <1>1, <1>6 DEF listenVars
<1>7. CASE UNCHANGED allVars
  BY <1>6, <1>7 DEF allVars, vars
<1>8. QED
  BY <1>2, <1>3, <1>4, <1>5, <1>6, <1>7, StepKinds, ListenFrame
     DEF Discovery, Exchange, Death, Dying, Handles

LEMMA NamesAreDevices == Types => \A l \in Device : Names(l) \subseteq Device
<1> SUFFICES ASSUME Types, NEW l \in Device PROVE Names(l) \subseteq Device
  OBVIOUS
<1>1. \A s \in Seq(Device) : Range(s) \subseteq Device
  BY DEF Range
<1>2. /\ collected[l] \in Seq(Device) /\ found[l] \in Seq(Device) /\ lResult[l] \in Seq(Device)
      /\ \A h \in handling : h.req.from \in Device /\ h.view \in Seq(Device)
  BY DEF Types, ListenTypes, Handler, Request
<1>3. QED
  BY <1>1, <1>2 DEF Names

LEMMA PairInvStep == Types /\ [Next]_allVars /\ AnswerInv /\ PairInv => PairInv'
<1> SUFFICES ASSUME Types, [Next]_allVars, AnswerInv, PairInv, NEW l \in Device, NEW p, p \in Names(l)'
    PROVE  Mutual(l, p)'
  BY DEF PairInv
<1>1. CASE p \in Names(l)
  BY <1>1, MutualStays, NamesAreDevices DEF PairInv
<1>2. CASE CallbackOf(l, p) \in net'
  BY <1>2 DEF Mutual
<1>3. QED
  BY <1>1, <1>2, NamesStep

\* Whom ListenForPeers names knows the listener, unless the one callback that
\* would tell it was missed.
THEOREM PairingMutual == Spec => []PairingIsMutual
<1>1. Spec => [](Types /\ AnswerInv /\ PairInv)
  BY InitTypes, TypesStep, AnswerInvInit, AnswerInvStep, PairInvInit, PairInvStep, PTL DEF Spec
<1>2. Types /\ PairInv => PairingIsMutual
  <2> SUFFICES ASSUME Types, PairInv, NEW l \in up, NEW p \in Range(lResult[l]) \cap up
      PROVE  \/ l \in heard[p] \/ lResult[p] # <<>>
             \/ CallbackOf(l, p) \in net
             \/ \E h \in handling : h.req.from = l /\ h.req.to = p
             \/ <<l, p>> \in missed
    BY DEF PairingIsMutual
  <2>1. l \in Device /\ p \in Names(l)
    BY DEF Types, NetTypes, Names
  <2>2. Mutual(l, p)
    BY <2>1 DEF PairInv
  <2>3. QED
    BY <2>2, CallbackFields DEF Mutual
<1>3. QED
  BY <1>1, <1>2, PTL
-----------------------------------------------------------------------------
(* Who fetches is never left without an answer on its way. *)

AtWork == {"serve", "closing"}

\* A port is a publisher's or a listener's exactly while its call serves, and a
\* handler of the publisher does not outlive it, nor its process.
PortInv ==
  /\ \A d \in Device :
       /\ port[d] = "publisher" => d \in up /\ pPc[d] \in AtWork
       /\ d \in up /\ pPc[d] \in AtWork => port[d] = "publisher"
       /\ lPc[d] \in AtWork => port[d] = "listener"
  /\ \A h \in serving : h.req.to \in up /\ pPc[h.req.to] \in AtWork

\* The request of a FetchData that waits, on its way or in a handler's hands.
Asked(d) == \/ \E r \in net : r.by = "fetch" /\ r.from = d
            \/ \E h \in serving : h.req.by = "fetch" /\ h.req.from = d
AskInv == \A d \in Device : fPc[d] = "asking" => Asked(d)

LEMMA PortInvInit == ExchangeInit => PortInv /\ AskInv
BY DEF ExchangeInit, Init, PortInv, AskInv, AtWork

LEMMA PortInvStep == Types /\ [Next]_allVars /\ PortInv => PortInv'
<1> SUFFICES ASSUME Types, [Next]_allVars, PortInv PROVE PortInv'
  OBVIOUS
<1>0. /\ up \subseteq Device /\ net \subseteq Request
      /\ port \in [Device -> {"free", "relay", "listener", "publisher"}]
      /\ lPc \in [Device -> {"idle", "serve", "closing", "returned"}]
      /\ pPc \in [Device -> {"idle", "serve", "closing", "returned"}]
      /\ \A h \in serving : h.req.to \in Device
  BY DEF Types, NetTypes, ListenTypes, ExchangeTypes, Request
<1> USE DEF AtWork
<1>1. CASE UNCHANGED <<up, port, lPc, pPc, serving>>
  BY <1>1 DEF PortInv
<1>2. ASSUME Discovery, UNCHANGED <<up, port, lPc>> PROVE PortInv'
  BY <1>1, <1>2 DEF Discovery, exchangeVars
<1>3. ASSUME NEW d \in up, Asks(d) \/ \E ip \in Device : GiveUp(d, ip)
      PROVE  UNCHANGED <<up, port, lPc>>
  BY <1>3 DEF Asks, Start, SkipSelf, Check, Checked, Scan, DiscoverTimeout, Expire, Ask, Take,
              Add, Receive, DiscoverEnds, GiveUp, listenVars
<1>4. ASSUME NEW r \in net, Handles(r) PROVE UNCHANGED <<up, port, lPc>>
  BY <1>4 DEF Handles, Accept, AcceptClosing, Refuse, Lose, Fails, listenVars
<1>5. ASSUME NEW h \in handling, Finish(h) PROVE UNCHANGED <<up, port, lPc>>
  BY <1>5 DEF Finish
<1>6. ASSUME NEW d \in up, Listens(d), UNCHANGED exchangeVars PROVE PortInv'
  <2>1. UNCHANGED <<up, pPc, serving>>
    BY <1>6 DEF Listens, Listen, ListenBusy, ListenFound, exchangeVars
  <2>2. CASE Listen(d)
    <3>1. /\ port[d] \in {"free", "relay"} /\ port'[d] = "listener" /\ lPc'[d] = "serve"
          /\ \A e \in Device : e # d => port'[e] = port[e] /\ lPc'[e] = lPc[e]
      BY <1>0, <2>2 DEF Listen
    <3>2. QED
      BY <1>0, <2>1, <3>1 DEF PortInv
  <2>3. CASE ListenBusy(d) \/ ListenFound(d)
    <3>1. port' = port /\ \A e \in Device : lPc'[e] \in AtWork => lPc[e] \in AtWork
      BY <1>0, <2>3 DEF ListenBusy, ListenFound
    <3>2. QED
      BY <2>1, <3>1 DEF PortInv
  <2>4. QED
    BY <1>6, <2>2, <2>3 DEF Listens
<1>7. ASSUME NEW d \in up, Closes(d), UNCHANGED exchangeVars PROVE PortInv'
  <2>1. /\ UNCHANGED <<up, pPc, serving>> /\ lPc[d] \in AtWork
        /\ port' = [port EXCEPT ![d] = "free"] /\ lPc' = [lPc EXCEPT ![d] = "returned"]
    BY <1>7 DEF Closes, ListenClose, ListenTimeout, CloseListener, exchangeVars
  <2>2. port[d] = "listener"
    BY <1>0, <2>1 DEF PortInv
  <2>3. /\ port'[d] = "free" /\ lPc'[d] = "returned"
        /\ \A e \in Device : e # d => port'[e] = port[e] /\ lPc'[e] = lPc[e]
    BY <1>0, <2>1
  <2>4. QED
    BY <1>0, <2>1, <2>2, <2>3 DEF PortInv
<1>8. CASE Discovery
  BY <1>2, <1>3, <1>4, <1>5, <1>6, <1>7, <1>8 DEF Discovery
<1>9. ASSUME NEW d \in up, Publish(d) PROVE PortInv'
  <2>1. /\ UNCHANGED <<up, lPc, serving>> /\ pPc[d] = "idle" /\ port[d] \in {"free", "relay"}
        /\ port'[d] = "publisher" /\ pPc'[d] = "serve"
        /\ \A e \in Device : e # d => port'[e] = port[e] /\ pPc'[e] = pPc[e]
    BY <1>0, <1>9 DEF Publish, listenVars
  <2>2. QED
    BY <1>0, <2>1 DEF PortInv
<1>10. ASSUME NEW d \in up, PublishBusy(d) PROVE PortInv'
  <2>1. /\ UNCHANGED <<up, port, lPc, serving>> /\ pPc[d] = "idle" /\ pPc'[d] = "returned"
        /\ \A e \in Device : e # d => pPc'[e] = pPc[e]
    BY <1>0, <1>10 DEF PublishBusy, vars, listenVars
  <2>2. QED
    BY <1>0, <2>1 DEF PortInv
<1>11. ASSUME NEW d \in up, Fetch(d) \/ FetchLost(d) PROVE PortInv'
  BY <1>1, <1>11 DEF Fetch, FetchLost, listenVars
<1>12. ASSUME NEW h \in serving, Collect(h) PROVE PortInv'
  <2>1. /\ UNCHANGED <<up, port, lPc, pPc>>
        /\ \E x \in {"emit", "flush"} :
             serving' = (serving \ {h}) \cup {[h EXCEPT !.at = x, !.fresh = FALSE, !.view = <<>>]}
    BY <1>12 DEF Collect, vars, listenVars
  <2>2. h \in [req : Request, at : {"collect", "emit", "flush"}, fresh : BOOLEAN, view : Seq(Request)]
    BY DEF Types, ExchangeTypes
  <2>3. \A g \in serving' : \E f \in serving : g.req = f.req
    BY <2>1, <2>2
  <2>4. QED
    BY <2>1, <2>3 DEF PortInv
<1>13. ASSUME NEW h \in serving, Emit(h) PROVE PortInv'
  <2>1. /\ UNCHANGED <<up, port, lPc>> /\ pPc[h.req.to] = "serve"
        /\ pPc' = [pPc EXCEPT ![h.req.to] = "closing"]
        /\ serving' = (serving \ {h}) \cup {[h EXCEPT !.at = "flush"]}
    BY <1>13 DEF Emit, vars, listenVars
  <2>2. h \in [req : Request, at : {"collect", "emit", "flush"}, fresh : BOOLEAN, view : Seq(Request)]
    BY DEF Types, ExchangeTypes
  <2>3. \A g \in serving' : \E f \in serving : g.req = f.req
    BY <2>1, <2>2
  <2>4. \A e \in Device : pPc'[e] \in AtWork <=> pPc[e] \in AtWork
    BY <1>0, <2>1
  <2>5. QED
    BY <1>0, <2>1, <2>3, <2>4 DEF PortInv
<1>14. ASSUME NEW d \in up, PublishEnds(d) PROVE PortInv'
  <2>1. /\ UNCHANGED <<up, lPc>> /\ pPc[d] \in AtWork /\ serving' = {h \in serving : h.req.to # d}
        /\ port'[d] = "free" /\ pPc'[d] = "returned"
        /\ \A e \in Device : e # d => port'[e] = port[e] /\ pPc'[e] = pPc[e]
    BY <1>0, <1>14 DEF PublishEnds, CutServing, listenVars
  <2>2. port[d] = "publisher"
    BY <1>0, <2>1 DEF PortInv
  <2>3. QED
    BY <1>0, <2>1, <2>2 DEF PortInv
<1>15. ASSUME NEW r \in net, Answers(r) PROVE PortInv'
  <2>1. CASE Reject(r) \/ FetchMisses(r)
    BY <1>1, <2>1 DEF Reject, FetchMisses, listenVars
  <2>2. CASE Serve(r)
    <3>1. /\ UNCHANGED <<up, port, lPc, pPc>> /\ port[r.to] = "publisher" /\ r.to \in Device
          /\ serving' = serving \cup {[req |-> r, at |-> Encrypted,
                                       fresh |-> r.from \notin clients[r.to],
                                       view |-> queries[r.to]]}
      BY <1>0, <2>2 DEF Serve, listenVars, Request
    <3>2. QED
      BY <3>1 DEF PortInv
  <2>3. QED
    BY <1>15, <2>1, <2>2 DEF Answers
<1>16. ASSUME NEW h \in serving, Flush(h) PROVE PortInv'
  <2>1. UNCHANGED <<up, port, lPc, pPc>> /\ serving' = serving \ {h}
    BY <1>16 DEF Flush, listenVars
  <2>2. QED
    BY <2>1 DEF PortInv
<1>17. ASSUME NEW d \in up, Dying(d) PROVE PortInv'
  <2>1. /\ up' = up \ {d} /\ pPc' = pPc /\ serving' = {h \in serving : h.req.to # d}
        /\ port' = [port EXCEPT ![d] = "free"] /\ lPc' = [lPc EXCEPT ![d] = "returned"]
    BY <1>17 DEF Dying, MapRace, PublishRace, Dies, CutServing
  <2>2. /\ port'[d] = "free" /\ lPc'[d] = "returned"
        /\ \A e \in Device : e # d => port'[e] = port[e] /\ lPc'[e] = lPc[e]
    BY <1>0, <2>1
  <2>3. QED
    BY <1>0, <2>1, <2>2 DEF PortInv
<1>18. CASE UNCHANGED allVars
  BY <1>1, <1>18 DEF allVars, vars, listenVars, exchangeVars
<1>19. CASE Exchange
  BY <1>9, <1>10, <1>11, <1>12, <1>13, <1>14, <1>15, <1>16, <1>19 DEF Exchange, Shares
<1>20. CASE Death
  BY <1>17, <1>20 DEF Death
<1>21. QED
  BY <1>8, <1>18, <1>19, <1>20, StepKinds

\* The discovery leaves the requests of FetchData alone.
LEMMA FetchesStay ==
  ASSUME Discovery, NEW r \in net, r.by = "fetch"
  PROVE  r \in net'
<1>1. ASSUME NEW d \in up, Asks(d) PROVE r \in net'
  BY <1>1 DEF Asks, Start, SkipSelf, Check, Checked, Scan, DiscoverTimeout, Expire, Ask, Take,
              Add, Receive, DiscoverEnds
<1>2. ASSUME NEW d \in up, Listens(d) \/ Closes(d) \/ \E ip \in Device : GiveUp(d, ip)
      PROVE  net' = net
  BY <1>2 DEF Listens, Listen, ListenBusy, ListenFound, Closes, ListenClose, ListenTimeout, GiveUp
<1>3. ASSUME NEW q \in net, Handles(q) PROVE r \in net'
  BY <1>3 DEF Handles, Accept, AcceptClosing, Refuse, Lose, Fails
<1>4. ASSUME NEW h \in handling, Finish(h) PROVE net' = net
  BY <1>4 DEF Finish
<1>5. QED
  BY <1>1, <1>2, <1>3, <1>4 DEF Discovery

LEMMA AskInvStep == Types /\ [Next]_allVars /\ AskInv => AskInv'
<1> SUFFICES ASSUME Types, [Next]_allVars, AskInv, NEW d \in Device, fPc'[d] = "asking"
             PROVE  Asked(d)'
  BY DEF AskInv
<1>0. /\ up \subseteq Device /\ net \subseteq Request
      /\ fPc \in [Device -> {"idle", "asking", "returned"}]
      /\ serving \subseteq [req : Request, at : {"collect", "emit", "flush"},
                            fresh : BOOLEAN, view : Seq(Request)]
  BY DEF Types, NetTypes, ExchangeTypes
<1>1. ASSUME fPc[d] = "asking", net \subseteq net', serving \subseteq serving' PROVE Asked(d)'
  BY <1>1 DEF AskInv, Asked
<1>2. ASSUME NEW R, Unserved(R)
      PROVE  fPc[d] = "asking" /\ \A r \in R : ~ (r.by = "fetch" /\ r.from = d)
  BY <1>2 DEF Unserved
<1>3. CASE Discovery
  <2>1. UNCHANGED <<fPc, serving>>
    BY <1>3 DEF Discovery, exchangeVars
  <2>2. QED
    BY <1>3, <2>1, FetchesStay DEF AskInv, Asked
<1>4. ASSUME NEW e \in up, Publish(e) \/ PublishBusy(e) \/ FetchLost(e) PROVE Asked(d)'
  <2>1. UNCHANGED <<net, serving>> /\ fPc[d] = "asking"
    BY <1>0, <1>4 DEF Publish, PublishBusy, FetchLost, vars
  <2>2. QED
    BY <1>1, <2>1
<1>5. ASSUME NEW e \in up, Fetch(e) PROVE Asked(d)'
  <2>1. PICK p \in Device : net' = net \cup {[by |-> "fetch", from |-> e, to |-> p]}
    <3>1. setting.publish \subseteq Device
      BY SettingAssumption DEF Types, NetTypes, SettingType
    <3>2. QED
      BY <1>5, <3>1 DEF Fetch
  <2>2. UNCHANGED serving /\ fPc' = [fPc EXCEPT ![e] = "asking"]
    BY <1>5 DEF Fetch
  <2>3. CASE e = d
    <3> DEFINE r == [by |-> "fetch", from |-> e, to |-> p]
    <3>1. r \in net' /\ r.by = "fetch" /\ r.from = d
      BY <2>1, <2>3
    <3>2. QED
      BY <3>1 DEF Asked
  <2>4. CASE e # d
    BY <1>0, <1>1, <2>1, <2>2, <2>4
  <2>5. QED
    BY <2>3, <2>4
<1>6. ASSUME NEW h \in serving, Collect(h) \/ Emit(h) PROVE Asked(d)'
  <2>1. /\ UNCHANGED <<net, fPc>>
        /\ \/ \E x \in {"emit", "flush"} :
                serving' = (serving \ {h}) \cup {[h EXCEPT !.at = x, !.fresh = FALSE, !.view = <<>>]}
           \/ serving' = (serving \ {h}) \cup {[h EXCEPT !.at = "flush"]}
    BY <1>6 DEF Collect, Emit, vars
  <2>2. \E g \in serving' : g.req = h.req
    <3>1. CASE serving' = (serving \ {h}) \cup {[h EXCEPT !.at = "flush"]}
      <4>1. [h EXCEPT !.at = "flush"].req = h.req
        BY <1>0
      <4>2. QED
        BY <3>1, <4>1
    <3>2. ASSUME NEW x, serving' = (serving \ {h}) \cup
                                   {[h EXCEPT !.at = x, !.fresh = FALSE, !.view = <<>>]}
          PROVE  \E g \in serving' : g.req = h.req
      <4>1. [h EXCEPT !.at = x, !.fresh = FALSE, !.view = <<>>].req = h.req
        BY <1>0
      <4>2. QED
        BY <3>2, <4>1
    <3>3. QED
      BY <2>1, <3>1, <3>2
  <2>3. \A f \in serving : f # h => f \in serving'
    BY <2>1
  <2>4. QED
    BY <2>1, <2>2, <2>3 DEF AskInv, Asked
<1>7. ASSUME NEW h \in serving, Flush(h) PROVE Asked(d)'
  <2>1. net' = net /\ serving' = serving \ {h}
    BY <1>7 DEF Flush
  <2>2. fPc[d] = "asking" /\ ~ (h.req.by = "fetch" /\ h.req.from = d)
    <3>1. CASE h.req.by = "fetch" /\ fPc[h.req.from] = "asking"
      BY <1>2, <1>7, <3>1 DEF Flush
    <3>2. CASE ~ (h.req.by = "fetch" /\ fPc[h.req.from] = "asking")
      BY <1>7, <3>2 DEF Flush
    <3>3. QED
      BY <3>1, <3>2
  <2>3. QED
    BY <2>1, <2>2 DEF AskInv, Asked
<1>8. ASSUME NEW e \in Device, CutServing(e), net' = net PROVE Asked(d)'
  <2>1. serving' = {h \in serving : h.req.to # e}
    BY <1>8 DEF CutServing
  <2>2. fPc[d] = "asking" /\ \A h \in serving : h.req.to = e => ~ (h.req.by = "fetch" /\ h.req.from = d)
    BY <1>2, <1>8 DEF CutServing
  <2>3. QED
    BY <1>8, <2>1, <2>2 DEF AskInv, Asked
<1>9. ASSUME NEW e \in up, PublishEnds(e) PROVE Asked(d)'
  BY <1>0, <1>8, <1>9 DEF PublishEnds
<1>10. ASSUME NEW e \in up, Dying(e) PROVE Asked(d)'
  BY <1>0, <1>8, <1>10 DEF Dying, MapRace, PublishRace, Dies
<1>11. ASSUME NEW r \in net, Serve(r) PROVE Asked(d)'
  <2> DEFINE h == [req |-> r, at |-> Encrypted, fresh |-> r.from \notin clients[r.to],
                   view |-> queries[r.to]]
  <2>1. UNCHANGED fPc /\ net' = net \ {r} /\ serving' = serving \cup {h}
    BY <1>11 DEF Serve
  <2>2. h.req = r
    OBVIOUS
  <2> HIDE DEF h
  <2>3. QED
    BY <2>1, <2>2 DEF AskInv, Asked
<1>12. ASSUME NEW r \in net, Reject(r) \/ FetchMisses(r) PROVE Asked(d)'
  <2>1. UNCHANGED serving /\ net' = net \ {r} /\ Unserved({r})
    BY <1>12 DEF Reject, FetchMisses
  <2>2. QED
    BY <1>2, <2>1 DEF AskInv, Asked
<1>13. CASE UNCHANGED allVars
  BY <1>1, <1>13 DEF allVars, vars, exchangeVars
<1>14. CASE Exchange
  BY <1>4, <1>5, <1>6, <1>7, <1>9, <1>11, <1>12, <1>14 DEF Exchange, Shares, Answers
<1>15. CASE Death
  BY <1>10, <1>15 DEF Death
<1>16. QED
  BY <1>3, <1>13, <1>14, <1>15, StepKinds

\* A FetchData that waits can always be answered: its request is on its way, to a
\* publisher that runs or to a port where it fails at once, or in the hands of a
\* handler whose PublishData still runs and will cut it off at the latest, whatever
\* process died meanwhile.
THEOREM FetchIsAnswerable ==
  Spec => [](\A d \in Device : fPc[d] = "asking" =>
    \/ \E r \in net : /\ r.by = "fetch" /\ r.from = d
                      /\ port[r.to] = "publisher" => r.to \in up
    \/ \E h \in serving : /\ h.req.by = "fetch" /\ h.req.from = d
                          /\ h.req.to \in up /\ pPc[h.req.to] \in {"serve", "closing"})
<1>1. Spec => [](Types /\ PortInv /\ AskInv)
  BY InitTypes, TypesStep, PortInvInit, PortInvStep, AskInvStep, PTL DEF Spec
<1>2. Types /\ PortInv /\ AskInv => \A d \in Device : fPc[d] = "asking" =>
    \/ \E r \in net : /\ r.by = "fetch" /\ r.from = d
                      /\ port[r.to] = "publisher" => r.to \in up
    \/ \E h \in serving : /\ h.req.by = "fetch" /\ h.req.from = d
                          /\ h.req.to \in up /\ pPc[h.req.to] \in {"serve", "closing"}
  <2> SUFFICES ASSUME Types, PortInv, AskInv, NEW d \in Device, fPc[d] = "asking"
               PROVE  \/ \E r \in net : /\ r.by = "fetch" /\ r.from = d
                                        /\ port[r.to] = "publisher" => r.to \in up
                      \/ \E h \in serving : /\ h.req.by = "fetch" /\ h.req.from = d
                                            /\ h.req.to \in up
                                            /\ pPc[h.req.to] \in {"serve", "closing"}
    OBVIOUS
  <2>1. \A r \in net : r.to \in Device
    BY DEF Types, NetTypes, Request
  <2>2. Asked(d)
    BY DEF AskInv
  <2>3. QED
    BY <2>1, <2>2 DEF Asked, PortInv, AtWork
<1>3. QED
  BY <1>1, <1>2, PTL
================================================================================
