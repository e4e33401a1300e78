----------------------------- MODULE PeerDiscovery -----------------------------
(***************************************************************************)
(* How the devices of a wallet find each other on a local network (tss/    *)
(* peers.go): ListenForPeers serves HTTP on a port every device uses and   *)
(* DiscoverPeers asks every address of the subnet on that port.            *)
(*                                                                         *)
(* Handlers, callbacks and probes are goroutines.  In trio mode they share *)
(* maps and slices without a lock: each of them looks them up in one step  *)
(* and writes in a later one, appending to the slice as it is then or as it*)
(* was before; and such goroutines may end the process, see MapRace.       *)
(* Addresses without a device only refuse, and are left out.  A request is *)
(* its kind and its ends; equal requests under way count as one.           *)
(***************************************************************************)
EXTENDS Naturals, Sequences, FiniteSets, Functions

CONSTANTS
  Device,
  Setting    \* what the callers ask for: records of SettingType below

VARIABLES
  setting,    \* the chosen element of Setting
  up,         \* devices whose process runs
  port,       \* what answers on the port of each device
  net,        \* requests under way
  lost,       \* how many requests and answers were lost
  missed,     \* history: <<from, to>> of callbacks no listener took
  lPc,        \* ListenForPeers of each device
  heard,      \* peerIPs (in duo mode the code does not keep them: history)
  collected,  \* collectedIPs
  found,      \* the payload in the peerFound channel of the listener, if any
  lResult,    \* the peers ListenForPeers returns
  handling,   \* handlers of the listener between their reads and their writes
  dPc,        \* DiscoverPeers of each device
  todo,       \* remote addresses the discoverer has yet to ask
  expired,    \* its context's deadline has passed
  probe,      \* its checkPeer calls
  hosts,      \* foundIPs
  payloads,   \* foundPayloads
  dResult     \* the answers DiscoverPeers returns

listenVars   == <<lPc, heard, collected, found, lResult, handling>>
discoverVars == <<dPc, todo, expired, probe, hosts, payloads, dResult>>
vars == <<setting, up, port, net, lost, missed, listenVars, discoverVars>>

SettingType ==
  [expected : 1..2, listen : SUBSET Device, discover : SUBSET Device,
   lan : SUBSET Device, remote : [Device -> Seq(Device)],
   publish : SUBSET Device, allowed : SUBSET Device, fetch : SUBSET Device,
   relay : SUBSET Device,
   losses : Nat]   \* bound: requests or answers that are lost

ASSUME SettingAssumption == Setting \subseteq SettingType

Answer  == [ip : Device, body : {"peer", "empty", "data"}]
Request == [by : {"probe", "callback", "fetch"}, from : Device, to : Device]
Handler == [req : Request, fresh : BOOLEAN, view : Seq(Device)]
Probe   == [at : {"off", "ready", "asking", "answered", "adding", "sending", "done"},
            body : {"peer", "empty", "data"}, view : Seq(Answer)]
Off     == [at |-> "off", body |-> "empty", view |-> <<>>]
Done    == [Off EXCEPT !.at = "done"]

ProbeOf(d, ip)    == [by |-> "probe", from |-> d, to |-> ip]
CallbackOf(d, ip) == [by |-> "callback", from |-> d, to |-> ip]
Duo == setting.expected = 1

TypeOK ==
  /\ setting \in Setting /\ up \subseteq Device /\ lost \in 0..setting.losses
  /\ port \in [Device -> {"free", "relay", "listener", "publisher"}]
  /\ net \subseteq Request /\ missed \subseteq Device \X Device
  /\ lPc \in [Device -> {"idle", "serve", "closing", "returned"}]
  /\ heard \in [Device -> SUBSET Device] /\ hosts \in [Device -> SUBSET Device]
  /\ {collected, found, lResult, todo} \subseteq [Device -> Seq(Device)]
  /\ {payloads, dResult} \subseteq [Device -> Seq(Answer)]
  /\ probe \in [Device -> [Device -> Probe]] /\ handling \subseteq Handler
  /\ dPc \in [Device -> {"idle", "remote", "select", "returned"}]
  /\ expired \in [Device -> BOOLEAN]

Init ==
  /\ setting \in Setting /\ up = Device /\ lost = 0
  /\ port = [d \in Device |-> IF d \in setting.relay THEN "relay" ELSE "free"]
  /\ net = {} /\ missed = {} /\ handling = {}
  /\ lPc = [d \in Device |-> "idle"] /\ dPc = [d \in Device |-> "idle"]
  /\ heard = [d \in Device |-> {}] /\ hosts = [d \in Device |-> {}]
  /\ collected = [d \in Device |-> <<>>] /\ found = [d \in Device |-> <<>>]
  /\ lResult = [d \in Device |-> <<>>] /\ todo = [d \in Device |-> <<>>]
  /\ expired = [d \in Device |-> FALSE]
  /\ probe = [d \in Device |-> [ip \in Device |-> Off]]
  /\ payloads = [d \in Device |-> <<>>] /\ dResult = [d \in Device |-> <<>>]

(***************************************************************************)
(* What the two sides do to each other's connections.                      *)
(***************************************************************************)
\* The answer to r, if the one who asked still waits for it.
AnswerTo(r, body) ==
  IF r.by = "probe" /\ probe[r.from][r.to].at = "asking"
  THEN [probe EXCEPT ![r.from][r.to].at = "answered", ![r.from][r.to].body = body]
  ELSE probe

\* The request r fails: client.Get returns an error or a status other than 200.
ErrorTo(r) ==
  IF r.by = "probe" /\ probe[r.from][r.to].at = "asking"
  THEN [probe EXCEPT ![r.from][r.to] = Done] ELSE probe

\* listener.Close and server.Close: connections of handlers at d are cut.
Cut(d) ==
  [p \in Device |-> [ip \in Device |->
     IF ip = d /\ probe[p][ip].at = "asking" /\ ProbeOf(p, d) \notin net
     THEN Done ELSE probe[p][ip]]]

\* The callback r, when it found no listener.
Untaken(r) == IF r.by = "callback" THEN {<<r.from, r.to>>} ELSE {}

\* The goroutines of a call that has returned leave nothing anyone reads.
CloseListener(d) ==
  /\ lPc' = [lPc EXCEPT ![d] = "returned"]
  /\ collected' = [collected EXCEPT ![d] = <<>>]
  /\ found' = [found EXCEPT ![d] = <<>>]
  /\ port' = [port EXCEPT ![d] = "free"]
  /\ handling' = {h \in handling : h.req.to # d}
  /\ missed' = missed \cup UNION {Untaken(h.req) : h \in {g \in handling : g.req.to = d}}
  /\ probe' = Cut(d)

(***************************************************************************)
(* ListenForPeers                                                          *)
(***************************************************************************)
\* StopRelay frees the port only when the relay of this process holds it.
Listen(d) ==
  /\ d \in setting.listen /\ lPc[d] = "idle"
  /\ port[d] \in {"free", "relay"}
  /\ port' = [port EXCEPT ![d] = "listener"]
  /\ lPc' = [lPc EXCEPT ![d] = "serve"]
  /\ UNCHANGED <<setting, up, net, lost, missed, discoverVars,
                 heard, collected, found, lResult, handling>>

ListenBusy(d) ==
  /\ d \in setting.listen /\ lPc[d] = "idle"
  /\ port[d] \notin {"free", "relay"}
  /\ lPc' = [lPc EXCEPT ![d] = "returned"]
  /\ UNCHANGED <<setting, up, port, net, lost, missed, discoverVars,
                 heard, collected, found, lResult, handling>>

\* Mutant: the one who asked is not called back.
CallBackLater(r) == IF r.by = "probe" THEN {} ELSE {CallbackOf(r.to, r.from)}

\* The callback a handler starts, at the port every device uses.
CallBack(r) == {CallbackOf(r.to, r.from)}

\* Mutant: the handler answers first and records afterwards.
AcceptReplying(r) ==
  /\ r.by # "fetch" /\ port[r.to] = "listener" /\ lPc[r.to] = "serve"
  /\ net' = (net \ {r}) \cup CallBack(r)
  /\ handling' = handling \cup {[req |-> r, fresh |-> r.from \notin heard[r.to],
                                 view |-> collected[r.to]]}
  /\ probe' = AnswerTo(r, "peer")
  /\ UNCHANGED <<setting, up, port, lost, missed, lPc, heard, collected, found, lResult,
                 dPc, todo, expired, hosts, payloads, dResult>>

\* The handler starts the callback; the trio branch reads peerIPs and collectedIPs.
Accept(r) ==
  /\ r.by # "fetch" /\ port[r.to] = "listener" /\ lPc[r.to] = "serve"
  /\ net' = (net \ {r}) \cup CallBack(r)
  /\ handling' = handling \cup {[req   |-> r,
                                 fresh |-> r.from \notin heard[r.to],
                                 view  |-> collected[r.to]]}
  /\ UNCHANGED <<setting, up, port, lost, missed, discoverVars,
                 lPc, heard, collected, found, lResult>>

\* Once stopServer is closed the handler returns at once: an empty 200.
AcceptClosing(r) ==
  /\ r.by # "fetch" /\ port[r.to] = "listener" /\ lPc[r.to] = "closing"
  /\ net' = net \ {r}
  /\ probe' = AnswerTo(r, "empty")
  /\ UNCHANGED <<setting, up, port, lost, missed, listenVars,
                 dPc, todo, expired, hosts, payloads, dResult>>

\* What the handler leaves in collectedIPs when it appends to base, and what
\* it then offers to peerFound.
Collects(h, base) == IF ~Duo /\ h.fresh THEN Append(base, h.req.from)
                                        ELSE collected[h.req.to]
Offer(h, all) == CASE Duo -> <<h.req.from>>
                   [] ~Duo /\ h.fresh /\ Len(all) >= 2 -> SubSeq(all, 1, 2)
                   [] OTHER -> <<>>

\* The rest of the handler; the append may miss another handler's, and the send
\* to peerFound does not block.
Finish(h) ==
  LET d == h.req.to IN
  /\ port[d] = "listener"
  /\ handling' = handling \ {h}
  /\ heard' = [heard EXCEPT ![d] = @ \cup {h.req.from}]
  /\ \E base \in {h.view, collected[d]} :
       LET all == Collects(h, base) IN
       /\ collected' = [collected EXCEPT ![d] = all]
       /\ found' = [found EXCEPT ![d] =
                      IF @ = <<>> /\ lPc[d] = "serve" THEN Offer(h, all) ELSE @]
  /\ probe' = AnswerTo(h.req, "peer")
  /\ UNCHANGED <<setting, up, port, net, lost, missed, lPc, lResult,
                 dPc, todo, expired, hosts, payloads, dResult>>

\* close(stopServer), two seconds of grace, then the listener is closed.
ListenFound(d) ==
  /\ lPc[d] = "serve" /\ found[d] # <<>>
  /\ lPc' = [lPc EXCEPT ![d] = "closing"]
  /\ lResult' = [lResult EXCEPT ![d] = found[d]]
  /\ UNCHANGED <<setting, up, port, net, lost, missed, discoverVars,
                 heard, collected, found, handling>>

ListenClose(d) ==
  /\ lPc[d] = "closing"
  /\ CloseListener(d)
  /\ UNCHANGED <<setting, up, net, lost, heard, lResult,
                 dPc, todo, expired, hosts, payloads, dResult>>

ListenTimeout(d) ==
  /\ lPc[d] = "serve"
  /\ CloseListener(d)
  /\ UNCHANGED <<setting, up, net, lost, heard, lResult,
                 dPc, todo, expired, hosts, payloads, dResult>>

(***************************************************************************)
(* DiscoverPeers.  The caller's goroutine asks the remote addresses itself,*)
(* one after the other; the subnet is asked by a goroutine per address.    *)
(***************************************************************************)
Start(d) ==
  /\ d \in setting.discover /\ dPc[d] = "idle"
  /\ dPc' = [dPc EXCEPT ![d] = "remote"]
  /\ todo' = [todo EXCEPT ![d] = setting.remote[d]]
  /\ UNCHANGED <<setting, up, port, net, lost, missed, listenVars,
                 expired, probe, hosts, payloads, dResult>>

\* Its own address, if it is one of those given.
SkipSelf(d) ==
  /\ dPc[d] = "remote" /\ todo[d] # <<>> /\ Head(todo[d]) = d
  /\ todo' = [todo EXCEPT ![d] = Tail(@)]
  /\ UNCHANGED <<setting, up, port, net, lost, missed, listenVars,
                 dPc, expired, probe, hosts, payloads, dResult>>

Check(d) ==
  /\ dPc[d] = "remote" /\ todo[d] # <<>> /\ Head(todo[d]) # d /\ probe[d][Head(todo[d])] = Off
  /\ probe' = [probe EXCEPT ![d][Head(todo[d])].at = "ready"]
  /\ UNCHANGED <<setting, up, port, net, lost, missed, listenVars,
                 dPc, todo, expired, hosts, payloads, dResult>>

\* The call of checkPeer for a remote address returns.
Checked(d) ==
  /\ dPc[d] = "remote" /\ todo[d] # <<>> /\ probe[d][Head(todo[d])] = Done
  /\ todo' = [todo EXCEPT ![d] = Tail(@)]
  /\ probe' = [probe EXCEPT ![d][Head(todo[d])] = Off]
  /\ UNCHANGED <<setting, up, port, net, lost, missed, listenVars,
                 dPc, expired, hosts, payloads, dResult>>

Scan(d) ==
  /\ dPc[d] = "remote" /\ todo[d] = <<>>
  /\ dPc' = [dPc EXCEPT ![d] = "select"]
  /\ probe' = [probe EXCEPT ![d] = [ip \in Device |->
                 IF ip \in setting.lan \ {d} THEN [Off EXCEPT !.at = "ready"] ELSE Off]]
  /\ UNCHANGED <<setting, up, port, net, lost, missed, listenVars,
                 todo, expired, hosts, payloads, dResult>>

\* checkPeer up to client.Get; it does nothing once the context is done.
Ask(d, ip) ==
  /\ probe[d][ip].at = "ready"
  /\ IF expired[d]
     THEN probe' = [probe EXCEPT ![d][ip] = Done] /\ net' = net
     ELSE /\ probe' = [probe EXCEPT ![d][ip].at = "asking"]
          /\ net' = net \cup {ProbeOf(d, ip)}
  /\ UNCHANGED <<setting, up, port, lost, missed, listenVars,
                 dPc, todo, expired, hosts, payloads, dResult>>

\* Mutant: foundIPs keeps the address with its port and never has the host.
Knows(d, ip) == FALSE

Known(d, ip) == ip \in hosts[d]

\* An answer with status 200: duo sends it, trio looks the host up first.
Take(d, ip) ==
  /\ probe[d][ip].at = "answered"
  /\ probe' = [probe EXCEPT ![d][ip] =
                 CASE Duo -> [@ EXCEPT !.at = "sending"]
                   [] ~Duo /\ Known(d, ip) -> Done
                   [] OTHER -> [@ EXCEPT !.at = "adding", !.view = payloads[d]]]
  /\ UNCHANGED <<setting, up, port, net, lost, missed, listenVars,
                 dPc, todo, expired, hosts, payloads, dResult>>

Add(d, ip) ==
  /\ probe[d][ip].at = "adding"
  /\ hosts' = [hosts EXCEPT ![d] = @ \cup {ip}]
  /\ \E base \in {probe[d][ip].view, payloads[d]} :
       LET all == Append(base, [ip |-> ip, body |-> probe[d][ip].body]) IN
       /\ payloads' = [payloads EXCEPT ![d] = all]
       /\ probe' = [probe EXCEPT ![d][ip] =
                      IF Len(all) >= 2 THEN [Off EXCEPT !.at = "sending", !.view = all]
                                       ELSE Done]
  /\ UNCHANGED <<setting, up, port, net, lost, missed, listenVars,
                 dPc, todo, expired, dResult>>

DiscoverEnds(d) ==
  /\ dPc' = [dPc EXCEPT ![d] = "returned"]
  /\ probe' = [probe EXCEPT ![d] = [q \in Device |-> Off]]
  /\ hosts' = [hosts EXCEPT ![d] = {}]
  /\ payloads' = [payloads EXCEPT ![d] = <<>>]
  /\ expired' = [expired EXCEPT ![d] = FALSE]
  /\ UNCHANGED <<setting, up, port, net, lost, missed, listenVars, todo>>

\* peerFound is unbuffered: the send completes when the caller selects.
Receive(d, ip) ==
  /\ dPc[d] = "select" /\ probe[d][ip].at = "sending"
  /\ dResult' = [dResult EXCEPT ![d] =
                   IF Duo THEN <<[ip |-> ip, body |-> probe[d][ip].body]>> ELSE probe[d][ip].view]
  /\ DiscoverEnds(d)

\* Mutant: only a discovery that found nobody times out.
DiscoverTimeoutAlone(d) ==
  /\ dPc[d] = "select" /\ expired[d] /\ hosts[d] = {}
  /\ DiscoverEnds(d) /\ UNCHANGED dResult

DiscoverTimeout(d) ==
  /\ dPc[d] = "select" /\ expired[d]
  /\ DiscoverEnds(d) /\ UNCHANGED dResult

Expire(d) ==
  /\ dPc[d] \in {"remote", "select"} /\ ~expired[d]
  /\ expired' = [expired EXCEPT ![d] = TRUE]
  /\ UNCHANGED <<setting, up, port, net, lost, missed, listenVars,
                 dPc, todo, probe, hosts, payloads, dResult>>

(***************************************************************************)
(* The network, and what concurrent map writes do to a process.            *)
(***************************************************************************)
Fails(r) ==
  /\ net' = net \ {r}
  /\ probe' = ErrorTo(r)
  /\ missed' = missed \cup Untaken(r)
  /\ UNCHANGED <<setting, up, port, listenVars, dPc, todo, expired, hosts, payloads, dResult>>

\* Nobody listens, or the relay has no such path.
Refuse(r) == /\ r.by # "fetch" /\ port[r.to] \in {"free", "relay"}
             /\ Fails(r) /\ UNCHANGED lost

Lose(r) == /\ r.by # "fetch" /\ lost < setting.losses
           /\ Fails(r) /\ lost' = lost + 1

\* The two seconds of the client pass while the request is being handled.
GiveUp(d, ip) ==
  /\ probe[d][ip].at = "asking" /\ lost < setting.losses
  /\ lost' = lost + 1
  /\ probe' = [probe EXCEPT ![d][ip] = Done]
  /\ UNCHANGED <<setting, up, port, net, missed, listenVars,
                 dPc, todo, expired, hosts, payloads, dResult>>

\* The runtime ends a process whose goroutines use a map at the same time.
Dies(d) ==
  /\ up' = up \ {d}
  /\ port' = [port EXCEPT ![d] = "free"]
  /\ lPc' = [lPc EXCEPT ![d] = "returned"] /\ dPc' = [dPc EXCEPT ![d] = "returned"]
  /\ heard' = [heard EXCEPT ![d] = {}]
  /\ collected' = [collected EXCEPT ![d] = <<>>] /\ found' = [found EXCEPT ![d] = <<>>]
  /\ expired' = [expired EXCEPT ![d] = FALSE] /\ hosts' = [hosts EXCEPT ![d] = {}]
  /\ payloads' = [payloads EXCEPT ![d] = <<>>] /\ todo' = [todo EXCEPT ![d] = <<>>]
  /\ lResult' = [lResult EXCEPT ![d] = <<>>] /\ dResult' = [dResult EXCEPT ![d] = <<>>]
  /\ handling' = {h \in handling : h.req.to # d}
  /\ probe' = [Cut(d) EXCEPT ![d] = [ip \in Device |-> Off]]
  /\ UNCHANGED <<setting, net, lost, missed>>

MapRace(d) ==
  /\ ~Duo
  /\ \/ \E h, g \in handling : h # g /\ h.req.to = d /\ g.req.to = d /\ h.fresh
     \/ \E p, q \in Device : p # q /\ {probe[d][p].at, probe[d][q].at} = {"adding"}
  /\ Dies(d)

Calls(d) ==
  /\ d \in up
  /\ \/ Listen(d) \/ ListenBusy(d) \/ ListenFound(d) \/ ListenClose(d) \/ ListenTimeout(d)
     \/ Start(d) \/ SkipSelf(d) \/ Check(d) \/ Checked(d) \/ Scan(d)
     \/ DiscoverTimeout(d) \/ Expire(d)
     \/ \E ip \in Device : Ask(d, ip) \/ Take(d, ip) \/ Add(d, ip) \/ Receive(d, ip)
     \/ \E r \in net : r.from = d /\ Refuse(r)

Serves(d) ==
  /\ d \in up
  /\ \/ \E r \in net : r.to = d /\ (Accept(r) \/ AcceptClosing(r))
     \/ \E h \in handling : h.req.to = d /\ Finish(h)

Faults(d) ==
  /\ d \in up
  /\ \/ \E r \in net : r.from = d /\ Lose(r)
     \/ \E ip \in Device : GiveUp(d, ip)

(***************************************************************************)
(* Properties                                                              *)
(***************************************************************************)
\* DiscoverPeers takes no answer from a device that does not know of it: the
\* listener behind it has heard the caller, or already has peers of its own and
\* answers emptily, or it is a publisher (a handler answers after it recorded
\* who asks, and after stopServer it answers nothing, with status 200).
AnswersAreTrue ==
  \A d \in Device : \A a \in Range(payloads[d]) \cup Range(dResult[d]) : a.ip \in up =>
    /\ a.body = "peer" => d \in heard[a.ip]
    /\ a.body = "empty" => lResult[a.ip] # <<>>

\* Whom ListenForPeers names has heard the listener too, or is being called
\* back, or has its own peers already, unless that callback found no listener
\* or was lost: the handler calls back whoever asks, and nobody asks again.
PairingIsMutual ==
  \A l \in up : \A p \in Range(lResult[l]) \cap up :
    \/ l \in heard[p] \/ lResult[p] # <<>>
    \/ CallbackOf(l, p) \in net
    \/ \E h \in handling : h.req.from = l /\ h.req.to = p
    \/ <<l, p>> \in missed

\* DiscoverPeers succeeds in trio mode only with two devices, names none of them
\* twice and never its own, although a device may be reached at a remote address
\* and again in the subnet (the check of foundIPs).
DistinctPeers ==
  \A d \in Device : LET peers == dResult[d] IN peers # <<>> =>
    /\ Len(peers) >= setting.expected
    /\ \A i, j \in 1 .. Len(peers) : peers[i].ip = peers[j].ip => i = j
    /\ \A i \in 1 .. Len(peers) : peers[i].ip # d

\* DiscoverPeers always returns, at the latest with "peer discovery timed out".
DiscoverReturns == <>[](\A d \in up : dPc[d] \in {"idle", "returned"})
================================================================================
