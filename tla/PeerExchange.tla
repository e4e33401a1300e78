------------------------------ MODULE PeerExchange ------------------------------
(***************************************************************************)
(* PublishData and FetchData of tss/peers.go, which hand a secret to the   *)
(* devices PeerDiscovery found, on the port the listeners have just used:  *)
(* the publisher answers whatever request reaches that port, a late probe  *)
(* or callback of the discovery included.  Keys are those of the devices   *)
(* in setting.allowed; the data is encrypted for the one who asks.         *)
(***************************************************************************)
EXTENDS PeerDiscovery

VARIABLES
  pPc,       \* PublishData of each device
  clients,   \* clientIPs
  queries,   \* the requests in payloads
  pResult,   \* the requests PublishData returns
  serving,   \* handlers of the publisher
  fPc,       \* FetchData of each device
  fetched    \* devices whose FetchData returned the data

exchangeVars == <<pPc, clients, queries, pResult, serving, fPc, fetched>>
allVars == <<vars, exchangeVars>>

ExchangeTypeOK ==
  /\ TypeOK
  /\ pPc \in [Device -> {"idle", "serve", "closing", "returned"}]
  /\ fPc \in [Device -> {"idle", "asking", "returned"}]
  /\ clients \in [Device -> SUBSET Device] /\ fetched \subseteq Device
  /\ {queries, pResult} \subseteq [Device -> Seq(Request)]
  /\ serving \subseteq [req : Request, at : {"collect", "emit", "flush"},
                        fresh : BOOLEAN, view : Seq(Request)]

ExchangeInit ==
  /\ Init
  /\ pPc = [d \in Device |-> "idle"] /\ fPc = [d \in Device |-> "idle"]
  /\ clients = [d \in Device |-> {}] /\ fetched = {} /\ serving = {}
  /\ queries = [d \in Device |-> <<>>] /\ pResult = [d \in Device |-> <<>>]

\* The application exchanges data when one of its discovery calls has succeeded.
Ready(d) == d \in setting.listen \cup setting.discover =>
              (lPc[d] = "returned" /\ lResult[d] # <<>>) \/ dResult[d] # <<>>

\* What a request that got no data leaves with the one who asked.
Unserved(R) == fPc' = [d \in Device |-> IF \E r \in R : r.by = "fetch" /\ r.from = d
                                        THEN "returned" ELSE fPc[d]]

(***************************************************************************)
(* PublishData                                                             *)
(***************************************************************************)
Publish(d) ==
  /\ d \in setting.publish /\ pPc[d] = "idle" /\ Ready(d)
  /\ port[d] \in {"free", "relay"}
  /\ port' = [port EXCEPT ![d] = "publisher"]
  /\ pPc' = [pPc EXCEPT ![d] = "serve"]
  /\ UNCHANGED <<setting, up, net, lost, missed, listenVars, discoverVars,
                 clients, queries, pResult, serving, fPc, fetched>>

PublishBusy(d) ==
  /\ d \in setting.publish /\ pPc[d] = "idle" /\ Ready(d)
  /\ port[d] \notin {"free", "relay"}
  /\ pPc' = [pPc EXCEPT ![d] = "returned"]
  /\ UNCHANGED <<vars, clients, queries, pResult, serving, fPc, fetched>>

\* Duo answers everyone; trio only the keys it was given.
Authorized(r) == Duo \/ r.from \in setting.allowed

\* Mutant: published is buffered, the answer does not wait for the caller.
Buffered == "flush"

\* Where the handler goes with the encrypted data.
Encrypted == IF Duo THEN "emit" ELSE "collect"

Serve(r) ==
  /\ port[r.to] = "publisher" /\ Authorized(r)
  /\ net' = net \ {r}
  /\ serving' = serving \cup {[req |-> r, at |-> Encrypted,
                               fresh |-> r.from \notin clients[r.to],
                               view |-> queries[r.to]]}
  /\ missed' = missed \cup Untaken(r)
  /\ UNCHANGED <<setting, up, port, lost, listenVars, discoverVars,
                 pPc, clients, queries, pResult, fPc, fetched>>

Reject(r) ==
  /\ port[r.to] = "publisher" /\ ~Authorized(r)
  /\ net' = net \ {r}
  /\ probe' = ErrorTo(r)
  /\ missed' = missed \cup Untaken(r)
  /\ Unserved({r})
  /\ UNCHANGED <<setting, up, port, lost, listenVars,
                 dPc, todo, expired, hosts, payloads, dResult,
                 pPc, clients, queries, pResult, serving, fetched>>

\* Trio: clientIPs and payloads, from what the handler read of them.
Collect(h) ==
  LET d == h.req.to IN
  /\ h.at = "collect"
  /\ clients' = [clients EXCEPT ![d] = @ \cup {h.req.from}]
  /\ \E base \in {h.view, queries[d]} :
       LET all == IF h.fresh THEN Append(base, h.req) ELSE queries[d] IN
       /\ queries' = [queries EXCEPT ![d] = all]
       /\ serving' = (serving \ {h}) \cup
            {[h EXCEPT !.at = IF h.fresh /\ Len(all) >= 2 THEN "emit" ELSE "flush",
                       !.fresh = FALSE, !.view = <<>>]}
  /\ UNCHANGED <<vars, pPc, pResult, fPc, fetched>>

\* Mutant: the client's address instead of its query.
PublishedClients(h) == <<h.req.from>>

\* What is sent to published.
Published(h) == IF Duo THEN <<h.req>> ELSE queries[h.req.to]

\* The handler's send to published meets the caller's select.
Emit(h) == LET d == h.req.to IN
  /\ h.at = "emit" /\ pPc[d] = "serve"
  /\ pPc' = [pPc EXCEPT ![d] = "closing"]
  /\ pResult' = [pResult EXCEPT ![d] = Published(h)]
  /\ serving' = (serving \ {h}) \cup {[h EXCEPT !.at = "flush"]}
  /\ UNCHANGED <<vars, clients, queries, fPc, fetched>>

\* The answer leaves when the handler has returned.
Flush(h) ==
  /\ h.at = "flush"
  /\ serving' = serving \ {h}
  /\ probe' = AnswerTo(h.req, "data")
  /\ IF h.req.by = "fetch" /\ fPc[h.req.from] = "asking"
     THEN Unserved({h.req}) /\ fetched' = fetched \cup {h.req.from}
     ELSE UNCHANGED <<fPc, fetched>>
  /\ UNCHANGED <<setting, up, port, net, lost, missed, listenVars,
                 dPc, todo, expired, hosts, payloads, dResult,
                 pPc, clients, queries, pResult>>

\* The connections of the publisher's handlers are cut: FetchData returns an error.
CutServing(d) ==
  /\ serving' = {h \in serving : h.req.to # d}
  /\ Unserved({h.req : h \in {g \in serving : g.req.to = d}})

\* The caller sleeps for 1000 nanoseconds, or times out, and closes the server.
PublishEnds(d) ==
  /\ pPc[d] \in {"serve", "closing"}
  /\ pPc' = [pPc EXCEPT ![d] = "returned"]
  /\ clients' = [clients EXCEPT ![d] = {}]
  /\ queries' = [queries EXCEPT ![d] = <<>>]
  /\ port' = [port EXCEPT ![d] = "free"]
  /\ CutServing(d)
  /\ probe' = Cut(d)
  /\ UNCHANGED <<setting, up, net, lost, missed, listenVars,
                 dPc, todo, expired, hosts, payloads, dResult,
                 pResult, fetched>>

(***************************************************************************)
(* FetchData                                                               *)
(***************************************************************************)
Fetch(d) ==
  /\ d \in setting.fetch /\ fPc[d] = "idle" /\ Ready(d)
  /\ fPc' = [fPc EXCEPT ![d] = "asking"]
  /\ \E p \in setting.publish \ {d} :
       net' = net \cup {[by |-> "fetch", from |-> d, to |-> p]}
  /\ UNCHANGED <<setting, up, port, lost, missed, listenVars, discoverVars,
                 pPc, clients, queries, pResult, serving, fetched>>

\* Nobody listens; or a listener or a relay answers, and decryption fails.
FetchMisses(r) ==
  /\ r.by = "fetch" /\ port[r.to] # "publisher"
  /\ net' = net \ {r}
  /\ Unserved({r})
  /\ UNCHANGED <<setting, up, port, lost, missed, listenVars, discoverVars,
                 pPc, clients, queries, pResult, serving, fetched>>

\* The request or its answer is lost: FetchData returns an error.
FetchLost(d) ==
  /\ fPc[d] = "asking" /\ lost < setting.losses
  /\ lost' = lost + 1
  /\ fPc' = [fPc EXCEPT ![d] = "returned"]
  /\ UNCHANGED <<setting, up, port, net, missed, listenVars, discoverVars,
                 pPc, clients, queries, pResult, serving, fetched>>

\* Two handlers of a trio publisher at clientIPs at the same time.
PublishRace(d) ==
  /\ \E h, g \in serving : /\ h # g /\ h.req.to = d /\ g.req.to = d
                           /\ {h.at, g.at} = {"collect"} /\ (h.fresh \/ g.fresh)
  /\ Dies(d)

ExchangeCalls(d) ==
  \/ Calls(d) /\ UNCHANGED exchangeVars
  \/ /\ d \in up
     /\ \/ Publish(d) \/ PublishBusy(d) \/ PublishEnds(d) \/ Fetch(d)
        \/ \E r \in net : r.from = d /\ FetchMisses(r)

ExchangeServes(d) ==
  \/ Serves(d) /\ UNCHANGED exchangeVars
  \/ /\ d \in up
     /\ \/ \E r \in net : r.to = d /\ (Serve(r) \/ Reject(r))
        \/ \E h \in serving : h.req.to = d /\ (Collect(h) \/ Emit(h) \/ Flush(h))

ExchangeFaults(d) ==
  \/ Faults(d) /\ UNCHANGED exchangeVars
  \/ d \in up /\ FetchLost(d)
  \/ /\ d \in up /\ (MapRace(d) \/ PublishRace(d))
     /\ CutServing(d)
     /\ UNCHANGED <<pPc, clients, queries, pResult, fetched>>

Next == \E d \in Device : ExchangeCalls(d) \/ ExchangeServes(d) \/ ExchangeFaults(d)

Spec == ExchangeInit /\ [][Next]_allVars

\* Goroutines that can step do, connections are refused or served in time, and
\* timers fire.  Nothing makes a fault or a race happen.
FairSpec == /\ Spec
            /\ \A d \in Device : /\ WF_allVars(ExchangeCalls(d))
                                 /\ WF_allVars(ExchangeServes(d))

(***************************************************************************)
(* Properties                                                              *)
(***************************************************************************)
\* Who fetched the data in duo mode did so from a PublishData that reports
\* success: the answer leaves only after the caller took the request from the
\* channel, so a publisher that timed out has given nothing away.
FetchedIsPublished ==
  Duo /\ fetched # {} => \E p \in setting.publish : pResult[p] # <<>>

\* Every call ends, whatever is lost, refused, raced for or published late,
\* except DiscoverPeers when a remote address answered: its caller is then the
\* goroutine that sends the answer to the channel it should read.
OnlyRemoteHangs ==
  <>[](\A d \in up :
         /\ lPc[d] \in {"idle", "returned"} /\ pPc[d] \in {"idle", "returned"}
         /\ fPc[d] \in {"idle", "returned"}
         /\ \/ dPc[d] \in {"idle", "returned"}
            \/ /\ dPc[d] = "remote" /\ todo[d] # <<>>
               /\ probe[d][Head(todo[d])].at = "sending")
================================================================================
