------------------------------- MODULE RelayStore -------------------------------
(***************************************************************************)
(* What a relay client promises the messengers, pumps and coordinators of  *)
(* its session: behind all its relays there is one store.  An event a      *)
(* publication reports as published is in the store, and a subscription    *)
(* streams stored events to whom they are addressed, each at most once.    *)
(* NostrTransport and NostrSession are written against this store.         *)
(***************************************************************************)
CONSTANTS Party, Event

VARIABLES
  stored,     \* events the store holds
  reported,   \* what the publication of each event returned
  streamed    \* events the current subscription of each party streamed

storeVars == <<stored, reported, streamed>>

StoreInit == /\ stored = {}
             /\ reported = [e \in Event |-> "none"]
             /\ streamed = [p \in Party |-> {}]

Put(e) == /\ e \notin stored
          /\ stored' = stored \cup {e}
          /\ UNCHANGED <<reported, streamed>>

Report(e) == /\ reported[e] = "none"
             /\ \/ e \in stored /\ reported' = [reported EXCEPT ![e] = "ok"]
                \/ reported' = [reported EXCEPT ![e] = "error"]
             /\ UNCHANGED <<stored, streamed>>

Stream(p, e) == /\ e \in stored /\ e.to = p /\ e \notin streamed[p]
                /\ streamed' = [streamed EXCEPT ![p] = @ \cup {e}]
                /\ UNCHANGED <<stored, reported>>

Renew(p) == /\ streamed' = [streamed EXCEPT ![p] = {}]
            /\ UNCHANGED <<stored, reported>>

StoreNext == \/ \E e \in Event : Put(e) \/ Report(e)
             \/ \E p \in Party : Renew(p) \/ \E e \in Event : Stream(p, e)

StoreSpec == StoreInit /\ [][StoreNext]_storeVars
================================================================================
