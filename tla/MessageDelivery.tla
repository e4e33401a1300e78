--------------------------- MODULE MessageDelivery ---------------------------
(***************************************************************************)
(* What the Nostr transport promises the TSS layer.  A message is a        *)
(* [from, to, body] record; the receiver's handler is called with a body   *)
(* at most once, and only when one of its peers has started sending it.    *)
(* Nothing is promised about order, and a body may never arrive.           *)
(***************************************************************************)
EXTENDS Naturals

CONSTANTS Party, Body, Msg, Peers

VARIABLES sent,      \* messages SendMessage has been called with
          handed     \* handed[p][b]: times p's handler was called with b

avars == <<sent, handed>>

AInit == /\ sent = {}
         /\ handed = [p \in Party |-> [b \in Body |-> 0]]

Send(m) == /\ m \notin sent
           /\ sent' = sent \cup {m}
           /\ UNCHANGED handed

HandOver(p, b) == /\ handed[p][b] = 0
                  /\ \E m \in sent : m.to = p /\ m.body = b /\ m.from \in Peers[p]
                  /\ handed' = [handed EXCEPT ![p][b] = 1]
                  /\ UNCHANGED sent

ANext == \/ \E m \in Msg : Send(m)
         \/ \E p \in Party, b \in Body : HandOver(p, b)

ASpec == AInit /\ [][ANext]_avars
=============================================================================
