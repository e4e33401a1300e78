----------------------------- MODULE MCRelayClient -----------------------------
(* A sender and a receiver that configure the same two relays. *)
EXTENDS RelayClient, TLC
CONSTANTS a, b, r1, r2

Configured == [p \in Party |-> Relay]

Wraps == {[from |-> a, to |-> b, id |-> 1]}
================================================================================
