----------------------------- MODULE MCMpcSession -----------------------------
(* A committee of two. *)
EXTENDS MpcSession, TLC
CONSTANTS a, b

=============================================================================
