------------------------------ MODULE MCHttpParty ------------------------------
(* Two parties, any number of polls, a bounded number of failed requests. *)
EXTENDS HttpParty, TLC
CONSTANTS a, b

================================================================================
