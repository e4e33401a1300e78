---------------------------- MODULE MCPreAgreement ----------------------------
(* a tries twice, b once, all with different estimates. *)
EXTENDS PreAgreement, TLC

CONSTANTS a, b

MCFee == (a :> <<1, 4>>) @@ (b :> <<6>>)
MCAttempts == (a :> 2) @@ (b :> 1)
=============================================================================
