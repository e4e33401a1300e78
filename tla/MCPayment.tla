------------------------------- MODULE MCPayment -------------------------------
(* Two outputs that only together are enough, of equal value and with dust left
   over, and two that are enough alone, with change. *)
EXTENDS Payment, TLC
CONSTANTS a, b, coin1, coin2, note1, note2

MCValue == (coin1 :> 1000) @@ (coin2 :> 1000) @@ (note1 :> 5000) @@ (note2 :> 7000)
MCFee == <<300, 400>>
================================================================================
