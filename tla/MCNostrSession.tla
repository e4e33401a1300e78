---------------------------- MODULE MCNostrSession ----------------------------
(* Two parties; a may call a second time with the same session id. *)
EXTENDS NostrSession, TLC

CONSTANTS a, b

MCPeers == (a :> {b}) @@ (b :> {a})
MCCalls == (a :> 2) @@ (b :> 1)
=============================================================================
