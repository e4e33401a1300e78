--------------------------- MODULE MCNostrTransport ---------------------------
(***************************************************************************)
(* Ann and Bob run the session; Cat is not one of Bob's peers.  Ann sends  *)
(* Bob a body of two chunks, Cat one of a single chunk.                    *)
(***************************************************************************)
EXTENDS NostrTransport, TLC

CONSTANTS ann, bob, cat, long, short

MCPeers  == (ann :> {bob}) @@ (bob :> {ann}) @@ (cat :> {ann, bob})
MCChunks == (long :> 2) @@ (short :> 1)
Long     == [from |-> ann, to |-> bob, body |-> long]
Stray    == [from |-> cat, to |-> bob, body |-> short]
MCMsg    == {Long, Stray}
MCTries  == (Long :> 1) @@ (Stray :> 0)
=============================================================================
