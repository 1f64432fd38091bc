--------------------------- MODULE MCPubkeyIndex ---------------------------
(***************************************************************************)
(* Instances of PubkeyIndex for TLC: three bidders and pages of two keys,  *)
(* so that the index crosses a page boundary while clients hold pages on   *)
(* either side of it; the test environment changes the page size to 1.     *)
(***************************************************************************)
EXTENDS PubkeyIndex

CONSTANTS ann, bob, cat

MCBidders   == {ann, bob, cat}
MCPageSizes == {1}
=============================================================================
