-------------------------- MODULE MCWinnerDrawing --------------------------
(***************************************************************************)
(* Instances of WinnerDrawing for TLC: every raffle of up to three         *)
(* participants and five tickets each, some of four, and some whose        *)
(* products, totals or tickets leave the small "16-bit" range.             *)
(***************************************************************************)
EXTENDS WinnerDrawing

MCWeightings ==
  UNION {[1..k -> 1..5] : k \in 0..3} \cup [1..4 -> {1, 2, 5}]
    \cup {<<11>>, <<12>>, <<23>>, <<13, 1>>, <<20, 2>>, <<6, 6>>, <<9, 2>>}

MCWanted == 1..3
=============================================================================
