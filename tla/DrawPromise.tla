---------------------------- MODULE DrawPromise ----------------------------
(***************************************************************************)
(* What make_raffle wants of a drawing, whatever the sampling does: among  *)
(* the participants, in one step, as many different ones as there are      *)
(* rewards, and that choice for good. It may also never come, as when      *)
(* there are too few participants. WinnerDrawing implements this; Raffle's *)
(* MakeRaffle draws this way (the ids of a list in its Draws are one such  *)
(* set in ascending order).                                                *)
(***************************************************************************)
EXTENDS Naturals, FiniteSets

VARIABLES
  participants,   \* number of entries of TicketPositionStats
  wanted,         \* Raffle.num_raffled_nfts
  chosen          \* the winners' ids, {} until they are handed over

vars == <<participants, wanted, chosen>>

Init ==
  /\ participants \in Nat
  /\ wanted \in Nat \ {0}
  /\ chosen = {}

Choose ==
  /\ chosen = {}
  /\ chosen' \in SUBSET (0..(participants - 1))
  /\ Cardinality(chosen') = wanted
  /\ UNCHANGED <<participants, wanted>>

Spec == Init /\ [][Choose]_vars
=============================================================================
