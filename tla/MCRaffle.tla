----------------------------- MODULE MCRaffle ------------------------------
(***************************************************************************)
(* Instances of Raffle for TLC: up to three buyers, up to two rewards,     *)
(* a few tickets, so that purchases are split, positions interleave, there *)
(* are more and fewer participants than rewards and the supply runs out.   *)
(***************************************************************************)
EXTENDS Raffle, TLC

CONSTANTS creator, ann, bob, cat, treasury

MCUsers        == {creator, ann, bob, cat}
MCEndowment    == [u \in MCUsers |-> IF u = cat THEN 2 ELSE 4]
MCCounts       == 0..3
MCSupplies     == 1..4
MCPrices       == {2}
MCRewardCounts == 0..2
MCDurations    == 0..2
MCGifts        == {1}
MCFeeOwners    == {creator, treasury}
(* Fewer winners than rewards, an order the drawing never gives, repeated   *)
(* and unknown ids.                                                         *)
MCWinnerLists  == {<<0>>, <<1, 0>>, <<0, 0, 5>>}

Config(fee, test) ==
  [market_fee_rate_bps |-> fee, min_raffle_ticket_supply |-> 2,
   max_raffle_ticket_supply |-> 3, max_raffled_nfts |-> 2,
   min_raffle_duration |-> 1, max_raffle_duration |-> 2,
   raffle_creation_enabled |-> TRUE, is_test_environment |-> test]

Production == {Config(2500, FALSE)}
MCInitialConfigs == {Config(2500, FALSE), Config(2500, TRUE)}
(* The last is refused by validate: its fee rate is 100%. *)
MCConfigs == {Config(5000, FALSE), Config(5000, TRUE), Config(BPS, FALSE)}

(* Fairness for ann, the creator and the authority. *)
AnnAloneSpec == Spec /\ FairFor(ann)

(* Ann gets her reward without the other winners. *)
AnnIsServed == WinnerIsServed(ann)
=============================================================================
