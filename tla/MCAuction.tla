----------------------------- MODULE MCAuction -----------------------------
(***************************************************************************)
(* Instances of Auction for TLC. The clock unit is a minute, the amounts   *)
(* are a few tokens and the rates are high, so that a few steps meet a     *)
(* raise that rounds to nothing, one that does not, an extension and a     *)
(* change of configuration between a bid and its claim.                    *)
(***************************************************************************)
EXTENDS Auction, Eligibility, TLC

CONSTANTS creator, ann, bob, nobody, lotEscrow

MCUsers     == {creator, ann, bob}
MCEndowment == [u \in MCUsers |-> IF u = bob THEN 4 ELSE 6]
MCAmounts   == 0..6
MCStartBids == {0, 2}
MCDurations == 1..3
MCGifts     == {1}

(* Ann and bob show an NFT of the collection or some of the token; so could *)
(* the creator, who may not bid. Bob's other NFT is of an unverified one.   *)
MCGroups ==
  {[group_type |-> "NftHolderGroup", key |-> "apes"],
   [group_type |-> "TokenHolderGroup", key |-> "coin"],
   [group_type |-> "OffChainNftGroup", key |-> "list"]}
TokenAccount(mint, owner, amount) ==
  [mint |-> mint, owner |-> owner, amount |-> amount]
ASSUME EligibleAssumption ==
  Eligible = EligibleUsers(MCGroups, MCUsers,
    {TokenAccount("ape", ann, 1), TokenAccount("coin", ann, 0),
     TokenAccount("cat", bob, 1), TokenAccount("coin", bob, 7),
     TokenAccount("coin", creator, 3)},
    {[mint |-> "ape", collection |-> {"apes"}],
     [mint |-> "cat", collection |-> {}]})

Config(fee, outbid, lastMinutes, extend) ==
  [market_fee_rate_bps |-> fee,
   min_outbid_rate_bps |-> outbid,
   last_minutes_for_auction_extend |-> lastMinutes,
   auction_extend_minutes |-> extend,
   min_auction_duration |-> 2,
   max_auction_duration |-> 3,
   auction_creation_enabled |-> TRUE]

MCInitialConfig == Config(2500, 5000, 1, 1)
(* The second is refused by validate: its fee rate is 100%. *)
MCConfigs ==
  {MCInitialConfig, Config(BPS, 5000, 1, 1), Config(5000, 9999, 3, 1)}

(* Fairness for ann alone: bob may stop at any point. *)
AnnAloneSpec == Spec /\ FairFor(ann)

(* Ann gets her money back, or the lot, without bob or the creator.        *)
AnnSettles == BidderSettles(ann)
=============================================================================
