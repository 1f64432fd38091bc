--------------------------- MODULE MCMarketplace ---------------------------
(***************************************************************************)
(* Instances of Marketplace for TLC: two creators after the same kind of   *)
(* listing, or two curators filling a list whose pages hold two keys; two  *)
(* treasuries, and in the test environment a clock that goes back.         *)
(***************************************************************************)
EXTENDS Marketplace, TLC

CONSTANTS admin, alice, bob, carol, dave, chest, vault, usd, apes, cats, punks

(* In production with a fee above 100%, which must be updated first.        *)
MCDeployments ==
  {[authority |-> admin, fee_treasury_address |-> chest,
    is_test_environment |-> test,
    market_fee_rate_bps |-> IF test THEN 200 ELSE 10001] : test \in BOOLEAN}

MCDefaultConfig ==
  [market_fee_rate_bps |-> 0, fee_treasury_address |-> chest,
   min_auction_duration |-> 1, max_auction_duration |-> 2,
   min_raffle_duration |-> 1, max_raffle_duration |-> 2,
   max_raffled_nfts |-> 15,
   auction_creation_enabled |-> TRUE, raffle_creation_enabled |-> TRUE,
   num_keys_per_index_page |-> 2, is_test_environment |-> FALSE]

Wish(kind, groups, receivers, num_nfts) ==
  [kind |-> kind, currency |-> usd, collection |-> apes, duration |-> 1,
   groups |-> groups, receivers |-> receivers, num_raffled_nfts |-> num_nfts]

(* The creators S want to list the same. *)
WantedBy(S, w) ==
  [wish |-> [c \in S |-> w],
   additions |-> carol :> {<<"token", usd>>, <<"nft", apes>>} @@ dave :> {},
   donations |-> {}]

NoListings ==
  [wish |-> <<>>,
   additions |-> carol :> {"nft"} \X {apes, cats}
                   @@ dave :> {"nft"} \X {cats, punks},
   donations |-> {<<"nft", 1>>}]

(* Accounts as full as the documented limits allow. Thirty winners are      *)
(* possible after an update only.                                           *)
MCIntentions ==
  {WantedBy({alice, bob}, Wish("auction", 10, 6, 0)),
   WantedBy({alice}, Wish("raffle", 10, 6, 30)), NoListings}

(* More groups than documented; the last auction is refused at once.        *)
Crowded ==
  {WantedBy({alice}, Wish("auction", groups, 5, 0)) : groups \in {10, 13, 14}}

(* update_configs has no input for is_test_environment; the code ignores    *)
(* the page size in production, and refuses the last update.                *)
MCUpdates ==
  {"market_fee_rate_bps" :> 200
     @@ "fee_treasury_address" :> vault @@ "max_raffled_nfts" :> 30
     @@ "auction_creation_enabled" :> FALSE,
   "fee_treasury_address" :> chest @@ "auction_creation_enabled" :> TRUE
     @@ "num_keys_per_index_page" :> 1,
   "is_test_environment" :> FALSE, "is_test_environment" :> TRUE,
   "min_auction_duration" :> 2}

MCMockTimestamps == {0}
=============================================================================
