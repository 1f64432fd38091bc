------------------------------ MODULE Auction ------------------------------
(***************************************************************************)
(* The English auction of the justies program: one auction account, the    *)
(* bid account and escrow token account of every bidder, the lot escrow,   *)
(* and the part of the global states the auction reads.                    *)
(*                                                                         *)
(* Every instruction is one transaction: it happens entirely or, when a    *)
(* constraint, a check or an overflow aborts it, not at all. So each       *)
(* instruction is one action, and its constraints, checks and overflow     *)
(* conditions are conjuncts of its guard.                                  *)
(*                                                                         *)
(* Auctions share nothing but the global states, so one auction stands for *)
(* all. Only the program moves tokens out of the escrow accounts, which    *)
(* its own addresses (PDAs) control; but a token account takes a transfer  *)
(* from anybody, so outsiders may put tokens in (Deposit, DepositLot).     *)
(***************************************************************************)
EXTENDS IntegerDivision, FiniteSets

CONSTANTS
  Users,          \* wallets that may sign a transaction
  Creator,        \* the user who lists the lot
  Eligible,       \* the users who pass the auction's eligible_groups
  Nobody,         \* Option::None for top_bidder
  Escrow,         \* the lot escrow account, as the holder of the lot
  Endowment,      \* currency tokens each user starts with
  Amounts,        \* bid amounts users may name
  StartBids,      \* start bids the creator may name
  Durations,      \* durations the creator may name
  Gifts,          \* amounts an outsider may transfer to a bid escrow
  MaxDeposits,    \* bound: what outsiders transfer to one bid escrow in all
  SpareLots,      \* units of the lot's mint besides the lot: 0 for an NFT
  Configs,        \* configurations the authority may set
  InitialConfig,  \* the configuration in force at the start
  SplitShare,     \* the largest share_bps that is multiplied out, see below
  MINUTE,         \* clock units per minute (60 seconds in the code)
  MaxTime,        \* bound: the clock stops here, auctions end before
  I64Max,         \* 2^63 - 1 in the code
  U64Max          \* 2^64 - 1 in the code

VARIABLES
  now,                \* the cluster's unix timestamp
  cfg,                \* GlobalStates: the fields the auction reads
  status,             \* Auction.status, "NotCreated" before the account is
  expired_timestamp,  \* Auction.expired_timestamp
  start_bid,          \* Auction.start_bid
  total_bids,         \* Auction.total_bids
  top_bid,            \* Auction.top_bid
  top_bidder,         \* Auction.top_bidder
  bidders,            \* users whose AuctionBid account is initialized
  bid,                \* AuctionBid.bid of each user
  open,               \* users whose bid escrow token account exists
  escrow,             \* balance of each user's bid escrow token account
  wallet,             \* balance of each user's own token account
  lot,                \* who holds the lot NFT: a user, or Escrow
  lot_surplus,        \* units in the lot escrow besides the lot
  treasury,           \* tokens paid to the fee treasury
  proceeds,           \* tokens paid to the revenue receivers
  deposits,           \* history: outsiders' transfers to each bid escrow
  surplus             \* history: those since the escrow's last bid

bidVars   == <<bidders, bid, open, escrow, wallet, deposits, surplus>>
topVars   == <<top_bid, top_bidder>>
lotVars   == <<lot, lot_surplus>>
moneyVars == <<treasury, proceeds>>
vars == <<now, cfg, status, expired_timestamp, start_bid, total_bids, topVars,
          bidVars, lotVars, moneyVars>>
-----------------------------------------------------------------------------
ConfigRecord ==
  [market_fee_rate_bps: Nat, min_outbid_rate_bps: Nat,
   last_minutes_for_auction_extend: Nat, auction_extend_minutes: Nat,
   min_auction_duration: Nat, max_auction_duration: Nat,
   auction_creation_enabled: BOOLEAN]

(* What update_configs accepts, of the fields the auction reads. *)
ValidConfig(c) ==
  /\ c.market_fee_rate_bps < BPS
  /\ c.min_outbid_rate_bps \in 1..(BPS - 1)
  /\ c.last_minutes_for_auction_extend # 0
  /\ c.auction_extend_minutes # 0
  /\ c.min_auction_duration # 0
  /\ c.max_auction_duration # 0
  /\ c.min_auction_duration < c.max_auction_duration

ASSUME UsersAssumption ==
  /\ IsFiniteSet(Users)
  /\ Creator \in Users
  /\ Eligible \subseteq Users
  /\ Nobody \notin Users
  /\ Escrow \notin Users

ASSUME AmountsAssumption ==
  /\ Endowment \in [Users -> Nat]
  /\ Amounts \subseteq Nat
  /\ StartBids \subseteq Nat
  /\ Durations \subseteq Nat
  /\ Gifts \subseteq Nat \ {0}
  /\ MaxDeposits \in Nat
  /\ SpareLots \in Nat
  /\ SplitShare \in Nat
  /\ MINUTE \in Nat \ {0}
  /\ MaxTime \in Nat
  /\ I64Max \in Nat
  /\ U64Max = 2 * I64Max + 1

(* A bidder can raise at most I64Max tokens. A mint's whole supply is a u64: *)
(* above I64Max `top_bid as i64` of get_min_eligible_bid turns negative,     *)
(* MinEligibleBid falls below the top bid, and the price may fall with it.   *)
ASSUME SupplyAssumption ==
  \A u \in Users : Endowment[u] + MaxDeposits <= I64Max

(* init_justies_program takes any fee rate; the other fields start at valid *)
(* defaults.                                                                *)
ASSUME ConfigsAssumption ==
  /\ Configs \subseteq ConfigRecord
  /\ InitialConfig \in ConfigRecord
-----------------------------------------------------------------------------
IsEnded == now > expired_timestamp

IsCancelled == status = "Cancelled"

NeedToExtend ==
  now > expired_timestamp - cfg.last_minutes_for_auction_extend * MINUTE

Extended == now + cfg.auction_extend_minutes * MINUTE

(* get_min_eligible_bid computes in i64: the casts wrap, the rest aborts   *)
(* when it overflows.                                                      *)
SignedTopBid == AsSigned(top_bid, I64Max)

MinRaise == SignedPortion(SignedTopBid, cfg.min_outbid_rate_bps)

MinEligibleBid == AsUnsigned(SignedTopBid + MinRaise, I64Max)

MinEligibleBidFits ==
  /\ FitsSigned(SignedTopBid * cfg.min_outbid_rate_bps, I64Max)
  /\ FitsSigned(SignedTopBid + MinRaise, I64Max)

ActualBid(bid_amount) ==
  IF bid_amount >= MinEligibleBid THEN bid_amount ELSE MinEligibleBid

(* Faulty: charges the whole bid on every raise. *)
WholeAmount(u, bid_amount) == ActualBid(bid_amount)

(* Only what the bidder's escrow does not hold yet, whoever put it there. *)
TransferAmount(u, bid_amount) == ActualBid(bid_amount) - escrow[u]

(* Faulty: the bidder's balance is not compared with the transfer. *)
ValidBidUnfunded(u, bid_amount, max_allowed_bid_amount) ==
  /\ ~IsEnded
  /\ ~IsCancelled
  /\ bid_amount \in 1..max_allowed_bid_amount
  /\ max_allowed_bid_amount >= MinEligibleBid

(* Faulty: the end is not checked. *)
ValidBidLate(u, bid_amount, max_allowed_bid_amount) ==
  /\ ~IsCancelled
  /\ bid_amount \in 1..max_allowed_bid_amount
  /\ max_allowed_bid_amount >= MinEligibleBid
  /\ TransferAmount(u, bid_amount) \in 0..wallet[u]

(* validate_bid, in the code's order. *)
ValidBid(u, bid_amount, max_allowed_bid_amount) ==
  /\ ~IsEnded
  /\ ~IsCancelled
  /\ bid_amount # 0
  /\ bid_amount <= max_allowed_bid_amount
  /\ bid_amount >= start_bid
  /\ max_allowed_bid_amount > top_bid
  /\ MinEligibleBidFits
  /\ top_bid > 0 => max_allowed_bid_amount >= MinEligibleBid
  /\ TransferAmount(u, bid_amount) >= 0    \* u64 subtraction
  /\ TransferAmount(u, bid_amount) <= wallet[u]

(* collect_fees of the whole escrow. *)
FeeAmount(total) == Portion(total, cfg.market_fee_rate_bps)

(* The distribution aborts on an overflow and on a fee above the total.    *)
(* Module RevenueDistribution has the split among receivers; here they are *)
(* one party, paid what the fee leaves, and SplitShare stands for their    *)
(* largest product (0 when one receiver takes all).                        *)
CanDistribute(total) ==
  /\ PortionFits(total, cfg.market_fee_rate_bps, U64Max)
  /\ FeeAmount(total) <= total
  /\ PortionFits(total - FeeAmount(total), SplitShare, U64Max)

(* The constraints of each instruction and the checks of its handler. An   *)
(* escrow account an instruction names must exist.                         *)
(* Faulty: the top bidder may cancel. *)
AnyoneMayCancelBid(u) == u \in open /\ escrow[u] = bid[u]

(* Faulty: only a shortfall of the escrow is refused. *)
MayCancelBidAbove(u) ==
  u \in bidders /\ top_bidder # u /\ u \in open /\ escrow[u] >= bid[u]

MayCancelBid(u) ==
  /\ status # "NotCreated"
  /\ u \in bidders
  /\ top_bidder # u
  /\ u \in open
  /\ escrow[u] = bid[u]

(* Faulty: bids do not prevent the cancellation. *)
MayCancelAuctionSold == status = "InProgress" /\ lot = Escrow /\ lot_surplus = 0

(* One unit is returned, and the lot escrow is closed when that empties it. *)
MayCancelAuction ==
  /\ status # "NotCreated"
  /\ total_bids = 0
  /\ lot = Escrow
  /\ lot_surplus = 0

(* Faulty: the end is not awaited. *)
MayClaimLotEarly(u) ==
  /\ status # "NotCreated" /\ top_bidder = u
  /\ lot = Escrow /\ lot_surplus = 0

(* Faulty: refuses an auction another instruction already finalized. *)
MayClaimLotFirst(u) ==
  /\ status = "InProgress" /\ top_bidder = u /\ IsEnded
  /\ lot = Escrow /\ lot_surplus = 0

MayClaimLot(u) ==
  /\ status # "NotCreated"
  /\ u \in bidders
  /\ top_bidder = u
  /\ lot = Escrow
  /\ lot_surplus = 0        \* the constraint amount == 1
  /\ IsEnded

(* Faulty: the end is not awaited. *)
MayClaimRevenueEarly(u) ==
  top_bidder = u /\ u \in open /\ escrow[u] = bid[u]

(* Faulty: refuses once the winner has taken the lot. *)
MayClaimRevenueFirst(u) ==
  /\ top_bidder = u /\ u \in open /\ escrow[u] = bid[u]
  /\ IsEnded
  /\ lot = Escrow

MayClaimRevenue(u) ==
  /\ status # "NotCreated"
  /\ top_bidder = u
  /\ u \in open
  /\ escrow[u] = bid[u]
  /\ IsEnded
  /\ CanDistribute(escrow[u])

(* cancel_bid finalizes the auction after the end only. *)
StatusAfterRefund == IF IsEnded THEN "Finished" ELSE status

(* Only a newly initialized bid account is counted (and indexed). *)
CountedBids(u) == IF u \in bidders THEN total_bids ELSE total_bids + 1
-----------------------------------------------------------------------------
Init ==
  /\ now = 0
  /\ cfg = InitialConfig
  /\ status = "NotCreated"
  /\ expired_timestamp = 0
  /\ start_bid = 0
  /\ total_bids = 0
  /\ top_bid = 0
  /\ top_bidder = Nobody
  /\ bidders = {}
  /\ bid = [u \in Users |-> 0]
  /\ open = {}
  /\ escrow = [u \in Users |-> 0]
  /\ wallet = Endowment
  /\ lot = Creator
  /\ lot_surplus = 0
  /\ treasury = 0
  /\ proceeds = 0
  /\ deposits = [u \in Users |-> 0]
  /\ surplus = [u \in Users |-> 0]

CreateAuction(duration, start) ==
  /\ status = "NotCreated"
  /\ cfg.auction_creation_enabled
  /\ lot = Creator
  /\ duration >= cfg.min_auction_duration
  /\ duration <= cfg.max_auction_duration
  /\ now + duration < MaxTime
  /\ expired_timestamp' = now + duration
  /\ start_bid' = start
  /\ status' = "InProgress"
  /\ total_bids' = 0
  /\ top_bid' = 0
  /\ top_bidder' = Nobody
  /\ lot' = Escrow
  /\ UNCHANGED <<now, cfg, bidVars, lot_surplus, moneyVars>>

(* The end may move past MaxTime: then the clock of the model stops before *)
(* it, as when a leader extends the auction for ever.                      *)
MakeBid(u, bid_amount, max_allowed_bid_amount) ==
  /\ status # "NotCreated"
  /\ u # Creator
  /\ u \in Eligible
  /\ ValidBid(u, bid_amount, max_allowed_bid_amount)
  /\ bidders' = bidders \cup {u}
  /\ bid' = [bid EXCEPT ![u] = ActualBid(bid_amount)]
  /\ open' = open \cup {u}
  /\ escrow' = [escrow EXCEPT ![u] = @ + TransferAmount(u, bid_amount)]
  /\ wallet' = [wallet EXCEPT ![u] = @ - TransferAmount(u, bid_amount)]
  /\ surplus' = [surplus EXCEPT ![u] = 0]
  /\ total_bids' = CountedBids(u)
  /\ top_bid' = ActualBid(bid_amount)
  /\ top_bidder' = u
  /\ expired_timestamp' = IF NeedToExtend THEN Extended ELSE expired_timestamp
  /\ UNCHANGED <<now, cfg, status, start_bid, deposits, lotVars, moneyVars>>

CancelAuctionBid(u) ==
  /\ MayCancelBid(u)
  /\ wallet' = [wallet EXCEPT ![u] = @ + escrow[u]]
  /\ escrow' = [escrow EXCEPT ![u] = 0]
  /\ open' = open \ {u}
  /\ surplus' = [surplus EXCEPT ![u] = 0]
  /\ bid' = [bid EXCEPT ![u] = 0]
  /\ status' = StatusAfterRefund
  /\ UNCHANGED <<now, cfg, expired_timestamp, start_bid, total_bids, topVars,
                 bidders, deposits, lotVars, moneyVars>>

CancelAuction ==
  /\ MayCancelAuction
  /\ lot' = Creator
  /\ status' = "Cancelled"
  /\ UNCHANGED <<now, cfg, expired_timestamp, start_bid, total_bids, topVars,
                 bidVars, lot_surplus, moneyVars>>

ClaimLotNft(u) ==
  /\ MayClaimLot(u)
  /\ lot' = u
  /\ status' = "Finished"
  /\ UNCHANGED <<now, cfg, expired_timestamp, start_bid, total_bids, topVars,
                 bidVars, lot_surplus, moneyVars>>

(* caller signs as the account named `creator` and pays the receivers'     *)
(* account rents; no constraint ties it to the auction's creator.          *)
ClaimAuctionRevenue(caller) ==
  /\ caller \in Users
  /\ \E u \in bidders :
       /\ MayClaimRevenue(u)
       /\ treasury' = treasury + FeeAmount(escrow[u])
       /\ proceeds' = proceeds + (escrow[u] - FeeAmount(escrow[u]))
       /\ escrow' = [escrow EXCEPT ![u] = 0]
       /\ open' = open \ {u}
       /\ surplus' = [surplus EXCEPT ![u] = 0]
  /\ status' = "Finished"
  /\ UNCHANGED <<now, cfg, expired_timestamp, start_bid, total_bids, topVars,
                 bidders, bid, wallet, deposits, lotVars>>

UpdateConfigs(c) ==
  /\ ValidConfig(c)
  /\ cfg' = c
  /\ UNCHANGED <<now, status, expired_timestamp, start_bid, total_bids,
                 topVars, bidVars, lotVars, moneyVars>>

(* Anybody's transfer of currency to the escrow account of a bid, with the  *)
(* token program and without the justies program.                           *)
Deposit(u, n) ==
  /\ u \in open
  /\ deposits[u] + n <= MaxDeposits
  /\ escrow' = [escrow EXCEPT ![u] = @ + n]
  /\ deposits' = [deposits EXCEPT ![u] = @ + n]
  /\ surplus' = [surplus EXCEPT ![u] = @ + n]
  /\ UNCHANGED <<now, cfg, status, expired_timestamp, start_bid, total_bids,
                 topVars, bidders, bid, open, wallet, lotVars, moneyVars>>

(* The same to the lot escrow. create_auction only asks the creator to hold *)
(* some of nft_mint: the mint may have more units than the lot.             *)
DepositLot ==
  /\ lot = Escrow
  /\ lot_surplus < SpareLots
  /\ lot_surplus' = lot_surplus + 1
  /\ UNCHANGED <<now, cfg, status, expired_timestamp, start_bid, total_bids,
                 topVars, bidVars, lot, moneyVars>>

(* The cluster clock; the program never sees it go back. *)
Tick ==
  /\ now < MaxTime
  /\ now' = now + 1
  /\ UNCHANGED <<cfg, status, expired_timestamp, start_bid, total_bids,
                 topVars, bidVars, lotVars, moneyVars>>

Next ==
  \/ \E d \in Durations, s \in StartBids : CreateAuction(d, s)
  \/ \E u \in Users, b, m \in Amounts : MakeBid(u, b, m)
  \/ \E u \in Users : CancelAuctionBid(u)
  \/ CancelAuction
  \/ \E u \in Users : ClaimLotNft(u)
  \/ \E u \in Users : ClaimAuctionRevenue(u)
  \/ \E c \in Configs : UpdateConfigs(c)
  \/ \E u \in Users, n \in Gifts : Deposit(u, n)
  \/ DepositLot
  \/ Tick

Spec == Init /\ [][Next]_vars

(* What the parties can do for themselves: the clock advances, the creator *)
(* keeps submitting claim_auction_revenue until it lands, and so does user *)
(* u with the claim or the refund that concerns u. Nobody else is assumed  *)
(* to do anything.                                                         *)
FairFor(u) ==
  /\ WF_vars(Tick)
  /\ WF_vars(ClaimAuctionRevenue(Creator))
  /\ WF_vars(CancelAuctionBid(u))
  /\ WF_vars(ClaimLotNft(u))
-----------------------------------------------------------------------------
(* The sets each variable ranges over. *)
TypeOK ==
  /\ now \in Nat
  /\ cfg \in ConfigRecord
  /\ status \in {"NotCreated", "InProgress", "Finished", "Cancelled"}
  /\ expired_timestamp \in Nat
  /\ start_bid \in Nat
  /\ total_bids \in Nat
  /\ top_bid \in Nat
  /\ top_bidder \in Users \cup {Nobody}
  /\ bidders \subseteq Users
  /\ bid \in [Users -> Nat]
  /\ open \subseteq Users
  /\ escrow \in [Users -> Nat]
  /\ wallet \in [Users -> Nat]
  /\ lot \in Users \cup {Escrow}
  /\ lot_surplus \in Nat
  /\ treasury \in Nat
  /\ proceeds \in Nat
  /\ deposits \in [Users -> Nat]
  /\ surplus \in [Users -> Nat]

(* Custody of bids: an escrow account that exists holds what its bid        *)
(* account says and what outsiders added since the last bid, which the next *)
(* bid would count as the bidder's; and a bid without an escrow account is  *)
(* a cancelled one (0) or the winner's, paid out. Cancelling and bidding    *)
(* again closes and recreates the escrow while the bid account stays.       *)
EscrowBacksBid ==
  \A u \in Users :
    /\ u \in open => u \in bidders /\ escrow[u] = bid[u] + surplus[u]
    /\ u \notin open => escrow[u] = 0 /\ surplus[u] = 0
    /\ u \notin open /\ u # top_bidder => bid[u] = 0
    /\ surplus[u] <= deposits[u]

(* What a bidder can lose: wallet plus escrow is always what the user came  *)
(* with and what outsiders gave, except the winner's after the revenue was  *)
(* claimed, who is down by exactly the top bid. It is about every order of  *)
(* raises, cancellations, re-bids and claims (make_bid's net transfer,      *)
(* cancel_auction_bid's refund, claim_auction_revenue's close).             *)
NobodyOutOfPocket ==
  \A u \in Users :
    wallet[u] + escrow[u] =
      Endowment[u] + deposits[u]
        - (IF u = top_bidder /\ u \notin open THEN top_bid ELSE 0)

(* The money that reaches the treasury and the receivers is the top bid,    *)
(* once, and only after the winner's escrow was emptied for it.             *)
PaidOnce ==
  treasury + proceeds =
    IF top_bidder # Nobody /\ top_bidder \notin open THEN top_bid ELSE 0

(* No token is lost or made by any order of bids, refunds and claims: what  *)
(* the winner is down by is what the treasury and the receivers are up by.  *)
MoneyIsConserved == NobodyOutOfPocket /\ PaidOnce

(* The auction account's cached top_bid and top_bidder describe the bid     *)
(* accounts: the leader's bid is top_bid, nobody's is above it, and until   *)
(* the auction ends the leader's money is in escrow (top bidders cannot     *)
(* cancel), so the leader can always pay.                                   *)
TopBidDominates ==
  /\ \A u \in Users : bid[u] <= top_bid
  /\ top_bidder # Nobody =>
       /\ top_bidder \in bidders
       /\ bid[top_bidder] = top_bid
       /\ ~IsEnded => top_bidder \in open

(* The lot is in escrow exactly while it is for sale or waits to be         *)
(* claimed. It leaves to the winner only after the end, and back to the     *)
(* creator only from an auction without a bid, so a lot somebody bid for    *)
(* cannot be withdrawn.                                                     *)
LotCustody ==
  /\ lot = Escrow => status \in {"InProgress", "Finished"}
  /\ lot = Creator =>
       /\ status \in {"NotCreated", "Cancelled"}
       /\ top_bidder = Nobody
       /\ bidders = {}
  /\ lot \notin {Escrow, Creator} =>
       /\ lot = top_bidder
       /\ IsEnded
       /\ status = "Finished"
  /\ lot_surplus # 0 => lot = Escrow

(* Auction.total_bids counts each bidder once, however often they raise,    *)
(* cancel and bid again: it is the number of initialized bid accounts (the  *)
(* keys written to the bid index pages), and cancel_auction's guard on it   *)
(* says that nobody ever bid.                                               *)
BidsCountedOnce ==
  /\ total_bids = Cardinality(bidders)
  /\ bidders = {} <=> top_bidder = Nobody

(* status is written lazily, by whichever instruction comes first after the *)
(* end (finalize_auction_if_need). It still never contradicts the clock or  *)
(* the bids: Finished only after the end of an auction somebody bid in, and *)
(* Cancelled only when nobody did and nothing is left in custody.           *)
StatusIsHonest ==
  /\ status = "Finished" => IsEnded /\ top_bidder # Nobody
  /\ status = "Cancelled" => top_bidder = Nobody /\ open = {} /\ lot = Creator

(* The end is final: once the clock has passed expired_timestamp no         *)
(* instruction, not an extension either, revives the auction, and neither   *)
(* the winner nor the price changes, whatever claims, refunds and updates   *)
(* of the configuration follow.                                             *)
EndIsFinal ==
  [][status # "NotCreated" /\ IsEnded =>
       /\ IsEnded'
       /\ UNCHANGED <<expired_timestamp, topVars>>]_vars

(* A Cancelled auction stays cancelled and a Finished one finished, though  *)
(* finalize_auction_if_need overwrites any status but Finished and          *)
(* cancel_auction overwrites any status at all.                             *)
StatusIsFinal ==
  [][(status \in {"Cancelled", "Finished"}) => (status' = status)]_vars

(* Whoever takes the lead, or raises it, pays at least the minimum raise    *)
(* (rounded down) at the rate in force at that moment, and a lead is lost   *)
(* in no other way.                                                         *)
LeadTakenByRaise ==
  [][topVars' # topVars =>
       /\ top_bidder' \in Users \ {Creator}
       /\ top_bid' >= top_bid + Portion(top_bid, cfg.min_outbid_rate_bps)
       /\ top_bid' >= start_bid]_vars

(* Slippage: a bid never commits less than bid_amount nor more than         *)
(* max_allowed_bid_amount, whatever top bid and outbid rate it meets when   *)
(* it executes.                                                             *)
SlippageRespected ==
  [][\A u \in Users, b, m \in Amounts :
       MakeBid(u, b, m) => bid'[u] \in b..m]_vars

(* Extension: when the extension is at least as long as the final window    *)
(* (10 and 10 minutes by default), a bid never brings the end nearer.       *)
NeverShortened ==
  [][cfg.auction_extend_minutes >= cfg.last_minutes_for_auction_extend =>
       expired_timestamp' >= expired_timestamp]_vars

(* Who is due a refund or a claim is refused only after an outsider's       *)
(* deposit: everybody but the leader can take the money back at any time,   *)
(* the winner can take the lot and the revenue be paid after the end, until *)
(* they are, when nobody added to the escrow in question (since its last    *)
(* bid) and the fee neither overflows nor exceeds the bid.                  *)
ClaimsNeverBlocked ==
  /\ \A u \in open : u # top_bidder /\ surplus[u] = 0 => MayCancelBid(u)
  /\ \A u \in Users :
       top_bidder = u /\ IsEnded =>
         /\ lot = Escrow /\ lot_surplus = 0 => MayClaimLot(u)
         /\ u \in open /\ surplus[u] = 0 /\ CanDistribute(top_bid)
              => MayClaimRevenue(u)

(* After the end a deposit locks an escrow up for good: cancel_auction_bid  *)
(* and claim_auction_revenue compare its balance with the bid and refuse,   *)
(* no bid is left to absorb the difference, and no other instruction        *)
(* reaches the tokens. Of a lot of several units, the same.                 *)
DepositsLockEscrows ==
  [][IsEnded =>
       /\ \A u \in Users :
            surplus[u] > 0 => u \in open' /\ escrow'[u] >= escrow[u]
       /\ lot_surplus > 0 => lot' = Escrow]_vars

(* The u64 subtraction of get_transfer_amount underflows, and aborts the    *)
(* bid, by no more than outsiders added to the escrow: a bid is never       *)
(* smaller than the bidder's last one.                                      *)
TransferShortByDeposits ==
  \A u \in Users, b \in Amounts : TransferAmount(u, b) + surplus[u] >= 0

(* A bidder needs nobody's help: the money of a bidder who is outbid comes  *)
(* back unless the bidder leads again, and after the end the money of each  *)
(* is back or has bought the lot, by the bidder's own transactions and      *)
(* whatever the other bidders, the creator and the authority do or fail to  *)
(* do. Only a deposit by an outsider can keep it from happening; and        *)
(* whether the auction ends at all is not promised, as its leader may       *)
(* extend it again and again.                                               *)
BidderSettles(u) ==
  (u \in open /\ (top_bidder # u \/ IsEnded))
  ~> \/ lot = u
     \/ top_bidder # u /\ u \notin open
     \/ top_bidder = u /\ ~IsEnded
     \/ IF top_bidder = u THEN lot_surplus > 0 ELSE surplus[u] > 0

(* Nor does the creator: once an auction somebody bid in has ended, the top *)
(* bid is eventually paid out, whether or not the winner claims the lot and *)
(* the losers their refunds, unless an outsider adds to the winner's escrow *)
(* or the fee in force does not fit.                                        *)
CreatorIsPaid ==
  (top_bidder # Nobody /\ IsEnded)
  ~> \/ top_bid > 0 /\ treasury + proceeds = top_bid
     \/ \E u \in open : u = top_bidder /\ surplus[u] > 0
     \/ ~CanDistribute(top_bid)

-----------------------------------------------------------------------------
(* The phase the clock and the status stand for: the end is nowhere stored. *)
Phase ==
  CASE status = "NotCreated" -> "unlisted"
    [] status = "Cancelled"  -> "withdrawn"
    [] status \in {"InProgress", "Finished"} ->
         IF IsEnded THEN "closed" ELSE "open"

Promise == INSTANCE AuctionPromise WITH
  phase <- Phase, price <- top_bid, leader <- top_bidder,
  stake <- [u \in Users |-> IF u \in open THEN bid[u] ELSE 0],
  holder <- lot, paid <- treasury + proceeds

(* The instructions, with their lazily written status, cached leader,      *)
(* escrows that come and go, extensions and updates of the configuration,   *)
(* amount to the auction a bidder has in mind: no bid after the close, no   *)
(* way for the leader out of the deal, lot and price exchanged once each.   *)
KeepsPromise == Promise!Spec
-----------------------------------------------------------------------------
(* Statements of the repository's comments that the code does not keep.     *)

(* bid_strategy.rs:97-98: the actual bid is greater than the previous one,  *)
(* so the net transfer of a bid is positive.                                *)
NetTransferPositive ==
  [][\A u \in Users, b, m \in Amounts :
       MakeBid(u, b, m) => TransferAmount(u, b) > 0]_vars
=============================================================================
