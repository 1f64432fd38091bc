---------------------------- MODULE AuctionProof ----------------------------
(***************************************************************************)
(* Theorems of Auction, for any users, amounts, rates, durations and       *)
(* configurations. IInv is inductive: its conjuncts need each other, e.g.  *)
(* a refund keeps StatusIsHonest only because no bid account exists in a   *)
(* cancelled auction, and an outbid keeps EscrowBacksBid only because the  *)
(* bidder it outbids cannot have left the escrow before the end.           *)
(***************************************************************************)
EXTENDS Auction, ArithmeticProof

(* The creator never bids, and nobody bids before the auction exists. *)
BiddersAreBuyers ==
  /\ Creator \notin bidders
  /\ top_bidder = Nobody => top_bid = 0
  /\ status = "NotCreated" => top_bidder = Nobody /\ expired_timestamp = 0

(* What outsiders can add to a bidder's means is bounded. *)
DepositsBounded == \A u \in Users : deposits[u] <= MaxDeposits

IInv ==
  /\ TypeOK
  /\ EscrowBacksBid
  /\ NobodyOutOfPocket
  /\ PaidOnce
  /\ TopBidDominates
  /\ LotCustody
  /\ BidsCountedOnce
  /\ StatusIsHonest
  /\ BiddersAreBuyers
  /\ DepositsBounded
-----------------------------------------------------------------------------
(* Whoever leads owns the top bid, or did, so it is within the supply.     *)
LEMMA TopBidFits ==
  ASSUME IInv
  PROVE  top_bid \in Nat /\ top_bid <= I64Max
<1> USE UsersAssumption, AmountsAssumption, SupplyAssumption DEF IInv
<1>1. CASE top_bidder = Nobody
  BY <1>1 DEF BiddersAreBuyers, TypeOK
<1>2. CASE top_bidder # Nobody
  <2> DEFINE u == top_bidder
  <2>1. u \in Users /\ bid[u] = top_bid
    BY <1>2 DEF TypeOK, TopBidDominates
  <2>2. /\ wallet[u] \in Nat /\ escrow[u] \in Nat /\ surplus[u] \in Nat
        /\ top_bid \in Nat /\ deposits[u] \in Nat /\ Endowment[u] \in Nat
    BY <2>1 DEF TypeOK
  <2>3. Endowment[u] + deposits[u] <= I64Max
    <3>1. Endowment[u] + MaxDeposits <= I64Max /\ deposits[u] <= MaxDeposits
      BY <2>1 DEF DepositsBounded
    <3> QED
      BY <2>2, <3>1
  <2>4. CASE u \in open
    <3>1. escrow[u] = top_bid + surplus[u]
      BY <2>1, <2>4 DEF EscrowBacksBid
    <3>2. wallet[u] + escrow[u] = Endowment[u] + deposits[u]
      BY <2>1, <2>2, <2>4 DEF NobodyOutOfPocket
    <3> QED
      BY <2>2, <2>3, <3>1, <3>2
  <2>5. CASE u \notin open
    <3>1. wallet[u] + escrow[u] = Endowment[u] + deposits[u] - top_bid
      BY <2>1, <2>5 DEF NobodyOutOfPocket
    <3> QED
      BY <2>2, <2>3, <3>1
  <2> QED
    BY <2>4, <2>5
<1> QED
  BY <1>1, <1>2

(* Below I64Max the casts of get_min_eligible_bid change nothing: the      *)
(* smallest eligible bid is the top bid and the raise, never less than the *)
(* top bid, whatever the configured rate.                                  *)
LEMMA MinEligibleBidBounds ==
  ASSUME TypeOK, top_bid <= I64Max
  PROVE  /\ MinEligibleBid =
              top_bid + Portion(top_bid, cfg.min_outbid_rate_bps)
         /\ MinEligibleBid \in Nat /\ MinEligibleBid >= top_bid
<1>1. Portion(top_bid, cfg.min_outbid_rate_bps) \in Nat
  BY PortionNat DEF TypeOK, ConfigRecord
<1>2. SignedTopBid = top_bid
  BY DEF SignedTopBid, AsSigned
<1>3. MinRaise = Portion(top_bid, cfg.min_outbid_rate_bps)
  BY <1>2 DEF MinRaise, SignedPortion, TypeOK
<1> QED
  BY <1>1, <1>2, <1>3 DEF TypeOK, MinEligibleBid, AsUnsigned

LEMMA ActualBidBounds ==
  ASSUME TypeOK, top_bid <= I64Max, NEW b \in Nat
  PROVE  ActualBid(b) \in Nat /\ ActualBid(b) >= top_bid /\ ActualBid(b) >= b
BY MinEligibleBidBounds DEF ActualBid, TypeOK

LEMMA FeeAmountNat ==
  ASSUME TypeOK, NEW t \in Nat
  PROVE  FeeAmount(t) \in Nat
BY PortionNat DEF TypeOK, ConfigRecord, FeeAmount

(* EscrowBacksBid and NobodyOutOfPocket of one user. *)
Backed(u) ==
  /\ u \in open => u \in bidders /\ escrow[u] = bid[u] + surplus[u]
  /\ u \notin open => escrow[u] = 0 /\ surplus[u] = 0
  /\ u \notin open /\ u # top_bidder => bid[u] = 0
  /\ surplus[u] <= deposits[u]

Accounted(u) ==
  wallet[u] + escrow[u] =
    Endowment[u] + deposits[u]
      - (IF u = top_bidder /\ u \notin open THEN top_bid ELSE 0)

(* The counter follows the set of bid accounts. *)
LEMMA CountNewBidder ==
  ASSUME TypeOK, total_bids = Cardinality(bidders), NEW u \in Users
  PROVE  CountedBids(u) = Cardinality(bidders \cup {u})
<1>1. IsFiniteSet(bidders)
  BY UsersAssumption, FS_Subset DEF TypeOK
<1>2. CASE u \in bidders
  <2>1. bidders \cup {u} = bidders
    BY <1>2
  <2> QED
    BY <2>1, <1>2 DEF CountedBids
<1>3. CASE u \notin bidders
  BY <1>1, <1>3, FS_AddElement DEF CountedBids
<1> QED
  BY <1>2, <1>3

LEMMA NoBidsNoBidders ==
  ASSUME TypeOK, BidsCountedOnce, total_bids = 0
  PROVE  bidders = {} /\ top_bidder = Nobody
<1>1. IsFiniteSet(bidders)
  BY UsersAssumption, FS_Subset DEF TypeOK
<1>2. bidders = {}
  BY <1>1, FS_EmptySet DEF BidsCountedOnce
<1> QED
  BY <1>2 DEF BidsCountedOnce
-----------------------------------------------------------------------------
LEMMA InitIInv == Init => IInv
<1> SUFFICES ASSUME Init PROVE IInv
  OBVIOUS
<1> USE UsersAssumption, AmountsAssumption, ConfigsAssumption DEF Init
<1>1. TypeOK
  BY DEF TypeOK
<1>2. EscrowBacksBid /\ TopBidDominates
  BY DEF EscrowBacksBid, TopBidDominates
<1>3. NobodyOutOfPocket /\ PaidOnce
  BY DEF NobodyOutOfPocket, PaidOnce
<1>4. LotCustody /\ StatusIsHonest /\ BiddersAreBuyers /\ DepositsBounded
  BY DEF LotCustody, StatusIsHonest, BiddersAreBuyers, DepositsBounded
<1>5. BidsCountedOnce
  BY FS_EmptySet DEF BidsCountedOnce
<1> QED
  BY <1>1, <1>2, <1>3, <1>4, <1>5 DEF IInv

LEMMA CreateAuctionIInv ==
  ASSUME IInv, NEW d \in Durations, NEW s \in StartBids, CreateAuction(d, s)
  PROVE  IInv'
<1> USE UsersAssumption, AmountsAssumption DEF IInv, CreateAuction, bidVars,
        moneyVars
<1>0. bidders = {} /\ top_bidder = Nobody /\ open = {} /\ top_bid = 0
  BY DEF BiddersAreBuyers, BidsCountedOnce, EscrowBacksBid, TypeOK
<1>1. TypeOK'
  BY DEF TypeOK
<1>2. EscrowBacksBid' /\ TopBidDominates'
  BY <1>0 DEF EscrowBacksBid, TopBidDominates, TypeOK
<1>3. NobodyOutOfPocket' /\ PaidOnce'
  BY <1>0 DEF NobodyOutOfPocket, PaidOnce, TypeOK
<1>4. LotCustody' /\ StatusIsHonest' /\ BiddersAreBuyers' /\ DepositsBounded'
  BY DEF LotCustody, StatusIsHonest, BiddersAreBuyers, DepositsBounded
<1>5. BidsCountedOnce'
  BY <1>0, FS_EmptySet DEF BidsCountedOnce
<1> QED
  BY <1>1, <1>2, <1>3, <1>4, <1>5

LEMMA MakeBidIInv ==
  ASSUME IInv, NEW u \in Users, NEW b \in Amounts, NEW m \in Amounts,
         MakeBid(u, b, m)
  PROVE  IInv'
<1> DEFINE a == ActualBid(b)
           t == a - escrow[u]
<1>0. b \in Nat /\ m \in Nat
  BY AmountsAssumption
<1>1. TypeOK
  BY DEF IInv
<1>2. a \in Nat /\ a >= top_bid
  BY <1>0, <1>1, TopBidFits, ActualBidBounds
<1>3. /\ t \in Nat /\ t <= wallet[u]
      /\ ~IsEnded /\ ~IsCancelled /\ status # "NotCreated" /\ u # Creator
  BY <1>1, <1>2 DEF MakeBid, ValidBid, TransferAmount, TypeOK
<1>4. /\ bidders' = bidders \cup {u}
      /\ bid' = [bid EXCEPT ![u] = a]
      /\ open' = open \cup {u}
      /\ escrow' = [escrow EXCEPT ![u] = @ + t]
      /\ wallet' = [wallet EXCEPT ![u] = @ - t]
      /\ surplus' = [surplus EXCEPT ![u] = 0]
      /\ total_bids' = CountedBids(u)
      /\ top_bid' = a
      /\ top_bidder' = u
      /\ expired_timestamp' \in {Extended, expired_timestamp}
      /\ UNCHANGED <<now, cfg, status, start_bid, lot, lot_surplus, treasury,
                     proceeds, deposits>>
  BY DEF MakeBid, TransferAmount, moneyVars, lotVars
<1>5. /\ escrow[u] + t = a
      /\ \A v \in Users : v # u => /\ bid'[v] = bid[v]
                                   /\ escrow'[v] = escrow[v]
                                   /\ wallet'[v] = wallet[v]
                                   /\ surplus'[v] = surplus[v]
      /\ bid'[u] = a /\ escrow'[u] = a /\ wallet'[u] = wallet[u] - t
      /\ surplus'[u] = 0
  BY <1>1, <1>2, <1>3, <1>4 DEF TypeOK
<1>6. top_bidder # Nobody => top_bidder \in open
  BY <1>3 DEF IInv, TopBidDominates
<1>7. TypeOK'
  <2>1. Extended \in Nat
    BY <1>1, AmountsAssumption DEF Extended, TypeOK, ConfigRecord
  <2>2. total_bids' \in Nat
    BY <1>1, <1>4 DEF CountedBids, TypeOK
  <2>3. /\ bid' \in [Users -> Nat]
        /\ escrow' \in [Users -> Nat]
        /\ wallet' \in [Users -> Nat]
        /\ surplus' \in [Users -> Nat]
    BY <1>1, <1>2, <1>3, <1>4 DEF TypeOK
  <2> HIDE DEF a, t
  <2> QED
    BY <1>1, <1>2, <1>4, <2>1, <2>2, <2>3 DEF TypeOK
<1> HIDE DEF a, t
<1>8. EscrowBacksBid'
  <2>1. ASSUME NEW v \in Users, v # u PROVE Backed(v)'
    <3>1. Backed(v)
      BY DEF IInv, EscrowBacksBid, Backed
    <3>2. /\ bid'[v] = bid[v] /\ escrow'[v] = escrow[v]
          /\ surplus'[v] = surplus[v] /\ deposits' = deposits
      BY <2>1, <1>4, <1>5
    <3>3. v = top_bidder => v \in open
      BY <1>6, UsersAssumption
    <3> QED
      BY <2>1, <1>4, <3>1, <3>2, <3>3 DEF Backed
  <2>2. Backed(u)'
    <3>1. deposits'[u] \in Nat
      BY <1>1, <1>4 DEF TypeOK
    <3>2. a + 0 = a
      BY <1>2
    <3> QED
      BY <1>4, <1>5, <3>1, <3>2 DEF Backed
  <2> QED
    BY <2>1, <2>2 DEF EscrowBacksBid, Backed
<1>9. NobodyOutOfPocket'
  BY <1>1, <1>3, <1>4, <1>5, <1>6, UsersAssumption, AmountsAssumption
     DEF IInv, NobodyOutOfPocket, EscrowBacksBid, TypeOK
<1>10. PaidOnce'
  BY <1>4, <1>6, UsersAssumption DEF IInv, PaidOnce
<1>11. TopBidDominates'
  BY <1>1, <1>2, <1>4, <1>5 DEF IInv, TopBidDominates, TypeOK
<1>12. LotCustody'
  BY <1>3, <1>4 DEF IInv, LotCustody, IsCancelled
<1>13. BidsCountedOnce'
  BY <1>1, <1>4, CountNewBidder, UsersAssumption DEF IInv, BidsCountedOnce
<1>14. StatusIsHonest' /\ BiddersAreBuyers' /\ DepositsBounded'
  BY <1>3, <1>4, UsersAssumption
     DEF IInv, StatusIsHonest, BiddersAreBuyers, DepositsBounded, IsCancelled
<1> QED
  BY <1>7, <1>8, <1>9, <1>10, <1>11, <1>12, <1>13, <1>14 DEF IInv

LEMMA CancelAuctionBidIInv ==
  ASSUME IInv, NEW u \in Users, CancelAuctionBid(u)
  PROVE  IInv'
<1> USE UsersAssumption DEF IInv, CancelAuctionBid, MayCancelBid, topVars,
        moneyVars, lotVars
<1>1. TypeOK'
  BY DEF TypeOK, StatusAfterRefund
<1>2. \A v \in Users : v # u => /\ bid'[v] = bid[v]
                                /\ escrow'[v] = escrow[v]
                                /\ wallet'[v] = wallet[v]
                                /\ surplus'[v] = surplus[v]
  BY DEF TypeOK
<1>3. /\ bid'[u] = 0 /\ escrow'[u] = 0 /\ surplus'[u] = 0
      /\ wallet'[u] = wallet[u] + escrow[u]
  BY DEF TypeOK
<1>4. top_bidder # Nobody /\ ~IsCancelled
  BY DEF BidsCountedOnce, StatusIsHonest, IsCancelled
<1>5. EscrowBacksBid' /\ TopBidDominates'
  BY <1>2, <1>3 DEF EscrowBacksBid, TopBidDominates, TypeOK, IsEnded
<1>6. NobodyOutOfPocket' /\ PaidOnce'
  BY <1>2, <1>3, AmountsAssumption DEF NobodyOutOfPocket, PaidOnce, TypeOK
<1>7. LotCustody'
  BY <1>4 DEF LotCustody, StatusAfterRefund, IsEnded, IsCancelled
<1>8. BidsCountedOnce' /\ BiddersAreBuyers' /\ DepositsBounded'
  BY DEF BidsCountedOnce, BiddersAreBuyers, DepositsBounded, StatusAfterRefund
<1>9. StatusIsHonest'
  BY <1>4 DEF StatusIsHonest, StatusAfterRefund, IsEnded, IsCancelled
<1> QED
  BY <1>1, <1>5, <1>6, <1>7, <1>8, <1>9

LEMMA CancelAuctionIInv ==
  ASSUME IInv, CancelAuction
  PROVE  IInv'
<1> USE UsersAssumption DEF IInv, CancelAuction, MayCancelAuction, bidVars,
        topVars, moneyVars
<1>0. bidders = {} /\ top_bidder = Nobody /\ open = {}
  BY NoBidsNoBidders DEF EscrowBacksBid, TypeOK
<1>1. TypeOK'
  BY DEF TypeOK
<1>2. EscrowBacksBid' /\ TopBidDominates'
  BY <1>0 DEF EscrowBacksBid, TopBidDominates
<1>3. NobodyOutOfPocket' /\ PaidOnce' /\ BidsCountedOnce'
  BY DEF NobodyOutOfPocket, PaidOnce, BidsCountedOnce
<1>4. LotCustody' /\ StatusIsHonest' /\ BiddersAreBuyers' /\ DepositsBounded'
  BY <1>0 DEF LotCustody, StatusIsHonest, BiddersAreBuyers, DepositsBounded
<1> QED
  BY <1>1, <1>2, <1>3, <1>4

LEMMA ClaimLotNftIInv ==
  ASSUME IInv, NEW u \in Users, ClaimLotNft(u)
  PROVE  IInv'
<1> USE UsersAssumption DEF IInv, ClaimLotNft, MayClaimLot, bidVars, topVars,
        moneyVars
<1>1. TypeOK'
  BY DEF TypeOK
<1>2. EscrowBacksBid' /\ TopBidDominates'
  BY DEF EscrowBacksBid, TopBidDominates, IsEnded
<1>3. NobodyOutOfPocket' /\ PaidOnce' /\ BidsCountedOnce'
  BY DEF NobodyOutOfPocket, PaidOnce, BidsCountedOnce
<1>4. LotCustody' /\ StatusIsHonest' /\ BiddersAreBuyers' /\ DepositsBounded'
  BY DEF LotCustody, StatusIsHonest, BiddersAreBuyers, DepositsBounded, IsEnded
<1> QED
  BY <1>1, <1>2, <1>3, <1>4

LEMMA ClaimAuctionRevenueIInv ==
  ASSUME IInv, NEW c \in Users, ClaimAuctionRevenue(c)
  PROVE  IInv'
<1> USE UsersAssumption DEF IInv
<1>1. PICK u \in bidders :
        /\ MayClaimRevenue(u)
        /\ treasury' = treasury + FeeAmount(escrow[u])
        /\ proceeds' = proceeds + (escrow[u] - FeeAmount(escrow[u]))
        /\ escrow' = [escrow EXCEPT ![u] = 0]
        /\ open' = open \ {u}
        /\ surplus' = [surplus EXCEPT ![u] = 0]
  BY DEF ClaimAuctionRevenue
<1>2. /\ status' = "Finished"
      /\ UNCHANGED <<now, cfg, expired_timestamp, start_bid, total_bids,
                     top_bid, top_bidder, bidders, bid, wallet, deposits, lot,
                     lot_surplus>>
  BY DEF ClaimAuctionRevenue, topVars, lotVars
<1>3. /\ u \in Users /\ u \in open /\ u = top_bidder /\ u # Nobody
      /\ escrow[u] = top_bid /\ escrow[u] \in Nat /\ IsEnded
      /\ status # "NotCreated"
  BY <1>1 DEF TypeOK, MayClaimRevenue, TopBidDominates
<1>4. FeeAmount(escrow[u]) \in Nat /\ FeeAmount(escrow[u]) <= escrow[u]
  BY <1>1, <1>3, FeeAmountNat DEF MayClaimRevenue, CanDistribute
<1>5. /\ escrow'[u] = 0 /\ surplus'[u] = 0
      /\ \A v \in Users : v # u => /\ escrow'[v] = escrow[v]
                                   /\ surplus'[v] = surplus[v]
  BY <1>1, <1>3 DEF TypeOK
<1>6. TypeOK'
  BY <1>1, <1>2, <1>3, <1>4 DEF TypeOK
<1>7. EscrowBacksBid' /\ TopBidDominates'
  <2>1. TopBidDominates'
    BY <1>2, <1>3 DEF TopBidDominates, IsEnded
  <2>2. ASSUME NEW v \in Users, v # u PROVE Backed(v)'
    <3>1. Backed(v) /\ escrow'[v] = escrow[v] /\ surplus'[v] = surplus[v]
      BY <2>2, <1>5 DEF EscrowBacksBid, Backed
    <3> QED
      BY <2>2, <1>1, <1>2, <3>1 DEF Backed
  <2>3. Backed(u)'
    <3>1. deposits'[u] \in Nat /\ u \notin open' /\ u = top_bidder'
      BY <1>1, <1>2, <1>3 DEF TypeOK
    <3> QED
      BY <1>5, <3>1 DEF Backed
  <2> QED
    BY <2>1, <2>2, <2>3 DEF EscrowBacksBid, Backed
<1>8. NobodyOutOfPocket'
  <2>1. wallet'[u] + escrow'[u] = Endowment[u] + deposits[u] - top_bid
    BY <1>2, <1>3, <1>5, AmountsAssumption DEF NobodyOutOfPocket, TypeOK
  <2>2. ASSUME NEW v \in Users, v # u
        PROVE  wallet'[v] + escrow'[v] = Endowment[v] + deposits[v]
    BY <1>2, <1>3, <1>5, <2>2, AmountsAssumption DEF NobodyOutOfPocket, TypeOK
  <2>3. u \notin open' /\ top_bidder' = u /\ top_bid' = top_bid
    BY <1>1, <1>2, <1>3
  <2> QED
    BY <1>2, <2>1, <2>2, <2>3, AmountsAssumption
       DEF NobodyOutOfPocket, TypeOK
<1>9. PaidOnce'
  BY <1>1, <1>2, <1>3, <1>4 DEF PaidOnce, TypeOK
<1>10. LotCustody'
  BY <1>2, <1>3 DEF LotCustody, IsEnded, StatusIsHonest, BidsCountedOnce
<1>11. BidsCountedOnce' /\ StatusIsHonest' /\ BiddersAreBuyers'
       /\ DepositsBounded'
  BY <1>2, <1>3 DEF BidsCountedOnce, StatusIsHonest, BiddersAreBuyers,
                    DepositsBounded, IsEnded
<1> QED
  BY <1>6, <1>7, <1>8, <1>9, <1>10, <1>11

(* An outsider's transfer changes a bid's escrow and what the books say of *)
(* it, and nothing else.                                                   *)
LEMMA DepositIInv ==
  ASSUME IInv, NEW u \in Users, NEW n \in Gifts, Deposit(u, n)
  PROVE  IInv'
<1> USE UsersAssumption DEF IInv
<1>1. n \in Nat /\ u \in open
  BY AmountsAssumption DEF Deposit
<1>2. /\ UNCHANGED <<now, cfg, status, expired_timestamp, start_bid,
                     total_bids, top_bid, top_bidder, bidders, bid, open,
                     wallet, lot, lot_surplus, treasury, proceeds>>
      /\ escrow' = [escrow EXCEPT ![u] = @ + n]
      /\ deposits' = [deposits EXCEPT ![u] = @ + n]
      /\ surplus' = [surplus EXCEPT ![u] = @ + n]
      /\ deposits[u] + n <= MaxDeposits
  BY DEF Deposit, topVars, lotVars, moneyVars
<1>3. /\ \A v \in Users : v # u => /\ escrow'[v] = escrow[v]
                                   /\ deposits'[v] = deposits[v]
                                   /\ surplus'[v] = surplus[v]
      /\ escrow'[u] = escrow[u] + n /\ deposits'[u] = deposits[u] + n
      /\ surplus'[u] = surplus[u] + n
  BY <1>2 DEF TypeOK
<1>4. TypeOK'
  BY <1>1, <1>2 DEF TypeOK
<1>10. /\ escrow[u] \in Nat /\ surplus[u] \in Nat /\ deposits[u] \in Nat
      /\ bid[u] \in Nat /\ wallet[u] \in Nat /\ Endowment[u] \in Nat
  BY AmountsAssumption DEF TypeOK
<1>5. EscrowBacksBid'
  <2>1. ASSUME NEW v \in Users, v # u PROVE Backed(v)'
    BY <2>1, <1>2, <1>3 DEF EscrowBacksBid, Backed
  <2>2. Backed(u)'
    <3>1. Backed(u)
      BY DEF EscrowBacksBid, Backed
    <3>2. escrow'[u] = bid[u] + surplus'[u] /\ surplus'[u] <= deposits'[u]
      BY <1>1, <1>3, <1>10, <3>1 DEF Backed
    <3> QED
      BY <1>1, <1>2, <3>1, <3>2 DEF Backed
  <2> QED
    BY <2>1, <2>2 DEF EscrowBacksBid, Backed
<1>6. NobodyOutOfPocket'
  <2>1. ASSUME NEW v \in Users, v # u PROVE Accounted(v)'
    <3>1. Accounted(v)
      BY DEF NobodyOutOfPocket, Accounted
    <3> QED
      BY <2>1, <1>2, <1>3, <3>1 DEF Accounted
  <2>2. Accounted(u)'
    <3>1. Accounted(u)
      BY DEF NobodyOutOfPocket, Accounted
    <3>2. wallet[u] + escrow[u] = Endowment[u] + deposits[u]
      BY <1>1, <1>10, <3>1 DEF Accounted
    <3>3. wallet'[u] + escrow'[u] = Endowment[u] + deposits'[u]
      BY <1>1, <1>2, <1>3, <1>10, <3>2
    <3>4. ~(u = top_bidder' /\ u \notin open')
      BY <1>1, <1>2
    <3> QED
      BY <1>3, <1>10, <1>1, <3>3, <3>4 DEF Accounted
  <2> QED
    BY <2>1, <2>2 DEF NobodyOutOfPocket, Accounted
<1>7. DepositsBounded'
  BY <1>2, <1>3 DEF DepositsBounded
<1>8. PaidOnce' /\ TopBidDominates' /\ LotCustody'
  BY <1>2 DEF PaidOnce, TopBidDominates, LotCustody, IsEnded
<1>9. BidsCountedOnce' /\ StatusIsHonest' /\ BiddersAreBuyers'
  BY <1>2 DEF BidsCountedOnce, StatusIsHonest, BiddersAreBuyers, IsEnded
<1> QED
  BY <1>4, <1>5, <1>6, <1>7, <1>8, <1>9

(* The clock, the authority, units sent to the lot escrow and stuttering   *)
(* leave the bids alone; the clock can only turn IsEnded true.             *)
LEMMA OutsideIInv ==
  ASSUME IInv,
         \/ \E c \in Configs : UpdateConfigs(c)
         \/ DepositLot
         \/ Tick
         \/ UNCHANGED vars
  PROVE  IInv'
<1>1. /\ UNCHANGED <<status, expired_timestamp, start_bid, total_bids, top_bid,
                     top_bidder, bidders, bid, open, escrow, wallet, lot,
                     treasury, proceeds, deposits, surplus>>
      /\ now' \in {now, now + 1}
      /\ cfg' \in Configs \cup {cfg}
      /\ lot_surplus' = lot_surplus \/ (lot = Escrow /\ lot_surplus' = lot_surplus + 1)
  BY DEF UpdateConfigs, DepositLot, Tick, vars, topVars, bidVars, lotVars,
         moneyVars
<1>2. TypeOK'
  BY <1>1, ConfigsAssumption DEF IInv, TypeOK
<1>3. IsEnded => IsEnded'
  BY <1>1 DEF IInv, TypeOK, IsEnded
<1>4. EscrowBacksBid' /\ NobodyOutOfPocket' /\ PaidOnce' /\ BidsCountedOnce'
      /\ BiddersAreBuyers' /\ DepositsBounded'
  BY <1>1 DEF IInv, EscrowBacksBid, NobodyOutOfPocket, PaidOnce,
              BidsCountedOnce, BiddersAreBuyers, DepositsBounded
<1>5. TopBidDominates' /\ LotCustody' /\ StatusIsHonest'
  BY <1>1, <1>3 DEF IInv, TopBidDominates, LotCustody, StatusIsHonest
<1> QED
  BY <1>2, <1>4, <1>5 DEF IInv

LEMMA StepIInv ==
  ASSUME IInv, [Next]_vars
  PROVE  IInv'
<1>1. ASSUME NEW d \in Durations, NEW s \in StartBids, CreateAuction(d, s)
      PROVE  IInv'
  BY <1>1, CreateAuctionIInv
<1>2. ASSUME NEW u \in Users, NEW b \in Amounts, NEW m \in Amounts,
             MakeBid(u, b, m)
      PROVE  IInv'
  BY <1>2, MakeBidIInv
<1>3. ASSUME NEW u \in Users, CancelAuctionBid(u)
      PROVE  IInv'
  BY <1>3, CancelAuctionBidIInv
<1>4. CASE CancelAuction
  BY <1>4, CancelAuctionIInv
<1>5. ASSUME NEW u \in Users, ClaimLotNft(u)
      PROVE  IInv'
  BY <1>5, ClaimLotNftIInv
<1>6. ASSUME NEW u \in Users, ClaimAuctionRevenue(u)
      PROVE  IInv'
  BY <1>6, ClaimAuctionRevenueIInv
<1>7. ASSUME NEW u \in Users, NEW n \in Gifts, Deposit(u, n)
      PROVE  IInv'
  BY <1>7, DepositIInv
<1>8. CASE (\E c \in Configs : UpdateConfigs(c)) \/ DepositLot \/ Tick
           \/ UNCHANGED vars
  BY <1>8, OutsideIInv
<1> QED
  BY <1>1, <1>2, <1>3, <1>4, <1>5, <1>6, <1>7, <1>8 DEF Next

(* IInv holds in every reachable state, for all values of the constants.   *)
THEOREM Invariance == Spec => []IInv
<1> QED
  BY InitIInv, StepIInv, PTL DEF Spec

(* Every variable keeps its type: no balance, counter or timestamp of the  *)
(* auction is ever negative, no account ever ill-formed.                   *)
THEOREM TypeCorrect == Spec => []TypeOK
<1>1. IInv => TypeOK
  BY DEF IInv
<1> QED
  BY <1>1, Invariance, PTL

(* Escrowed funds are the recorded bid and what outsiders added since, so  *)
(* never less than the bid, and the bid exactly without a deposit.         *)
THEOREM EscrowsAreBacked == Spec => []EscrowBacksBid
<1>1. IInv => EscrowBacksBid
  BY DEF IInv
<1> QED
  BY <1>1, Invariance, PTL

(* No bidder loses money but the winner, who loses the top bid, and all of *)
(* that and nothing else reaches the treasury and the receivers.           *)
THEOREM MoneyIsSafe == Spec => []MoneyIsConserved
<1>1. IInv => MoneyIsConserved
  BY DEF IInv, MoneyIsConserved
<1> QED
  BY <1>1, Invariance, PTL

(* The leader's bid is the highest, and is in escrow until the end.        *)
THEOREM LeaderIsFunded == Spec => []TopBidDominates
<1>1. IInv => TopBidDominates
  BY DEF IInv
<1> QED
  BY <1>1, Invariance, PTL

(* The lot leaves escrow only to the winner after the end, or back to the  *)
(* creator of an auction without bids; and the status says which.          *)
THEOREM LotIsSafe == Spec => [](LotCustody /\ StatusIsHonest)
<1>1. IInv => LotCustody /\ StatusIsHonest
  BY DEF IInv
<1> QED
  BY <1>1, Invariance, PTL

(* total_bids counts bidders, not bids.                                    *)
THEOREM BiddersAreCounted == Spec => []BidsCountedOnce
<1>1. IInv => BidsCountedOnce
  BY DEF IInv
<1> QED
  BY <1>1, Invariance, PTL

(* cancel_auction_bid, claim_lot_nft and claim_auction_revenue refuse a    *)
(* party that is due a refund or a claim after a deposit only (or when the *)
(* fee does not fit).                                                      *)
THEOREM ClaimsStayOpen == Spec => []ClaimsNeverBlocked
<1>1. ASSUME IInv
      PROVE  ClaimsNeverBlocked
  <2> USE <1>1, UsersAssumption DEF IInv
  <2>1. \A u \in bidders : status # "NotCreated"
    BY DEF BiddersAreBuyers, BidsCountedOnce
  <2>2. ASSUME NEW u \in open, u # top_bidder, surplus[u] = 0
        PROVE  MayCancelBid(u)
    BY <2>1, <2>2 DEF MayCancelBid, EscrowBacksBid, TypeOK
  <2>3. ASSUME NEW u \in Users, top_bidder = u, IsEnded, lot = Escrow,
               lot_surplus = 0
        PROVE  MayClaimLot(u)
    BY <2>1, <2>3 DEF MayClaimLot, TopBidDominates
  <2>4. ASSUME NEW u \in Users, top_bidder = u, IsEnded, u \in open,
               surplus[u] = 0, CanDistribute(top_bid)
        PROVE  MayClaimRevenue(u)
    BY <2>1, <2>4 DEF MayClaimRevenue, TopBidDominates, EscrowBacksBid, TypeOK
  <2> QED
    BY <2>2, <2>3, <2>4 DEF ClaimsNeverBlocked
<1> QED
  BY <1>1, Invariance, PTL

(* The net transfer of a bid underflows by no more than outsiders put into *)
(* the escrow: the bidder's own tokens there are the last bid, at most the *)
(* top bid, and the actual bid is at least that.                           *)
THEOREM TransferShortOfDepositsOnly == Spec => []TransferShortByDeposits
<1>1. ASSUME IInv, NEW u \in Users, NEW b \in Amounts
      PROVE  TransferAmount(u, b) + surplus[u] >= 0
  <2>1. /\ escrow[u] \in Nat /\ surplus[u] \in Nat
        /\ bid[u] \in Nat /\ top_bid \in Nat /\ bid[u] <= top_bid
        /\ escrow[u] <= bid[u] + surplus[u]
    BY <1>1 DEF IInv, TypeOK, EscrowBacksBid, TopBidDominates
  <2>2. ActualBid(b) \in Nat /\ ActualBid(b) >= top_bid
    BY <1>1, AmountsAssumption, TopBidFits, ActualBidBounds DEF IInv
  <2> QED
    BY <2>1, <2>2 DEF TransferAmount
<1>2. IInv => TransferShortByDeposits
  BY <1>1 DEF TransferShortByDeposits
<1> QED
  BY <1>2, Invariance, PTL
-----------------------------------------------------------------------------
(* After the end only refunds, claims, deposits, the clock and the         *)
(* authority act.                                                          *)
LEMMA StepAfterEnd ==
  ASSUME IInv, [Next]_vars, status # "NotCreated", IsEnded
  PROVE  IsEnded' /\ UNCHANGED <<expired_timestamp, top_bid, top_bidder>>
<1>1. now' \in {now, now + 1}
  BY DEF Next, CreateAuction, MakeBid, CancelAuctionBid, CancelAuction,
         ClaimLotNft, ClaimAuctionRevenue, UpdateConfigs, Deposit, DepositLot,
         Tick, vars
<1>2. UNCHANGED <<expired_timestamp, top_bid, top_bidder>>
  BY DEF Next, CreateAuction, MakeBid, ValidBid, CancelAuctionBid,
         CancelAuction, ClaimLotNft, ClaimAuctionRevenue, UpdateConfigs,
         Deposit, DepositLot, Tick, vars, topVars
<1> QED
  BY <1>1, <1>2 DEF IInv, TypeOK, IsEnded

(* The winner and the price are settled the moment the auction ends.       *)
THEOREM EndStaysFinal == Spec => EndIsFinal
<1>1. IInv /\ [Next]_vars =>
        [status # "NotCreated" /\ IsEnded =>
           IsEnded' /\ UNCHANGED <<expired_timestamp, topVars>>]_vars
  BY StepAfterEnd DEF topVars
<1> QED
  BY <1>1, Invariance, PTL DEF Spec, EndIsFinal

(* An escrow with a deposit in it stays as it is after the end: whoever    *)
(* could empty it, the bidder's refund or the claim of the revenue, asks   *)
(* for exactly the bid, and bids are over.                                 *)
THEOREM DepositsStayLocked == Spec => DepositsLockEscrows
<1>1. ASSUME IInv, [Next]_vars, IsEnded, NEW u \in Users, surplus[u] > 0
      PROVE  u \in open' /\ escrow'[u] >= escrow[u]
  <2> USE <1>1 DEF IInv
  <2>1. /\ u \in open /\ u \in bidders
        /\ escrow[u] \in Nat /\ bid[u] \in Nat /\ escrow[u] # bid[u]
    BY DEF EscrowBacksBid, TypeOK
  <2>2. \A v \in Users, b, m \in Amounts : ~MakeBid(v, b, m)
    BY DEF MakeBid, ValidBid
  <2>3. ASSUME NEW v \in Users, CancelAuctionBid(v)
        PROVE  u \in open' /\ escrow'[u] = escrow[u]
    <3>1. v # u
      BY <2>1, <2>3 DEF CancelAuctionBid, MayCancelBid
    <3> QED
      BY <2>1, <2>3, <3>1 DEF CancelAuctionBid, TypeOK
  <2>4. ASSUME NEW c \in Users, ClaimAuctionRevenue(c)
        PROVE  u \in open' /\ escrow'[u] = escrow[u]
    <3>1. PICK v \in bidders : /\ MayClaimRevenue(v)
                               /\ escrow' = [escrow EXCEPT ![v] = 0]
                               /\ open' = open \ {v}
      BY <2>4 DEF ClaimAuctionRevenue
    <3>2. v # u
      BY <2>1, <3>1 DEF MayClaimRevenue
    <3> QED
      BY <2>1, <3>1, <3>2 DEF TypeOK
  <2>5. ASSUME NEW v \in Users, NEW n \in Gifts, Deposit(v, n)
        PROVE  u \in open' /\ escrow'[u] >= escrow[u]
    <3>1. n \in Nat
      BY AmountsAssumption
    <3> QED
      BY <2>1, <2>5, <3>1 DEF Deposit, TypeOK
  <2>6. CASE \/ \E d \in Durations, s \in StartBids : CreateAuction(d, s)
             \/ CancelAuction
             \/ \E v \in Users : ClaimLotNft(v)
             \/ \E c \in Configs : UpdateConfigs(c)
             \/ DepositLot
             \/ Tick
             \/ UNCHANGED vars
    <3>1. open' = open /\ escrow' = escrow
      BY <2>6 DEF CreateAuction, CancelAuction, ClaimLotNft, UpdateConfigs,
                  DepositLot, Tick, vars, bidVars
    <3> QED
      BY <2>1, <3>1
  <2> QED
    BY <2>1, <2>2, <2>3, <2>4, <2>5, <2>6 DEF Next
<1>2. ASSUME IInv, [Next]_vars, IsEnded, lot_surplus > 0
      PROVE  lot' = Escrow
  <2>1. lot = Escrow
    BY <1>2 DEF IInv, LotCustody, TypeOK
  <2>2. lot_surplus # 0
    BY <1>2 DEF IInv, TypeOK
  <2> QED
    BY <1>2, <2>1, <2>2
       DEF Next, CreateAuction, MakeBid, CancelAuctionBid, CancelAuction,
           MayCancelAuction, ClaimLotNft, MayClaimLot, ClaimAuctionRevenue,
           UpdateConfigs, Deposit, DepositLot, Tick, vars, lotVars
<1>3. IInv /\ [Next]_vars =>
        [IsEnded =>
           /\ \A u \in Users :
                surplus[u] > 0 => u \in open' /\ escrow'[u] >= escrow[u]
           /\ lot_surplus > 0 => lot' = Escrow]_vars
  BY <1>1, <1>2
<1> QED
  BY <1>3, Invariance, PTL DEF Spec, DepositsLockEscrows

(* No instruction takes an auction out of Finished or Cancelled: IInv rules*)
(* out a cancellation after a bid and a claim or refund without one.       *)
THEOREM StatusStaysFinal == Spec => StatusIsFinal
<1>1. ASSUME IInv, [Next]_vars, status \in {"Cancelled", "Finished"}
      PROVE  status' = status
  <2> USE <1>1 DEF IInv
  <2>1. \A d, s : ~CreateAuction(d, s)
    BY DEF CreateAuction
  <2>2. \A u \in Users, b, m \in Amounts : ~MakeBid(u, b, m)
    BY DEF MakeBid, ValidBid, IsCancelled, StatusIsHonest
  <2>3. ASSUME NEW u \in Users, CancelAuctionBid(u)
        PROVE  status' = status
    BY <2>3 DEF CancelAuctionBid, MayCancelBid, StatusAfterRefund,
                StatusIsHonest, BidsCountedOnce
  <2>4. CASE CancelAuction
    BY <2>4, NoBidsNoBidders
       DEF CancelAuction, MayCancelAuction, StatusIsHonest
  <2>5. ASSUME NEW u \in Users, ClaimLotNft(u)
        PROVE  status' = status
    BY <2>5 DEF ClaimLotNft, MayClaimLot, StatusIsHonest, BidsCountedOnce
  <2>6. ASSUME NEW u \in Users, ClaimAuctionRevenue(u)
        PROVE  status' = status
    BY <2>6 DEF ClaimAuctionRevenue, StatusIsHonest, BidsCountedOnce
  <2>7. CASE \/ \E c \in Configs : UpdateConfigs(c)
             \/ \E u \in Users, n \in Gifts : Deposit(u, n)
             \/ DepositLot
             \/ Tick
             \/ UNCHANGED vars
    BY <2>7 DEF UpdateConfigs, Deposit, DepositLot, Tick, vars
  <2> QED
    BY <2>1, <2>2, <2>3, <2>4, <2>5, <2>6, <2>7 DEF Next
<1>2. IInv /\ [Next]_vars =>
        [(status \in {"Cancelled", "Finished"}) => (status' = status)]_vars
  BY <1>1
<1> QED
  BY <1>2, Invariance, PTL DEF Spec, StatusIsFinal

(* Only a bid changes the leader or the price, and it raises the price by  *)
(* the minimum outbid rate of that moment, rounded down. It rests on       *)
(* SupplyAssumption: past I64Max the code's cast wraps and the smallest    *)
(* eligible bid is below the top bid.                                      *)
THEOREM LeadTakenOnlyByRaise == Spec => LeadTakenByRaise
<1>1. ASSUME IInv, [Next]_vars, topVars' # topVars
      PROVE  /\ top_bidder' \in Users \ {Creator}
             /\ top_bid' >= top_bid + Portion(top_bid, cfg.min_outbid_rate_bps)
             /\ top_bid' >= start_bid
  <2>1. CASE \E d \in Durations, s \in StartBids : CreateAuction(d, s)
    <3>1. status = "NotCreated" /\ topVars' = <<0, Nobody>>
      BY <2>1 DEF CreateAuction, topVars
    <3>2. topVars = <<0, Nobody>>    \* nobody has bid
      BY <1>1, <3>1 DEF IInv, BiddersAreBuyers, topVars
    <3> QED
      BY <1>1, <3>1, <3>2 DEF topVars
  <2>2. ASSUME NEW u \in Users, NEW b \in Amounts, NEW m \in Amounts,
               MakeBid(u, b, m)
        PROVE  /\ top_bidder' \in Users \ {Creator}
               /\ top_bid' >=
                    top_bid + Portion(top_bid, cfg.min_outbid_rate_bps)
               /\ top_bid' >= start_bid
    <3>1. /\ top_bid' = ActualBid(b) /\ top_bidder' = u /\ u # Creator
          /\ b >= start_bid
      BY <2>2 DEF MakeBid, ValidBid
    <3>2. /\ b \in Nat /\ start_bid \in Nat /\ MinEligibleBid \in Nat
          /\ MinEligibleBid =
               top_bid + Portion(top_bid, cfg.min_outbid_rate_bps)
      BY <1>1, AmountsAssumption, TopBidFits, MinEligibleBidBounds
         DEF IInv, TypeOK
    <3>3. /\ ActualBid(b) \in Nat
          /\ ActualBid(b) >= MinEligibleBid /\ ActualBid(b) >= b
      BY <3>2 DEF ActualBid
    <3> QED
      BY <3>1, <3>2, <3>3
  <2> QED
    BY <1>1, <2>1, <2>2
       DEF Next, CancelAuctionBid, CancelAuction, ClaimLotNft,
           ClaimAuctionRevenue, UpdateConfigs, Deposit, DepositLot, Tick,
           vars, topVars
<1>2. IInv /\ [Next]_vars =>
        [topVars' # topVars =>
           /\ top_bidder' \in Users \ {Creator}
           /\ top_bid' >= top_bid + Portion(top_bid, cfg.min_outbid_rate_bps)
           /\ top_bid' >= start_bid]_vars
  BY <1>1
<1> QED
  BY <1>2, Invariance, PTL DEF Spec, LeadTakenByRaise

(* A bid commits an amount between the two the bidder named.               *)
THEOREM SlippageIsBounded == Spec => SlippageRespected
<1>1. ASSUME IInv, NEW u \in Users, NEW b \in Amounts, NEW m \in Amounts,
             MakeBid(u, b, m)
      PROVE  bid'[u] \in b..m
  <2>1. /\ bid'[u] = ActualBid(b) /\ b <= m /\ m > top_bid
        /\ top_bid > 0 => m >= MinEligibleBid
    BY <1>1 DEF MakeBid, ValidBid, IInv, TypeOK
  <2>2. b \in Nat /\ m \in Nat /\ top_bid \in Nat
    BY <1>1, AmountsAssumption DEF IInv, TypeOK
  <2>3. top_bid = 0 => MinEligibleBid = 0
    BY <1>1, TopBidFits, MinEligibleBidBounds, PortionOfNothing
       DEF IInv, TypeOK, ConfigRecord
  <2>4. MinEligibleBid \in Nat /\ ActualBid(b) \in Nat /\ ActualBid(b) >= b
    BY <1>1, <2>2, TopBidFits, MinEligibleBidBounds, ActualBidBounds DEF IInv
  <2>5. ActualBid(b) <= m
    BY <2>1, <2>2, <2>3, <2>4 DEF ActualBid
  <2> QED
    BY <2>1, <2>2, <2>4, <2>5
<1>2. IInv => [\A u \in Users, b, m \in Amounts :
                 MakeBid(u, b, m) => bid'[u] \in b..m]_vars
  BY <1>1
<1> QED
  BY <1>2, Invariance, PTL DEF Spec, SlippageRespected

(* With an extension no shorter than the final window, no bid shortens the *)
(* auction: in the window less than last_minutes remain.                   *)
THEOREM ExtensionsExtend == Spec => NeverShortened
<1>1. ASSUME IInv, [Next]_vars,
             cfg.auction_extend_minutes >= cfg.last_minutes_for_auction_extend
      PROVE  expired_timestamp' >= expired_timestamp
  <2> DEFINE w == cfg.last_minutes_for_auction_extend * MINUTE
             x == cfg.auction_extend_minutes * MINUTE
  <2>0. now \in Nat /\ expired_timestamp \in Nat
    BY <1>1 DEF IInv, TypeOK
  <2>1. w \in Nat /\ x \in Nat /\ w <= x
    BY <1>1, AmountsAssumption, SMT DEF IInv, TypeOK, ConfigRecord
  <2>2. NeedToExtend <=> now > expired_timestamp - w
    BY DEF NeedToExtend
  <2>3. Extended = now + x
    BY DEF Extended
  <2> HIDE DEF w, x
  <2>4. ASSUME NEW d \in Durations, NEW s \in StartBids, CreateAuction(d, s)
        PROVE  expired_timestamp' >= expired_timestamp
    BY <1>1, <2>0, <2>4, AmountsAssumption
       DEF CreateAuction, IInv, BiddersAreBuyers
  <2>5. ASSUME NEW u \in Users, NEW b \in Amounts, NEW m \in Amounts,
               MakeBid(u, b, m)
        PROVE  expired_timestamp' >= expired_timestamp
    BY <2>0, <2>1, <2>2, <2>3, <2>5 DEF MakeBid
  <2> QED
    BY <1>1, <2>0, <2>4, <2>5
       DEF Next, CancelAuctionBid, CancelAuction, ClaimLotNft,
           ClaimAuctionRevenue, UpdateConfigs, Deposit, DepositLot, Tick, vars
<1>2. IInv /\ [Next]_vars =>
        [cfg.auction_extend_minutes >= cfg.last_minutes_for_auction_extend =>
           expired_timestamp' >= expired_timestamp]_vars
  BY <1>1
<1> QED
  BY <1>2, Invariance, PTL DEF Spec, NeverShortened
-----------------------------------------------------------------------------
(* The refinement: each instruction is one step of AuctionPromise, the     *)
(* clock closes the auction, updates of the configuration and outsiders'   *)
(* deposits change nothing: a stake is what the bid account says.          *)
Stake == [u \in Users |-> IF u \in open THEN bid[u] ELSE 0]

LEMMA CreateKeepsPromise ==
  ASSUME IInv, NEW d \in Durations, NEW s \in StartBids, CreateAuction(d, s)
  PROVE  Promise!List
<1>1. Phase = "unlisted" /\ top_bid = 0 /\ top_bidder = Nobody
  BY DEF Phase, CreateAuction, IInv, BiddersAreBuyers
<1>2. ~IsEnded'
  <2>1. now \in Nat /\ d \in Nat
    BY AmountsAssumption DEF IInv, TypeOK
  <2> QED
    BY <2>1 DEF CreateAuction, IsEnded
<1>3. Phase' = "open"
  BY <1>2 DEF Phase, CreateAuction
<1> QED
  BY <1>1, <1>3 DEF Promise!List, CreateAuction, bidVars, moneyVars

LEMMA BidKeepsPromise ==
  ASSUME IInv, NEW u \in Users, NEW b \in Amounts, NEW m \in Amounts,
         MakeBid(u, b, m)
  PROVE  Promise!Bid(u)
<1>1. Phase = "open" /\ u # Creator
  BY DEF MakeBid, ValidBid, IsCancelled, Phase, IInv, TypeOK
<1>2. b \in Nat /\ b > 0
  BY AmountsAssumption DEF MakeBid, ValidBid
<1>3. ActualBid(b) \in Nat \ {0} /\ ActualBid(b) >= top_bid
  BY <1>2, TopBidFits, ActualBidBounds DEF IInv
<1>4. Stake' = [Stake EXCEPT ![u] = ActualBid(b)]
  BY DEF MakeBid, IInv, TypeOK, Stake
<1>5. ~IsEnded'
  <2>1. now \in Nat /\ Extended \in Nat /\ now <= Extended
    <3>1. cfg.auction_extend_minutes \in Nat /\ MINUTE \in Nat /\ now \in Nat
      BY AmountsAssumption DEF IInv, TypeOK, ConfigRecord
    <3>2. cfg.auction_extend_minutes * MINUTE \in Nat
      BY <3>1
    <3> QED
      BY <3>1, <3>2 DEF Extended
  <2>2. ~IsEnded
    BY DEF MakeBid, ValidBid
  <2> QED
    BY <2>1, <2>2 DEF MakeBid, IsEnded, IInv, TypeOK
<1>6. Phase' = "open"
  BY <1>5 DEF MakeBid, ValidBid, IsCancelled, Phase, IInv, TypeOK
<1> QED
  BY <1>1, <1>3, <1>4, <1>6 DEF Promise!Bid, MakeBid, lotVars, moneyVars, Stake

LEMMA RefundKeepsPromise ==
  ASSUME IInv, NEW u \in Users, CancelAuctionBid(u)
  PROVE  Promise!Refund(u)
<1>1. status \in {"InProgress", "Finished"}
  BY DEF CancelAuctionBid, MayCancelBid, IInv, TypeOK, StatusIsHonest,
         BidsCountedOnce
<1>2. UNCHANGED IsEnded
  BY DEF CancelAuctionBid, IsEnded
<1>3. Phase' = Phase
  BY <1>1, <1>2 DEF Phase, CancelAuctionBid, StatusAfterRefund
<1>4. Stake' = [Stake EXCEPT ![u] = 0]
  BY DEF CancelAuctionBid, IInv, TypeOK, Stake
<1> QED
  BY <1>3, <1>4
     DEF Promise!Refund, CancelAuctionBid, MayCancelBid, topVars, lotVars,
         moneyVars, Stake

LEMMA CancelKeepsPromise ==
  ASSUME IInv, CancelAuction
  PROVE  Promise!Unlist
<1>1. top_bidder = Nobody
  BY NoBidsNoBidders DEF IInv, CancelAuction, MayCancelAuction
<1>2. status \in {"InProgress", "Finished"}
  BY DEF CancelAuction, MayCancelAuction, IInv, LotCustody
<1>3. Phase \in {"open", "closed"} /\ Phase' = "withdrawn"
  BY <1>2 DEF Phase, CancelAuction
<1> QED
  BY <1>1, <1>3 DEF Promise!Unlist, CancelAuction, bidVars, topVars, moneyVars

LEMMA ClaimLotKeepsPromise ==
  ASSUME IInv, NEW u \in Users, ClaimLotNft(u)
  PROVE  Promise!Deliver
<1>1. status \in {"InProgress", "Finished"} /\ u # Nobody
  BY UsersAssumption DEF ClaimLotNft, MayClaimLot, IInv, LotCustody
<1>2. IsEnded /\ IsEnded'
  BY DEF ClaimLotNft, MayClaimLot, IsEnded
<1>3. Phase = "closed" /\ Phase' = "closed"
  BY <1>1, <1>2 DEF Phase, ClaimLotNft
<1> QED
  BY <1>1, <1>3
     DEF Promise!Deliver, ClaimLotNft, MayClaimLot, bidVars, topVars, moneyVars

LEMMA ClaimRevenueKeepsPromise ==
  ASSUME IInv, NEW c \in Users, ClaimAuctionRevenue(c)
  PROVE  Promise!Pay
<1> USE DEF IInv
<1>1. PICK u \in bidders :
        /\ MayClaimRevenue(u)
        /\ treasury' = treasury + FeeAmount(escrow[u])
        /\ proceeds' = proceeds + (escrow[u] - FeeAmount(escrow[u]))
        /\ escrow' = [escrow EXCEPT ![u] = 0]
        /\ open' = open \ {u}
  BY DEF ClaimAuctionRevenue
<1>2. /\ u \in Users /\ u \in open /\ u = top_bidder /\ u # Nobody
      /\ escrow[u] = top_bid /\ escrow[u] \in Nat /\ IsEnded
  BY <1>1, UsersAssumption DEF TypeOK, MayClaimRevenue, TopBidDominates
<1>3. FeeAmount(escrow[u]) \in Nat
  BY <1>2, FeeAmountNat
<1>4. treasury + proceeds = 0 /\ treasury' + proceeds' = top_bid
  BY <1>1, <1>2, <1>3 DEF PaidOnce, TypeOK
<1>5. status \in {"InProgress", "Finished"} /\ status' = "Finished"
  BY <1>1, <1>2 DEF ClaimAuctionRevenue, MayClaimRevenue, TypeOK,
                    StatusIsHonest
<1>6. IsEnded'
  BY <1>2 DEF ClaimAuctionRevenue, IsEnded
<1>7. Phase = "closed" /\ Phase' = "closed"
  BY <1>2, <1>5, <1>6 DEF Phase
<1>8. Stake[u] = top_bid /\ Stake' = [Stake EXCEPT ![u] = 0]
  BY <1>1, <1>2 DEF ClaimAuctionRevenue, MayClaimRevenue, TypeOK, Stake
<1> QED
  BY <1>1, <1>2, <1>4, <1>7, <1>8
     DEF Promise!Pay, ClaimAuctionRevenue, topVars, lotVars, Stake

LEMMA OutsideKeepsPromise ==
  ASSUME IInv,
         \/ \E c \in Configs : UpdateConfigs(c)
         \/ \E u \in Users, n \in Gifts : Deposit(u, n)
         \/ DepositLot
         \/ Tick
         \/ UNCHANGED vars
  PROVE  Promise!Close \/ UNCHANGED Promise!vars
<1>1. /\ UNCHANGED <<status, expired_timestamp, top_bid, top_bidder, open, bid,
                     lot, treasury, proceeds>>
      /\ now' \in {now, now + 1}
  BY DEF UpdateConfigs, Deposit, DepositLot, Tick, vars, topVars, bidVars,
         lotVars, moneyVars
<1>2. IsEnded => IsEnded'
  BY <1>1 DEF IInv, TypeOK, IsEnded
<1>3. Phase' = Phase \/ (Phase = "open" /\ Phase' = "closed")
  BY <1>1, <1>2 DEF Phase, IInv, TypeOK
<1> QED
  BY <1>1, <1>3 DEF Promise!Close, Promise!vars

LEMMA StepKeepsPromise ==
  ASSUME IInv, [Next]_vars
  PROVE  [Promise!Next]_(Promise!vars)
<1>1. ASSUME NEW d \in Durations, NEW s \in StartBids, CreateAuction(d, s)
      PROVE  Promise!Next
  BY <1>1, CreateKeepsPromise DEF Promise!Next
<1>2. ASSUME NEW u \in Users, NEW b \in Amounts, NEW m \in Amounts,
             MakeBid(u, b, m)
      PROVE  Promise!Next
  BY <1>2, BidKeepsPromise DEF Promise!Next
<1>3. ASSUME NEW u \in Users, CancelAuctionBid(u)
      PROVE  Promise!Next
  BY <1>3, RefundKeepsPromise DEF Promise!Next
<1>4. CASE CancelAuction
  BY <1>4, CancelKeepsPromise DEF Promise!Next
<1>5. ASSUME NEW u \in Users, ClaimLotNft(u)
      PROVE  Promise!Next
  BY <1>5, ClaimLotKeepsPromise DEF Promise!Next
<1>6. ASSUME NEW u \in Users, ClaimAuctionRevenue(u)
      PROVE  Promise!Next
  BY <1>6, ClaimRevenueKeepsPromise DEF Promise!Next
<1>7. CASE \/ \E c \in Configs : UpdateConfigs(c)
           \/ \E u \in Users, n \in Gifts : Deposit(u, n)
           \/ DepositLot
           \/ Tick
           \/ UNCHANGED vars
  BY <1>7, OutsideKeepsPromise DEF Promise!Next
<1> QED
  BY <1>1, <1>2, <1>3, <1>4, <1>5, <1>6, <1>7 DEF Next

(* The instructions implement the auction of AuctionPromise, for every     *)
(* number of users, all amounts, rates, durations and updates: the lead    *)
(* cannot be withdrawn, nobody bids after the close, and price and lot     *)
(* change hands once each.                                                 *)
THEOREM AuctionKeepsPromise == Spec => KeepsPromise
<1>1. Init => Promise!Init
  BY AmountsAssumption DEF Init, Promise!Init, Phase
<1>2. IInv /\ [Next]_vars => [Promise!Next]_(Promise!vars)
  BY StepKeepsPromise
<1> QED
  BY <1>1, <1>2, Invariance, PTL DEF Spec, KeepsPromise, Promise!Spec
=============================================================================
