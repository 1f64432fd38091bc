---------------------------- MODULE RaffleProof ----------------------------
(***************************************************************************)
(* Theorems of Raffle, for any users, prices, supplies, numbers of rewards *)
(* and configurations, in production and in the test environment. IInv is  *)
(* inductive. What a claim may take rests on the drawing (winners are      *)
(* different holders of tickets), what the drawing may pick on the sale    *)
(* (positions are different, without gaps), and what a cancellation may    *)
(* return on both: a finished raffle has a buyer, so it is not cancelable. *)
(***************************************************************************)
EXTENDS Raffle, ArithmeticProof, FunctionTheorems

(* The creator buys nothing, nobody holds more than was sold, before the   *)
(* account exists nothing does, and a raffle in progress has its rewards.  *)
SaleShape ==
  /\ \A u \in Users : total_num_tickets[u] <= ticket_sold
  /\ ~HasPosition(Creator)
  /\ status # "NotCreated" => num_raffled_nfts # 0
  /\ status = "NotCreated" =>
       /\ ticket_sold = 0
       /\ ~rewards_open /\ rewards_escrow = 0
       /\ revenue_deposits = 0 /\ reward_deposits = 0
  /\ status = "InProgress" =>
       /\ rewards_open
       /\ rewards_escrow = num_raffled_nfts + reward_deposits

IInv ==
  /\ TypeOK
  /\ SaleShape
  /\ PositionsMatchStats
  /\ RevenueBacked
  /\ BuyersPayTheirTickets
  /\ RevenuePaidOnce
  /\ WinnersHoldTickets
  /\ RewardsReserved
  /\ OneRewardEach
  /\ CancelReturnsAll
  /\ StatusIsHonest
-----------------------------------------------------------------------------
(* Costs of purchases add up, and nothing costs nothing.                   *)
LEMMA CostAdds ==
  ASSUME NEW a \in Nat, NEW b \in Nat, NEW p \in Nat
  PROVE  /\ a * p \in Nat /\ b * p \in Nat
         /\ (a + b) * p = a * p + b * p
         /\ 0 * p = 0
BY SMT

LEMMA FeeAmountNat ==
  ASSUME TypeOK
  PROVE  FeeAmount \in Nat
BY PortionNat DEF TypeOK, ConfigRecord, FeeAmount

(* Without tickets sold nobody has a position; so before the account too.  *)
LEMMA UnsoldNoPositions ==
  ASSUME IInv, ticket_sold = 0
  PROVE  /\ \A u \in Users : total_num_tickets[u] = 0 /\ ~HasPosition(u)
BY DEF IInv, SaleShape, TypeOK, HasPosition

(* In production an unfinished raffle has no winners and no bit is set.    *)
LEMMA UndrawnIsClean ==
  ASSUME IInv, status # "Finished", ~IsTestEnvironment
  PROVE  winner_ids = <<>> /\ claim_mask = {} /\ Len(winner_ids) = 0
<1>1. Len(winner_ids) = 0
  BY DEF IInv, StatusIsHonest, HasWinners, TypeOK
<1>2. winner_ids = <<>>
  BY <1>1 DEF IInv, TypeOK
<1>3. claim_mask = {}
  BY <1>1 DEF IInv, RewardsReserved
<1> QED
  BY <1>1, <1>2, <1>3

(* In production a raffle that can be cancelled is in progress.            *)
LEMMA CancelableInProgress ==
  ASSUME IInv, MayCancel, ~IsTestEnvironment
  PROVE  status = "InProgress"
<1>1. status # "Cancelled"
  BY DEF IInv, CancelReturnsAll, MayCancel
<1>2. ASSUME status = "Finished"
      PROVE  FALSE
  <2>1. 1 \in 1..Len(winner_ids)
    BY <1>2 DEF IInv, StatusIsHonest, HasWinners, TypeOK
  <2>2. PICK u \in Users : HasPosition(u)
    BY <1>2, <2>1 DEF IInv, WinnersHoldTickets
  <2> QED
    BY <2>2, UnsoldNoPositions DEF MayCancel
<1> QED
  BY <1>1, <1>2 DEF MayCancel, IInv, TypeOK
-----------------------------------------------------------------------------
LEMMA InitIInv == Init => IInv
<1> SUFFICES ASSUME Init PROVE IInv
  OBVIOUS
<1> USE UsersAssumption, AmountsAssumption, ConfigsAssumption DEF Init
<1>1. TypeOK
  <2>1. nfts \in [Users -> Nat]
    BY AmountsAssumption
  <2>2. ticket_positions \in Seq(Nat) /\ winner_ids \in Seq(Nat)
    OBVIOUS
  <2>3. fee_paid \in [FeeOwners -> Nat]
    OBVIOUS
  <2> QED
    BY <2>1, <2>2, <2>3 DEF TypeOK
<1>2. SaleShape /\ PositionsMatchStats
  BY DEF SaleShape, PositionsMatchStats, HasPosition
<1>3. RevenueBacked /\ RevenuePaidOnce
  BY DEF RevenueBacked, RevenuePaidOnce, Takings
<1>4. BuyersPayTheirTickets
  BY DEF BuyersPayTheirTickets
<1>5. WinnersHoldTickets /\ OneRewardEach /\ CancelReturnsAll /\ StatusIsHonest
  BY DEF WinnersHoldTickets, OneRewardEach, CancelReturnsAll, StatusIsHonest,
         HasPosition, HasWinners
<1>6. RewardsReserved
  BY DEF RewardsReserved
<1> QED
  BY <1>1, <1>2, <1>3, <1>4, <1>5, <1>6 DEF IInv

LEMMA CreateRaffleIInv ==
  ASSUME IInv, NEW d \in Durations, NEW s \in Supplies, NEW p \in Prices,
         NEW n \in RewardCounts, CreateRaffle(d, s, p, n)
  PROVE  IInv'
<1> USE UsersAssumption, AmountsAssumption
    DEF CreateRaffle, ValidTerms, saleVars, drawVars
<1>0. /\ ticket_sold = 0 /\ rewards_escrow = 0 /\ status = "NotCreated"
      /\ revenue_deposits = 0 /\ reward_deposits = 0
      /\ n \in Nat /\ p \in Nat /\ n # 0
  BY DEF IInv, SaleShape
<1>1. \A u \in Users : total_num_tickets[u] = 0 /\ ~HasPosition(u)
  BY <1>0, UnsoldNoPositions
<1>2. TypeOK'
  <2>1. nfts' \in [Users -> Nat]
    BY <1>0 DEF IInv, TypeOK
  <2>2. /\ ticket_supply' \in Nat /\ ticket_price' \in Nat
        /\ num_raffled_nfts' \in Nat /\ rewards_escrow' \in Nat
        /\ expired_timestamp' \in Nat
    BY <1>0 DEF IInv, TypeOK
  <2> QED
    BY <2>1, <2>2 DEF IInv, TypeOK
<1>3. SaleShape'
  BY <1>0, <1>1 DEF IInv, SaleShape, HasPosition
<1>4. PositionsMatchStats'
  BY DEF IInv, PositionsMatchStats, HasPosition
<1>5. RevenueBacked'
  <2>1. revenue_escrow = 0
    BY <1>0 DEF IInv, RevenueBacked, RevenuePaidOnce
  <2>2. 0 * ticket_price' = 0
    BY <1>0, CostAdds
  <2> QED
    BY <1>0, <2>1, <2>2 DEF RevenueBacked, Takings
<1>6. BuyersPayTheirTickets'
  <2>1. 0 * ticket_price = 0 /\ 0 * ticket_price' = 0
    BY <1>0, CostAdds DEF IInv, TypeOK
  <2>2. ASSUME NEW u \in Users
        PROVE  wallet'[u] = Endowment[u] - total_num_tickets'[u] * ticket_price'
    BY <1>1, <2>1 DEF IInv, BuyersPayTheirTickets
  <2> QED
    BY <2>2 DEF BuyersPayTheirTickets
<1>7. RevenuePaidOnce'
  BY <1>0 DEF IInv, RevenuePaidOnce
<1>8. ASSUME ~IsTestEnvironment
      PROVE  winner_ids = <<>> /\ claim_mask = {} /\ Len(winner_ids) = 0
  BY <1>0, <1>8, UndrawnIsClean
<1>9. RewardsReserved'
  BY <1>0, <1>8 DEF RewardsReserved, IsTestEnvironment, IInv
<1>10. OneRewardEach'
  BY <1>1, <1>8
     DEF IInv, OneRewardEach, HasPosition, IsTestEnvironment, TypeOK
<1>11. CancelReturnsAll'
  BY <1>0 DEF IInv, CancelReturnsAll, IsTestEnvironment, TypeOK
<1>12. StatusIsHonest' /\ WinnersHoldTickets'
  BY <1>0, <1>8 DEF IInv, StatusIsHonest, WinnersHoldTickets, HasWinners,
                    IsTestEnvironment
<1> QED
  BY <1>2, <1>3, <1>4, <1>5, <1>6, <1>7, <1>9, <1>10, <1>11, <1>12 DEF IInv

(* A purchase happens before the end, so in progress.                      *)
LEMMA BuyInProgress ==
  ASSUME IInv, NEW u \in Users, NEW n \in Counts, BuyRaffleTickets(u, n)
  PROVE  status = "InProgress" /\ n \in Nat /\ n # 0
BY AmountsAssumption
   DEF IInv, StatusIsHonest, BuyRaffleTickets, ValidPurchase, IsCancelled,
       TypeOK

(* First purchase: a new position with the next free id and its own entry; *)
(* later ones: the entry at the buyer's id grows with the position.        *)
LEMMA BuyPositions ==
  ASSUME IInv, NEW u \in Users, NEW n \in Counts, BuyRaffleTickets(u, n)
  PROVE  PositionsMatchStats' /\ ticket_positions' \in Seq(Nat)
<1>0. /\ n \in Nat /\ n # 0
      /\ total_num_tickets \in [Users -> Nat]
      /\ position_id \in [Users -> Nat]
      /\ ticket_positions \in Seq(Nat)
      /\ num_ticket_positions \in Nat
  BY BuyInProgress DEF IInv, TypeOK
<1>1. PositionsMatchStats
  BY DEF IInv
<1>2. /\ total_num_tickets' = [total_num_tickets EXCEPT ![u] = @ + n]
      /\ ticket_positions' = StatsAfter(u, n)
      /\ IF HasPosition(u)
         THEN UNCHANGED <<position_id, num_ticket_positions>>
         ELSE /\ position_id' = [position_id EXCEPT ![u] = num_ticket_positions]
              /\ num_ticket_positions' = num_ticket_positions + 1
  BY DEF BuyRaffleTickets
<1>3. /\ HasPosition(u)'
      /\ \A v \in Users : v # u => /\ total_num_tickets'[v] = total_num_tickets[v]
                                   /\ HasPosition(v)' <=> HasPosition(v)
      /\ total_num_tickets'[u] = total_num_tickets[u] + n
  BY <1>0, <1>2 DEF HasPosition
<1>4. CASE HasPosition(u)
  <2>1. /\ position_id[u] + 1 \in 1..Len(ticket_positions)
        /\ ticket_positions[position_id[u] + 1] = total_num_tickets[u]
    BY <1>0, <1>1, <1>4 DEF PositionsMatchStats
  <2>2. /\ ticket_positions' =
             [ticket_positions EXCEPT ![position_id[u] + 1] = @ + n]
        /\ UNCHANGED <<position_id, num_ticket_positions>>
    BY <1>2, <1>4 DEF StatsAfter
  <2>3. /\ ticket_positions' \in Seq(Nat)
        /\ Len(ticket_positions') = Len(ticket_positions)
        /\ ticket_positions'[position_id[u] + 1] = total_num_tickets'[u]
        /\ \A i \in 1..Len(ticket_positions) :
             i # position_id[u] + 1 =>
               ticket_positions'[i] = ticket_positions[i]
    BY <1>0, <1>3, <2>1, <2>2
  <2>4. ASSUME NEW v \in Users, HasPosition(v)'
        PROVE  /\ position_id'[v] < num_ticket_positions'
               /\ ticket_positions'[position_id'[v] + 1] = total_num_tickets'[v]
    <3>1. CASE v = u
      BY <3>1, <2>1, <2>2, <2>3, <1>0, <1>1 DEF PositionsMatchStats
    <3>2. CASE v # u
      <4>1. HasPosition(v) /\ position_id[v] # position_id[u]
        BY <3>2, <2>4, <1>1, <1>3, <1>4 DEF PositionsMatchStats
      <4>2. /\ position_id[v] + 1 \in 1..Len(ticket_positions)
            /\ ticket_positions[position_id[v] + 1] = total_num_tickets[v]
            /\ position_id[v] < num_ticket_positions
        BY <4>1, <1>0, <1>1 DEF PositionsMatchStats
      <4>3. position_id[v] + 1 # position_id[u] + 1
        BY <4>1, <1>0
      <4> QED
        BY <3>2, <4>2, <4>3, <2>2, <2>3, <1>3
    <3> QED
      BY <3>1, <3>2
  <2>5. /\ \A v, w \in Users :
             HasPosition(v)' /\ HasPosition(w)'
               /\ position_id'[v] = position_id'[w] => v = w
        /\ \A i \in 0..(num_ticket_positions' - 1) :
             \E v \in Users : HasPosition(v)' /\ position_id'[v] = i
    <3>1. \A v \in Users : HasPosition(v)' <=> HasPosition(v)
      BY <1>3, <1>4
    <3> QED
      BY <3>1, <1>1, <2>2 DEF PositionsMatchStats
  <2> QED
    BY <1>1, <2>2, <2>3, <2>4, <2>5 DEF PositionsMatchStats
<1>5. CASE ~HasPosition(u)
  <2>1. /\ ticket_positions' = Append(ticket_positions, n)
        /\ position_id' = [position_id EXCEPT ![u] = num_ticket_positions]
        /\ num_ticket_positions' = num_ticket_positions + 1
        /\ total_num_tickets'[u] = n
    BY <1>0, <1>2, <1>3, <1>5 DEF StatsAfter, HasPosition
  <2>2. /\ ticket_positions' \in Seq(Nat)
        /\ Len(ticket_positions') = num_ticket_positions'
        /\ ticket_positions'[num_ticket_positions + 1] = n
        /\ \A i \in 1..num_ticket_positions :
             ticket_positions'[i] = ticket_positions[i]
    BY <1>0, <1>1, <2>1 DEF PositionsMatchStats
  <2>3. /\ position_id'[u] = num_ticket_positions
        /\ \A v \in Users : v # u => position_id'[v] = position_id[v]
    BY <1>0, <2>1
  <2>4. ASSUME NEW v \in Users, HasPosition(v)'
        PROVE  /\ position_id'[v] < num_ticket_positions'
               /\ ticket_positions'[position_id'[v] + 1] = total_num_tickets'[v]
    <3>1. CASE v = u
      BY <3>1, <1>0, <2>1, <2>2, <2>3
    <3>2. CASE v # u
      <4>1. /\ position_id[v] + 1 \in 1..num_ticket_positions
            /\ ticket_positions[position_id[v] + 1] = total_num_tickets[v]
            /\ position_id[v] < num_ticket_positions
        BY <3>2, <2>4, <1>0, <1>1, <1>3 DEF PositionsMatchStats
      <4> QED
        BY <3>2, <4>1, <1>0, <1>3, <2>1, <2>2, <2>3
    <3> QED
      BY <3>1, <3>2
  <2>5. ASSUME NEW v \in Users, NEW w \in Users, HasPosition(v)',
               HasPosition(w)', position_id'[v] = position_id'[w]
        PROVE  v = w
    <3>1. \A x \in Users :
            x # u /\ HasPosition(x)' => HasPosition(x)
              /\ position_id'[x] < num_ticket_positions
      BY <1>1, <1>3, <2>3 DEF PositionsMatchStats
    <3>2. CASE v = u \/ w = u
      BY <3>1, <3>2, <2>3, <2>5, <1>0
    <3>3. CASE v # u /\ w # u
      BY <3>1, <3>3, <2>3, <2>5, <1>1 DEF PositionsMatchStats
    <3> QED
      BY <3>2, <3>3
  <2>6. ASSUME NEW i \in 0..(num_ticket_positions' - 1)
        PROVE  \E v \in Users : HasPosition(v)' /\ position_id'[v] = i
    <3>1. CASE i = num_ticket_positions
      BY <3>1, <1>3, <2>3
    <3>2. CASE i # num_ticket_positions
      <4>1. i \in 0..(num_ticket_positions - 1)
        BY <3>2, <1>0, <2>1
      <4>2. PICK v \in Users : HasPosition(v) /\ position_id[v] = i
        BY <4>1, <1>1 DEF PositionsMatchStats
      <4> QED
        BY <4>2, <1>3, <1>5, <2>3
    <3> QED
      BY <3>1, <3>2
  <2> QED
    BY <2>2, <2>4, <2>5, <2>6 DEF PositionsMatchStats
<1> QED
  BY <1>4, <1>5

LEMMA BuyRaffleTicketsIInv ==
  ASSUME IInv, NEW u \in Users, NEW n \in Counts, BuyRaffleTickets(u, n)
  PROVE  IInv'
<1>0. /\ status = "InProgress" /\ n \in Nat /\ n # 0
      /\ u # Creator /\ revenue_open /\ Cost(n) <= wallet[u]
  BY BuyInProgress DEF BuyRaffleTickets, ValidPurchase
<1>1. /\ total_num_tickets' = [total_num_tickets EXCEPT ![u] = @ + n]
      /\ wallet' = [wallet EXCEPT ![u] = @ - Cost(n)]
      /\ revenue_escrow' = revenue_escrow + Cost(n)
      /\ ticket_sold' = ticket_sold + n
      /\ UNCHANGED <<now, cfg, status, expired_timestamp, ticket_supply,
                     ticket_price, num_raffled_nfts, winner_ids, claim_mask,
                     revenue_open, fee_paid, proceeds, revenue_deposits,
                     rewards_open, rewards_escrow, nfts, reward_deposits>>
  BY DEF BuyRaffleTickets, termVars, drawVars, rewardVars
<1>2. /\ total_num_tickets'[u] = total_num_tickets[u] + n
      /\ wallet'[u] = wallet[u] - Cost(n)
      /\ \A v \in Users : v # u => /\ total_num_tickets'[v] = total_num_tickets[v]
                                   /\ wallet'[v] = wallet[v]
  BY <1>1 DEF IInv, TypeOK
<1>3. /\ Cost(n) = n * ticket_price /\ Cost(n) \in Nat
      /\ (ticket_sold + n) * ticket_price =
           ticket_sold * ticket_price + n * ticket_price
      /\ ticket_sold * ticket_price \in Nat
  BY <1>0, CostAdds DEF Cost, IInv, TypeOK
<1>4. /\ (total_num_tickets[u] + n) * ticket_price =
           total_num_tickets[u] * ticket_price + n * ticket_price
      /\ total_num_tickets[u] * ticket_price \in Nat
  BY <1>0, CostAdds DEF IInv, TypeOK
<1>5. TypeOK'
  <2>1. wallet' \in [Users -> Nat]
    BY <1>0, <1>1, <1>3 DEF IInv, TypeOK
  <2>2. total_num_tickets' \in [Users -> Nat]
    BY <1>0, <1>1 DEF IInv, TypeOK
  <2>3. position_id' \in [Users -> Nat] /\ num_ticket_positions' \in Nat
    <3>1. position_id \in [Users -> Nat] /\ num_ticket_positions \in Nat
      BY DEF IInv, TypeOK
    <3>2. \/ UNCHANGED <<position_id, num_ticket_positions>>
          \/ /\ position_id' =
                  [position_id EXCEPT ![u] = num_ticket_positions]
             /\ num_ticket_positions' = num_ticket_positions + 1
      BY DEF BuyRaffleTickets
    <3> QED
      BY <3>1, <3>2
  <2>4. ticket_sold' \in Nat /\ revenue_escrow' \in Nat
    <3>1. Cost(n) \in Nat
      BY <1>3
    <3> QED
      BY <1>0, <1>1, <3>1 DEF IInv, TypeOK
  <2>5. ticket_positions' \in Seq(Nat)
    BY BuyPositions
  <2> QED
    BY <1>1, <2>1, <2>2, <2>3, <2>4, <2>5 DEF IInv, TypeOK
<1>6. SaleShape'
  <2>1. ASSUME NEW v \in Users
        PROVE  total_num_tickets'[v] <= ticket_sold'
    <3>1. /\ total_num_tickets[v] <= ticket_sold
          /\ total_num_tickets[v] \in Nat /\ ticket_sold \in Nat
      BY DEF IInv, SaleShape, TypeOK
    <3>2. total_num_tickets'[v] \in {total_num_tickets[v],
                                     total_num_tickets[v] + n}
      BY <1>2
    <3> QED
      BY <1>0, <1>1, <3>1, <3>2
  <2>2. ~HasPosition(Creator)'
    BY <1>0, <1>2, UsersAssumption DEF IInv, SaleShape, HasPosition
  <2> QED
    BY <1>0, <1>1, <2>1, <2>2 DEF IInv, SaleShape
<1>7. PositionsMatchStats'
  BY BuyPositions
<1>8. RevenueBacked'
  <2>1. /\ Takings' = Takings + Cost(n)
        /\ revenue_escrow = Takings
    BY <1>0, <1>1, <1>3 DEF IInv, TypeOK, RevenueBacked, Takings
  <2> QED
    BY <1>0, <1>1, <2>1 DEF RevenueBacked
<1>9. BuyersPayTheirTickets'
  <2>1. wallet'[u] = Endowment[u] - total_num_tickets'[u] * ticket_price'
    <3>1. wallet[u] = Endowment[u] - total_num_tickets[u] * ticket_price
      BY DEF IInv, BuyersPayTheirTickets
    <3>2. Endowment[u] \in Nat
      BY AmountsAssumption
    <3> QED
      BY <1>1, <1>2, <1>3, <1>4, <3>1, <3>2
  <2>2. ASSUME NEW v \in Users, v # u
        PROVE  wallet'[v] = Endowment[v] - total_num_tickets'[v] * ticket_price'
    BY <1>1, <1>2, <2>2 DEF IInv, BuyersPayTheirTickets
  <2> QED
    BY <2>1, <2>2 DEF BuyersPayTheirTickets
<1>10. RevenuePaidOnce'
  BY <1>0, <1>1 DEF IInv, RevenuePaidOnce
<1>11. OneRewardEach'
  <2>1. ASSUME ~IsTestEnvironment
        PROVE  claim_mask = {}
    BY <1>0, <2>1, UndrawnIsClean
  <2> QED
    BY <1>1, <2>1 DEF IInv, OneRewardEach, IsTestEnvironment
<1>12. RewardsReserved' /\ WinnersHoldTickets' /\ StatusIsHonest'
  BY <1>0, <1>1 DEF IInv, RewardsReserved, WinnersHoldTickets, StatusIsHonest,
                    IsTestEnvironment, HasWinners, IsEnded
<1>13. CancelReturnsAll'
  BY <1>0, <1>1 DEF IInv, CancelReturnsAll, IsTestEnvironment
<1> QED
  BY <1>5, <1>6, <1>7, <1>8, <1>9, <1>10, <1>11, <1>12, <1>13 DEF IInv

LEMMA CancelRaffleIInv ==
  ASSUME IInv, CancelRaffle
  PROVE  IInv'
<1>0. /\ MayCancel
      /\ nfts' = [nfts EXCEPT ![Creator] = @ + NumRemainingRewards]
      /\ rewards_escrow' = rewards_escrow - NumRemainingRewards
      /\ rewards_open' = (rewards_escrow' # 0)
      /\ revenue_open' = FALSE /\ status' = "Cancelled"
      /\ UNCHANGED <<now, cfg, expired_timestamp, ticket_supply, ticket_price,
                     num_raffled_nfts, ticket_sold, num_ticket_positions,
                     ticket_positions, position_id, total_num_tickets, wallet,
                     winner_ids, claim_mask, revenue_escrow, fee_paid,
                     proceeds, revenue_deposits, reward_deposits>>
  BY DEF CancelRaffle, termVars, saleVars, drawVars
<1>1. /\ NumRemainingRewards \in Nat /\ NumRemainingRewards <= rewards_escrow
      /\ rewards_escrow \in Nat /\ rewards_escrow' \in Nat
  BY <1>0 DEF MayCancel, NumRemainingRewards, IInv, TypeOK
<1>2. TypeOK'
  <2>1. nfts' \in [Users -> Nat]
    BY <1>0, <1>1, UsersAssumption DEF IInv, TypeOK
  <2> QED
    BY <1>0, <1>1, <2>1 DEF IInv, TypeOK
<1>3. SaleShape' /\ PositionsMatchStats' /\ BuyersPayTheirTickets'
  BY <1>0 DEF IInv, SaleShape, PositionsMatchStats, BuyersPayTheirTickets,
              HasPosition, MayCancel
<1>4. RevenueBacked' /\ RevenuePaidOnce'
  BY <1>0 DEF MayCancel, IInv, RevenueBacked, RevenuePaidOnce
<1>5. WinnersHoldTickets' /\ StatusIsHonest'
  BY <1>0, CancelableInProgress
     DEF IInv, StatusIsHonest, WinnersHoldTickets, HasWinners,
         IsTestEnvironment, IsEnded
<1>6. ASSUME ~IsTestEnvironment
      PROVE  /\ status = "InProgress"
             /\ Len(winner_ids) = 0 /\ claim_mask = {}
             /\ rewards_escrow' = reward_deposits
             /\ nfts'[Creator] = CreatorNfts
  <2>1. status = "InProgress"
    BY <1>0, <1>6, CancelableInProgress
  <2>2. Len(winner_ids) = 0 /\ claim_mask = {}
    BY <1>6, <2>1, UndrawnIsClean
  <2>3. /\ rewards_escrow = num_raffled_nfts + reward_deposits
        /\ nfts[Creator] = CreatorNfts - num_raffled_nfts
    BY <1>6, <2>1 DEF IInv, RewardsReserved, CancelReturnsAll
  <2>4. nfts'[Creator] = nfts[Creator] + NumRemainingRewards
    BY <1>0, UsersAssumption DEF IInv, TypeOK
  <2> QED
    BY <1>0, <1>1, <2>1, <2>2, <2>3, <2>4, AmountsAssumption
       DEF NumRemainingRewards, IInv, TypeOK
<1>7. RewardsReserved' /\ CancelReturnsAll'
  BY <1>0, <1>6 DEF RewardsReserved, CancelReturnsAll, IsTestEnvironment,
                    MayCancel
<1>8. OneRewardEach'
  <2>1. \A u \in Users \ {Creator} : nfts'[u] = nfts[u]
    BY <1>0 DEF IInv, TypeOK
  <2> QED
    BY <1>0, <2>1 DEF IInv, OneRewardEach, IsTestEnvironment, HasPosition
<1> QED
  BY <1>2, <1>3, <1>4, <1>5, <1>7, <1>8 DEF IInv

(* A drawing or winners set by hand change the winners and the status only.*)
LEMMA WinnersSetIInv ==
  ASSUME IInv,
         status \notin {"NotCreated", "Cancelled"}, IsEnded,
         winner_ids' \in Seq(Nat),
         status' = "Finished",
         UNCHANGED <<now, cfg, termVars, saleVars, claim_mask, moneyVars,
                     rewardVars>>,
         ~IsTestEnvironment =>
           /\ status = "InProgress"
           /\ winner_ids' \in Draws
           /\ Len(winner_ids') = num_raffled_nfts
  PROVE  IInv'
<1>0. UNCHANGED <<now, cfg, expired_timestamp, ticket_supply, ticket_price,
                  num_raffled_nfts, ticket_sold, num_ticket_positions,
                  ticket_positions, position_id, total_num_tickets, wallet,
                  claim_mask, revenue_open, revenue_escrow, fee_paid, proceeds,
                  revenue_deposits, rewards_open, rewards_escrow, nfts,
                  reward_deposits>>
  BY DEF termVars, saleVars, moneyVars, rewardVars
<1>1. TypeOK'
  BY <1>0 DEF IInv, TypeOK
<1>2. SaleShape' /\ PositionsMatchStats' /\ BuyersPayTheirTickets'
      /\ RevenueBacked'
  BY <1>0 DEF IInv, SaleShape, PositionsMatchStats, BuyersPayTheirTickets,
              RevenueBacked, Takings, HasPosition
<1>3. RevenuePaidOnce'
  BY <1>0 DEF IInv, RevenuePaidOnce, Takings, TypeOK
<1>4. ASSUME ~IsTestEnvironment
      PROVE  /\ \A k \in 1..Len(winner_ids') :
                  \E u \in Users :
                    HasPosition(u) /\ position_id[u] = winner_ids'[k]
             /\ \A j, k \in 1..Len(winner_ids') :
                  winner_ids'[j] = winner_ids'[k] => j = k
             /\ claim_mask = {}
  <2>1. /\ num_raffled_nfts \in Nat /\ num_ticket_positions \in Nat
        /\ \A k \in 1..num_raffled_nfts :
             winner_ids'[k] \in 0..(num_ticket_positions - 1)
        /\ \A j, k \in 1..num_raffled_nfts :
             j < k => winner_ids'[j] < winner_ids'[k]
    BY <1>4 DEF IInv, TypeOK, Draws
  <2>2. ASSUME NEW k \in 1..Len(winner_ids')
        PROVE  \E u \in Users :
                 HasPosition(u) /\ position_id[u] = winner_ids'[k]
    BY <1>4, <2>1 DEF IInv, PositionsMatchStats
  <2>3. ASSUME NEW j \in 1..num_raffled_nfts, NEW k \in 1..num_raffled_nfts,
               winner_ids'[j] = winner_ids'[k]
        PROVE  j = k
    <3>1. /\ j \in Nat /\ k \in Nat
          /\ winner_ids'[j] \in Int /\ winner_ids'[k] \in Int
      BY <2>1
    <3>2. ~(j < k) /\ ~(k < j)
      BY <2>1, <2>3, <3>1
    <3> QED
      BY <3>1, <3>2
  <2> QED
    BY <1>4, <2>2, <2>3, UndrawnIsClean
<1>5. WinnersHoldTickets'
  BY <1>0, <1>4 DEF WinnersHoldTickets, IsTestEnvironment, HasPosition
<1>6. RewardsReserved'
  <2>1. SUFFICES ASSUME ~IsTestEnvironment
                 PROVE  /\ claim_mask' \subseteq 1..Len(winner_ids')
                        /\ rewards_escrow' =
                             Len(winner_ids') - Cardinality(claim_mask')
                               + reward_deposits'
                        /\ rewards_open' <=> rewards_escrow' # 0
    BY <1>0 DEF RewardsReserved, IsTestEnvironment
  <2>2. claim_mask' = {} /\ Cardinality(claim_mask') = 0
    BY <1>0, <1>4, <2>1, FS_EmptySet
  <2>3. /\ rewards_escrow = num_raffled_nfts + reward_deposits
        /\ rewards_open <=> rewards_escrow # 0
    BY <2>1 DEF IInv, RewardsReserved
  <2>4. /\ num_raffled_nfts \in Nat /\ reward_deposits \in Nat
        /\ Len(winner_ids') = num_raffled_nfts
    BY <2>1 DEF IInv, TypeOK
  <2>5. rewards_escrow' = Len(winner_ids') - Cardinality(claim_mask')
                            + reward_deposits'
    BY <1>0, <2>2, <2>3, <2>4
  <2> QED
    BY <1>0, <2>2, <2>3, <2>5
<1>7. OneRewardEach'
  BY <1>0, <1>4 DEF IInv, OneRewardEach, IsTestEnvironment, HasPosition
<1>8. CancelReturnsAll'
  BY <1>0 DEF IInv, CancelReturnsAll, IsTestEnvironment
<1>9. StatusIsHonest'
  BY <1>0 DEF IInv, StatusIsHonest, IsTestEnvironment, IsEnded, HasWinners,
              SaleShape, TypeOK
<1> QED
  BY <1>1, <1>2, <1>3, <1>5, <1>6, <1>7, <1>8, <1>9 DEF IInv

LEMMA MakeRaffleIInv ==
  ASSUME IInv, NEW rerun \in BOOLEAN, MakeRaffle(rerun)
  PROVE  IInv'
<1>1. winner_ids' \in Draws /\ MayMake(rerun)
  BY DEF MakeRaffle
<1>2. /\ winner_ids' \in Seq(Nat) /\ Len(winner_ids') = num_raffled_nfts
  <2>1. /\ num_raffled_nfts \in Nat /\ num_ticket_positions \in Nat
        /\ winner_ids' \in [1..num_raffled_nfts -> 0..(num_ticket_positions - 1)]
    BY <1>1 DEF Draws, IInv, TypeOK
  <2>2. winner_ids' \in [1..num_raffled_nfts -> Nat]
    BY <2>1
  <2> QED
    BY <2>1, <2>2
<1>3. ~IsTestEnvironment => status = "InProgress"
  BY <1>1 DEF MayMake, IInv, StatusIsHonest, TypeOK, IsCancelled
<1> QED
  BY <1>1, <1>2, <1>3, WinnersSetIInv DEF MakeRaffle, MayMake, IsCancelled

LEMMA SetRaffleWinnersIInv ==
  ASSUME IInv, NEW ids \in WinnerLists, SetRaffleWinners(ids)
  PROVE  IInv'
BY WinnersSetIInv, ConfigsAssumption DEF SetRaffleWinners, IsCancelled

LEMMA ClaimRaffleRevenueIInv ==
  ASSUME IInv, NEW t \in FeeOwners, ClaimRaffleRevenue(t)
  PROVE  IInv'
<1>0. /\ MayClaimRevenue
      /\ fee_paid' = [fee_paid EXCEPT ![t] = @ + FeeAmount]
      /\ proceeds' = proceeds + (revenue_escrow - FeeAmount)
      /\ revenue_escrow' = 0 /\ revenue_open' = FALSE
      /\ UNCHANGED <<now, cfg, status, expired_timestamp, ticket_supply,
                     ticket_price, num_raffled_nfts, ticket_sold,
                     num_ticket_positions, ticket_positions, position_id,
                     total_num_tickets, wallet, winner_ids, claim_mask,
                     revenue_deposits, rewards_open, rewards_escrow, nfts,
                     reward_deposits>>
  BY DEF ClaimRaffleRevenue, termVars, saleVars, drawVars, rewardVars
<1>1. /\ FeeAmount \in Nat /\ FeeAmount <= revenue_escrow
      /\ revenue_escrow \in Nat /\ status = "Finished" /\ revenue_open
  BY <1>0, FeeAmountNat
     DEF MayClaimRevenue, CanDistribute, IsRaffleMade, IInv, TypeOK
<1>2. TypeOK'
  <2>1. fee_paid' \in [FeeOwners -> Nat] /\ proceeds' \in Nat
    BY <1>0, <1>1 DEF IInv, TypeOK
  <2> QED
    BY <1>0, <2>1 DEF IInv, TypeOK
<1>3. SaleShape' /\ PositionsMatchStats' /\ BuyersPayTheirTickets'
  BY <1>0 DEF IInv, SaleShape, PositionsMatchStats, BuyersPayTheirTickets,
              HasPosition
<1>4. RevenueBacked'
  BY <1>0 DEF RevenueBacked
<1>5. RevenuePaidOnce'
  <2>1. /\ proceeds = 0 /\ \A v \in FeeOwners : fee_paid[v] = 0
        /\ revenue_escrow = Takings
    BY <1>1 DEF IInv, RevenuePaidOnce, RevenueBacked
  <2>2. /\ fee_paid'[t] = FeeAmount
        /\ \A v \in FeeOwners : v # t => fee_paid'[v] = 0
    BY <1>0, <1>1, <2>1 DEF IInv, TypeOK
  <2>3. proceeds' = revenue_escrow - FeeAmount
    BY <1>0, <1>1, <2>1
  <2>4. fee_paid'[t] + proceeds' = revenue_escrow
    BY <1>1, <2>2, <2>3
  <2>5. fee_paid'[t] + proceeds' = Takings'
    BY <1>0, <2>1, <2>4 DEF Takings
  <2> QED
    BY <1>0, <1>1, <2>2, <2>5 DEF RevenuePaidOnce
<1>6. WinnersHoldTickets' /\ RewardsReserved' /\ OneRewardEach'
      /\ CancelReturnsAll' /\ StatusIsHonest'
  BY <1>0, <1>1
     DEF IInv, WinnersHoldTickets, RewardsReserved, OneRewardEach,
         CancelReturnsAll, StatusIsHonest, IsTestEnvironment, HasPosition,
         HasWinners, IsEnded
<1> QED
  BY <1>2, <1>3, <1>4, <1>5, <1>6 DEF IInv

(* A claim sets a bit that was not set, of a winner who had no reward: the *)
(* bits are as many as the rewards that left.                              *)
LEMMA ClaimRaffleRewardIInv ==
  ASSUME IInv, NEW u \in Users, ClaimRaffleReward(u)
  PROVE  IInv'
<1>0. PICK k \in 1..Len(winner_ids) :
        MayClaimReward(u, k) /\ claim_mask' = claim_mask \cup {k}
  BY DEF ClaimRaffleReward
<1>1. /\ rewards_escrow' = rewards_escrow - 1
      /\ rewards_open' = (rewards_escrow' # 0)
      /\ nfts' = [nfts EXCEPT ![u] = @ + 1]
      /\ UNCHANGED <<now, cfg, status, expired_timestamp, ticket_supply,
                     ticket_price, num_raffled_nfts, ticket_sold,
                     num_ticket_positions, ticket_positions, position_id,
                     total_num_tickets, wallet, winner_ids, revenue_open,
                     revenue_escrow, fee_paid, proceeds, revenue_deposits,
                     reward_deposits>>
  BY DEF ClaimRaffleReward, termVars, saleVars, moneyVars
<1>2. /\ status = "Finished" /\ HasPosition(u) /\ k \notin claim_mask
      /\ winner_ids[k] = position_id[u] /\ rewards_escrow >= 1
  BY <1>0 DEF MayClaimReward, IsRaffleMade, IsWinnerIndex
<1>3. u # Creator
  BY <1>2 DEF IInv, SaleShape
<1>4. TypeOK'
  <2>1. rewards_escrow' \in Nat /\ rewards_open' \in BOOLEAN
    BY <1>1, <1>2 DEF IInv, TypeOK
  <2>2. nfts' \in [Users -> Nat]
    BY <1>1 DEF IInv, TypeOK
  <2>3. claim_mask' \subseteq Nat
    BY <1>0 DEF IInv, TypeOK
  <2> QED
    BY <1>1, <2>1, <2>2, <2>3 DEF IInv, TypeOK
<1>5. SaleShape' /\ PositionsMatchStats' /\ BuyersPayTheirTickets'
      /\ RevenueBacked'
  BY <1>1, <1>2 DEF IInv, SaleShape, PositionsMatchStats,
                    BuyersPayTheirTickets, RevenueBacked, Takings,
                    HasPosition
<1>6. RevenuePaidOnce'
  BY <1>1 DEF IInv, RevenuePaidOnce, Takings
<1>7. WinnersHoldTickets' /\ StatusIsHonest'
  BY <1>1 DEF IInv, WinnersHoldTickets, StatusIsHonest, IsTestEnvironment,
              HasPosition, HasWinners, IsEnded
<1>8. RewardsReserved'
  <2>1. SUFFICES ASSUME ~IsTestEnvironment
                 PROVE  /\ claim_mask' \subseteq 1..Len(winner_ids')
                        /\ rewards_escrow' =
                             Len(winner_ids') - Cardinality(claim_mask')
                               + reward_deposits'
                        /\ rewards_open' <=> rewards_escrow' # 0
    BY <1>1, <1>2 DEF RewardsReserved, IsTestEnvironment
  <2>2. /\ claim_mask \subseteq 1..Len(winner_ids)
        /\ rewards_escrow = Len(winner_ids) - Cardinality(claim_mask)
                               + reward_deposits
    BY <1>2, <2>1 DEF IInv, RewardsReserved
  <2>3. Len(winner_ids) \in Nat /\ reward_deposits \in Nat
    BY DEF IInv, TypeOK
  <2>4. IsFiniteSet(1..Len(winner_ids))
    BY <2>3, FS_Interval
  <2>5. IsFiniteSet(claim_mask)
    BY <2>2, <2>4, FS_Subset
  <2>6. Cardinality(claim_mask) \in Nat
    BY <2>5, FS_CardinalityType
  <2>7. Cardinality(claim_mask') = Cardinality(claim_mask) + 1
    BY <1>0, <1>2, <2>5, FS_AddElement
  <2>8. claim_mask' \subseteq 1..Len(winner_ids')
    BY <1>0, <1>1, <2>2
  <2>9. rewards_escrow' = Len(winner_ids') - Cardinality(claim_mask')
                            + reward_deposits'
    BY <1>1, <2>2, <2>3, <2>6, <2>7
  <2> QED
    BY <1>1, <2>8, <2>9
<1>9. OneRewardEach'
  <2>1. SUFFICES ASSUME ~IsTestEnvironment, NEW v \in Users \ {Creator}
                 PROVE  nfts'[v] =
                          IF HasPosition(v) /\ \E j \in claim_mask' :
                               winner_ids[j] = position_id[v]
                          THEN 1 ELSE 0
    BY <1>1 DEF OneRewardEach, IsTestEnvironment, HasPosition
  <2>2. nfts[v] = IF HasPosition(v) /\ \E j \in claim_mask :
                       winner_ids[j] = position_id[v]
                  THEN 1 ELSE 0
    BY <2>1 DEF IInv, OneRewardEach
  <2>3. CASE v = u
    <3>1. ASSUME NEW j \in claim_mask, winner_ids[j] = position_id[u]
          PROVE  FALSE
      <4>1. j \in 1..Len(winner_ids)
        BY <2>1 DEF IInv, RewardsReserved
      <4>2. j = k
        BY <1>2, <2>1, <3>1, <4>1 DEF IInv, WinnersHoldTickets
      <4> QED
        BY <1>2, <4>2
    <3>2. nfts[v] = 0
      BY <2>2, <2>3, <3>1
    <3>3. nfts'[v] = 1
      BY <1>1, <2>3, <3>2 DEF IInv, TypeOK
    <3> QED
      BY <1>0, <1>2, <2>3, <3>3
  <2>4. CASE v # u
    <3>1. nfts'[v] = nfts[v]
      BY <1>1, <2>4 DEF IInv, TypeOK
    <3>2. HasPosition(v) => position_id[v] # position_id[u]
      BY <1>2, <2>1, <2>4 DEF IInv, PositionsMatchStats
    <3> QED
      BY <1>0, <1>2, <2>2, <3>1, <3>2
  <2> QED
    BY <2>3, <2>4
<1>10. CancelReturnsAll'
  <2>1. nfts'[Creator] = nfts[Creator]
    BY <1>1, <1>3, UsersAssumption DEF IInv, TypeOK
  <2> QED
    BY <1>1, <1>2, <2>1 DEF IInv, CancelReturnsAll, IsTestEnvironment
<1> QED
  BY <1>4, <1>5, <1>6, <1>7, <1>8, <1>9, <1>10 DEF IInv

(* In production the winners are as many as the rewards, so this step is   *)
(* never enabled there; in the test environment it is.                     *)
LEMMA NothingRemains ==
  ASSUME IInv, ~IsTestEnvironment
  PROVE  ~MayClaimRemaining
<1>1. ASSUME HasWinners
      PROVE  NumRemainingRewards = 0
  <2>1. Len(winner_ids) = num_raffled_nfts
    BY <1>1 DEF IInv, StatusIsHonest, WinnersHoldTickets
  <2> QED
    BY <2>1 DEF IInv, TypeOK, NumRemainingRewards
<1> QED
  BY <1>1 DEF MayClaimRemaining

LEMMA ClaimRemainingRaffleRewardsIInv ==
  ASSUME IInv, ClaimRemainingRaffleRewards
  PROVE  IInv'
<1>0. /\ MayClaimRemaining
      /\ nfts' = [nfts EXCEPT ![Creator] = @ + NumRemainingRewards]
      /\ rewards_escrow' = rewards_escrow - NumRemainingRewards
      /\ rewards_open' = (rewards_escrow' # 0)
      /\ UNCHANGED <<now, cfg, status, expired_timestamp, ticket_supply,
                     ticket_price, num_raffled_nfts, ticket_sold,
                     num_ticket_positions, ticket_positions, position_id,
                     total_num_tickets, wallet, winner_ids, claim_mask,
                     revenue_open, revenue_escrow, fee_paid, proceeds,
                     revenue_deposits, reward_deposits>>
  BY DEF ClaimRemainingRaffleRewards, termVars, saleVars, drawVars, moneyVars
<1>1. IsTestEnvironment /\ IsTestEnvironment'
  BY <1>0, NothingRemains DEF IsTestEnvironment
<1>2. /\ NumRemainingRewards \in Nat /\ rewards_escrow' \in Nat
      /\ status # "NotCreated"
  BY <1>0 DEF MayClaimRemaining, NumRemainingRewards, HasWinners, IInv, TypeOK,
              StatusIsHonest
<1>3. TypeOK'
  <2>1. nfts' \in [Users -> Nat]
    BY <1>0, <1>2, UsersAssumption DEF IInv, TypeOK
  <2> QED
    BY <1>0, <1>2, <2>1 DEF IInv, TypeOK
<1>4. SaleShape' /\ PositionsMatchStats' /\ BuyersPayTheirTickets'
      /\ RevenueBacked'
  <2>1. status' # "InProgress"
    BY <1>0 DEF MayClaimRemaining, IInv, StatusIsHonest
  <2> QED
    BY <1>0, <1>2, <2>1 DEF IInv, SaleShape, PositionsMatchStats,
                            BuyersPayTheirTickets, RevenueBacked, Takings,
                            HasPosition
<1>5. RevenuePaidOnce'
  BY <1>0 DEF IInv, RevenuePaidOnce, Takings
<1>6. WinnersHoldTickets' /\ RewardsReserved' /\ OneRewardEach'
      /\ CancelReturnsAll'
  BY <1>1 DEF WinnersHoldTickets, RewardsReserved, OneRewardEach,
              CancelReturnsAll
<1>7. StatusIsHonest'
  BY <1>0, <1>1 DEF IInv, StatusIsHonest, HasWinners, IsEnded
<1> QED
  BY <1>3, <1>4, <1>5, <1>6, <1>7 DEF IInv

(* What outsiders add is in the escrow and in the books.                   *)
LEMMA DepositIInv ==
  ASSUME IInv, NEW n \in Gifts, Deposit(n)
  PROVE  IInv'
<1>0. /\ revenue_open /\ n \in Nat
      /\ revenue_escrow' = revenue_escrow + n
      /\ revenue_deposits' = revenue_deposits + n
      /\ UNCHANGED <<now, cfg, status, expired_timestamp, ticket_supply,
                     ticket_price, num_raffled_nfts, ticket_sold,
                     num_ticket_positions, ticket_positions, position_id,
                     total_num_tickets, wallet, winner_ids, claim_mask,
                     revenue_open, fee_paid, proceeds, rewards_open,
                     rewards_escrow, nfts, reward_deposits>>
  BY AmountsAssumption DEF Deposit, termVars, saleVars, drawVars, rewardVars
<1>1. TypeOK'
  BY <1>0 DEF IInv, TypeOK
<1>2. SaleShape' /\ PositionsMatchStats' /\ BuyersPayTheirTickets'
  BY <1>0 DEF IInv, SaleShape, PositionsMatchStats, BuyersPayTheirTickets,
              HasPosition, RevenuePaidOnce
<1>3. RevenueBacked'
  <2>1. ticket_sold * ticket_price \in Nat
    BY CostAdds DEF IInv, TypeOK
  <2>2. revenue_escrow = Takings /\ Takings' = Takings + n
    BY <1>0, <2>1 DEF IInv, TypeOK, RevenueBacked, Takings
  <2> QED
    BY <1>0, <2>2 DEF RevenueBacked
<1>4. RevenuePaidOnce'
  BY <1>0 DEF IInv, RevenuePaidOnce
<1>5. WinnersHoldTickets' /\ RewardsReserved' /\ OneRewardEach'
      /\ CancelReturnsAll' /\ StatusIsHonest'
  BY <1>0
     DEF IInv, WinnersHoldTickets, RewardsReserved, OneRewardEach,
         CancelReturnsAll, StatusIsHonest, IsTestEnvironment, HasPosition,
         HasWinners, IsEnded
<1> QED
  BY <1>1, <1>2, <1>3, <1>4, <1>5 DEF IInv

LEMMA DepositRewardIInv ==
  ASSUME IInv, DepositReward
  PROVE  IInv'
<1>0. /\ rewards_open /\ rewards_escrow' = rewards_escrow + 1
      /\ reward_deposits' = reward_deposits + 1
      /\ UNCHANGED <<now, cfg, status, expired_timestamp, ticket_supply,
                     ticket_price, num_raffled_nfts, ticket_sold,
                     num_ticket_positions, ticket_positions, position_id,
                     total_num_tickets, wallet, winner_ids, claim_mask,
                     revenue_open, revenue_escrow, fee_paid, proceeds,
                     revenue_deposits, rewards_open, nfts>>
  BY DEF DepositReward, termVars, saleVars, drawVars, moneyVars
<1>1. TypeOK'
  BY <1>0 DEF IInv, TypeOK
<1>2. SaleShape' /\ PositionsMatchStats' /\ BuyersPayTheirTickets'
  BY <1>0 DEF IInv, TypeOK, SaleShape, PositionsMatchStats,
              BuyersPayTheirTickets, HasPosition
<1>3. RevenueBacked' /\ RevenuePaidOnce'
  BY <1>0 DEF IInv, RevenueBacked, RevenuePaidOnce, Takings
<1>4. RewardsReserved'
  <2>1. SUFFICES ASSUME ~IsTestEnvironment
                 PROVE  RewardsReserved'
    BY <1>0 DEF RewardsReserved, IsTestEnvironment
  <2>2. /\ claim_mask \subseteq 1..Len(winner_ids)
        /\ Len(winner_ids) \in Nat
        /\ reward_deposits \in Nat /\ rewards_escrow \in Nat
        /\ num_raffled_nfts \in Nat
    BY <2>1 DEF IInv, TypeOK, RewardsReserved
  <2>3. Cardinality(claim_mask) \in Nat
    <3>1. IsFiniteSet(1..Len(winner_ids))
      BY <2>2, FS_Interval
    <3>2. IsFiniteSet(claim_mask)
      BY <2>2, <3>1, FS_Subset
    <3> QED
      BY <3>2, FS_CardinalityType
  <2> QED
    BY <1>0, <2>1, <2>2, <2>3 DEF IInv, RewardsReserved, IsTestEnvironment
<1>5. WinnersHoldTickets' /\ OneRewardEach' /\ StatusIsHonest'
  BY <1>0
     DEF IInv, WinnersHoldTickets, OneRewardEach, StatusIsHonest,
         IsTestEnvironment, HasPosition, HasWinners, IsEnded
<1>6. CancelReturnsAll'
  BY <1>0 DEF IInv, TypeOK, CancelReturnsAll, IsTestEnvironment
<1> QED
  BY <1>1, <1>2, <1>3, <1>4, <1>5, <1>6 DEF IInv

(* Steps outside the raffle: a configuration, the clock, a stutter.        *)
LEMMA OutsideIInv ==
  ASSUME IInv,
         \/ \E c \in Configs : UpdateConfigs(c)
         \/ Tick
         \/ UNCHANGED vars
  PROVE  IInv'
<1>0. UNCHANGED <<status, expired_timestamp, ticket_supply, ticket_price,
                  num_raffled_nfts, ticket_sold, num_ticket_positions,
                  ticket_positions, position_id, total_num_tickets, wallet,
                  winner_ids, claim_mask, revenue_open, revenue_escrow,
                  fee_paid, proceeds, revenue_deposits, rewards_open,
                  rewards_escrow, nfts, reward_deposits>>
  BY DEF UpdateConfigs, Tick, vars, termVars, saleVars, drawVars, moneyVars,
         rewardVars
<1>1. /\ cfg' \in ConfigRecord
      /\ IsTestEnvironment' <=> IsTestEnvironment
  BY ConfigsAssumption
     DEF UpdateConfigs, Tick, vars, IsTestEnvironment, IInv, TypeOK
<1>2. now' \in Nat /\ now' >= now
  BY DEF UpdateConfigs, Tick, vars, IInv, TypeOK
<1>3. TypeOK'
  BY <1>0, <1>1, <1>2 DEF IInv, TypeOK
<1>4. SaleShape' /\ PositionsMatchStats' /\ BuyersPayTheirTickets'
      /\ RevenueBacked'
  BY <1>0 DEF IInv, SaleShape, PositionsMatchStats, BuyersPayTheirTickets,
              RevenueBacked, Takings, HasPosition
<1>5. RevenuePaidOnce'
  BY <1>0 DEF IInv, RevenuePaidOnce, Takings
<1>6. WinnersHoldTickets' /\ RewardsReserved' /\ OneRewardEach'
      /\ CancelReturnsAll'
  BY <1>0, <1>1 DEF IInv, WinnersHoldTickets, RewardsReserved, OneRewardEach,
                    CancelReturnsAll, HasPosition
<1>7. StatusIsHonest'
  BY <1>0, <1>1, <1>2
     DEF IInv, TypeOK, StatusIsHonest, HasWinners, IsEnded
<1> QED
  BY <1>3, <1>4, <1>5, <1>6, <1>7 DEF IInv

LEMMA StepIInv == IInv /\ [Next]_vars => IInv'
BY CreateRaffleIInv, BuyRaffleTicketsIInv, CancelRaffleIInv, MakeRaffleIInv,
   SetRaffleWinnersIInv, ClaimRaffleRewardIInv, ClaimRaffleRevenueIInv,
   ClaimRemainingRaffleRewardsIInv, DepositIInv, DepositRewardIInv, OutsideIInv
   DEF Next
-----------------------------------------------------------------------------
(* The strengthened invariant holds in every reachable state.              *)
THEOREM Invariance == Spec => []IInv
BY InitIInv, StepIInv, PTL DEF Spec

(* Every variable stays in its set: no balance goes below zero.            *)
THEOREM TypeCorrect == Spec => []TypeOK
<1>1. IInv => TypeOK
  BY DEF IInv
<1> QED
  BY <1>1, Invariance, PTL

(* What the drawing reads is what the ticket positions say.                *)
THEOREM PositionsMatch == Spec => []PositionsMatchStats
<1>1. IInv => PositionsMatchStats
  BY DEF IInv
<1> QED
  BY <1>1, Invariance, PTL

(* The revenue escrow holds the price of every ticket sold until claimed,  *)
(* each buyer paid the price of the tickets held, and revenue leaves once. *)
THEOREM SaleAccounts == Spec => []SaleIsAccounted
<1>1. IInv => SaleIsAccounted
  BY DEF IInv, SaleIsAccounted
<1> QED
  BY <1>1, Invariance, PTL

(* A purchase adds its tickets once to the counter, once to the buyer's     *)
(* position, once to the stats: to the entry at the buyer's id, which is    *)
(* the buyer's alone, or as a new entry.                                    *)
LEMMA BuyAddsUp ==
  ASSUME IInv, TicketsAddUp, NEW u \in Users, NEW n \in Counts,
         BuyRaffleTickets(u, n)
  PROVE  TicketsAddUp'
<1>1. /\ n \in Nat /\ n > 0 /\ n + ticket_sold <= ticket_supply
      /\ ticket_sold' = ticket_sold + n /\ ticket_supply' = ticket_supply
      /\ total_num_tickets' = [total_num_tickets EXCEPT ![u] = @ + n]
      /\ ticket_positions' = StatsAfter(u, n)
  BY AmountsAssumption DEF BuyRaffleTickets, ValidPurchase, termVars
<1>2. /\ ticket_sold \in Nat /\ ticket_positions \in Seq(Nat)
      /\ total_num_tickets \in [Users -> Nat] /\ position_id \in [Users -> Nat]
      /\ IsFiniteSet(Users)
  BY UsersAssumption DEF IInv, TypeOK
<1>3. ticket_sold' = SumFunction(total_num_tickets')
  <2>1. /\ total_num_tickets' \in [Users -> Nat]
        /\ total_num_tickets'[u] = total_num_tickets[u] + n
        /\ \A v \in Users \ {u} : total_num_tickets'[v] = total_num_tickets[v]
    BY <1>1, <1>2
  <2> DEFINE f == total_num_tickets  g == total_num_tickets'
  <2>4. \A v \in Users : f[v] \in Int /\ g[v] \in Int
    BY <1>2, <2>1
  <2>2. SumFunctionOnSet(total_num_tickets', Users)
          = SumFunctionOnSet(total_num_tickets, Users)
              + (total_num_tickets'[u] - total_num_tickets[u])
    <3>1. \A v \in Users \ {u} : g[v] = f[v]
      BY <2>1
    <3> HIDE DEF f, g
    <3>2. SumFunctionOnSet(g, Users)
            = SumFunctionOnSet(f, Users) + (g[u] - f[u])
      BY <1>2, <2>4, <3>1, SumChange
    <3> QED BY <3>2 DEF f, g
  <2>3. ticket_sold = SumFunctionOnSet(total_num_tickets, Users)
    BY <1>2 DEF TicketsAddUp, SumFunction
  <2> QED
    BY <1>1, <1>2, <2>1, <2>2, <2>3 DEF SumFunction
<1>4. CASE HasPosition(u)
  <2> DEFINE k == position_id[u] + 1  S == 1..Len(ticket_positions)
  <2>1. k \in S /\ IsFiniteSet(S)
    <3>1. Len(ticket_positions) \in Nat /\ position_id[u] \in Nat
      BY <1>2
    <3>2. k \in S
      BY <1>4, <3>1 DEF IInv, PositionsMatchStats
    <3> QED BY <3>1, <3>2, FS_Interval
  <2>2. /\ ticket_positions' \in Seq(Nat)
        /\ DOMAIN ticket_positions' = S /\ DOMAIN ticket_positions = S
        /\ ticket_positions'[k] = ticket_positions[k] + n
        /\ \A i \in S \ {k} : ticket_positions'[i] = ticket_positions[i]
        /\ \A i \in S : ticket_positions[i] \in Nat
    BY <1>1, <1>2, <1>4, <2>1 DEF StatsAfter
  <2> HIDE DEF k, S
  <2>3. \A i \in S : ticket_positions'[i] \in Nat
    BY <1>1, <2>1, <2>2
  <2>4. SumFunctionOnSet(ticket_positions', S)
          = SumFunctionOnSet(ticket_positions, S)
              + (ticket_positions'[k] - ticket_positions[k])
    <3> DEFINE f == ticket_positions  g == ticket_positions'
    <3>1. /\ \A i \in S : f[i] \in Int /\ g[i] \in Int
          /\ \A i \in S \ {k} : g[i] = f[i]
      BY <2>2, <2>3
    <3> HIDE DEF f, g
    <3>2. SumFunctionOnSet(g, S)
            = SumFunctionOnSet(f, S) + (g[k] - f[k])
      BY <2>1, <3>1, SumChange
    <3> QED BY <3>2 DEF f, g
  <2>5. ticket_sold' = SumFunction(ticket_positions')
    BY <1>1, <1>2, <2>1, <2>2, <2>4 DEF TicketsAddUp, SumFunction
  <2>6. \A i \in S : ticket_positions'[i] > 0
    <3>1. \A i \in S : ticket_positions[i] > 0
      BY <2>2 DEF TicketsAddUp
    <3>2. ticket_positions'[k] > 0
      BY <1>1, <2>1, <2>2, <3>1
    <3> QED BY <2>2, <3>1, <3>2
  <2> QED
    BY <1>1, <1>2, <1>3, <2>2, <2>5, <2>6 DEF TicketsAddUp
<1>5. CASE ~HasPosition(u)
  <2>1. ticket_positions' = Append(ticket_positions, n)
    BY <1>1, <1>5 DEF StatsAfter
  <2>2. ticket_sold' = SumFunction(ticket_positions')
    <3>1. /\ ticket_positions \in Seq(Int) /\ n \in Int
          /\ DOMAIN ticket_positions = 1..Len(ticket_positions)
          /\ DOMAIN ticket_positions' = 1..Len(ticket_positions')
      BY <1>1, <1>2, <2>1
    <3>2. SumFunctionOnSet(ticket_positions', 1..Len(ticket_positions'))
            = SumFunctionOnSet(ticket_positions, 1..Len(ticket_positions)) + n
      BY <2>1, <3>1, SumAppend
    <3> QED
      BY <1>1, <3>1, <3>2 DEF TicketsAddUp, SumFunction
  <2>3. \A i \in DOMAIN ticket_positions' : ticket_positions'[i] > 0
    BY <1>1, <1>2, <2>1 DEF TicketsAddUp
  <2> QED
    BY <1>1, <1>2, <1>3, <2>2, <2>3 DEF TicketsAddUp
<1> QED BY <1>4, <1>5

(* No other step changes a number of tickets, and the supply is named       *)
(* before the first is sold.                                                *)
LEMMA TicketsStep == IInv /\ TicketsAddUp /\ [Next]_vars => TicketsAddUp'
<1> SUFFICES ASSUME IInv, TicketsAddUp, [Next]_vars PROVE TicketsAddUp'
  OBVIOUS
<1>1. ASSUME NEW d \in Durations, NEW s \in Supplies, NEW p \in Prices,
             NEW n \in RewardCounts, CreateRaffle(d, s, p, n)
      PROVE  TicketsAddUp'
  <2>1. ticket_sold = 0 /\ ticket_supply' \in Nat
    BY <1>1, AmountsAssumption DEF CreateRaffle, IInv, SaleShape
  <2>2. /\ ticket_sold' = ticket_sold
        /\ total_num_tickets' = total_num_tickets
        /\ ticket_positions' = ticket_positions
    BY <1>1 DEF CreateRaffle, saleVars
  <2>3. ticket_sold' <= ticket_supply'
    BY <2>1, <2>2
  <2> QED BY <2>2, <2>3 DEF TicketsAddUp
<1>2. ASSUME UNCHANGED <<ticket_sold, total_num_tickets, ticket_positions,
                         ticket_supply>>
      PROVE  TicketsAddUp'
  BY <1>2 DEF TicketsAddUp
<1>3. CASE CancelRaffle \/ ClaimRemainingRaffleRewards \/ Tick
  BY <1>2, <1>3
     DEF CancelRaffle, ClaimRemainingRaffleRewards, Tick, termVars, saleVars
<1>4. CASE \/ \E rerun \in BOOLEAN : MakeRaffle(rerun)
           \/ \E ids \in WinnerLists : SetRaffleWinners(ids)
  BY <1>2, <1>4 DEF MakeRaffle, SetRaffleWinners, termVars, saleVars
<1>5. CASE \/ \E u \in Users : ClaimRaffleReward(u)
           \/ \E t \in FeeOwners : ClaimRaffleRevenue(t)
           \/ \E c \in Configs : UpdateConfigs(c)
           \/ \E n \in Gifts : Deposit(n)
           \/ DepositReward
           \/ UNCHANGED vars
  BY <1>2, <1>5 DEF ClaimRaffleReward, ClaimRaffleRevenue, UpdateConfigs,
                    Deposit, DepositReward, termVars, saleVars, vars
<1> QED
  BY <1>1, <1>3, <1>4, <1>5, BuyAddsUp DEF Next

(* The counter the sale is limited by, and the total of the weights the     *)
(* drawing is given, is the sum of the tickets in all accounts: with        *)
(* FiniteSubsetInduction, for any number of users and of purchases.         *)
THEOREM CounterIsTheSum == Spec => []TicketsAddUp
<1>1. Init => TicketsAddUp
  <2> SUFFICES ASSUME Init PROVE TicketsAddUp
    OBVIOUS
  <2>1. SumFunctionOnSet(total_num_tickets, Users) = 0
    <3>1. \A u \in Users : total_num_tickets[u] = 0
      BY DEF Init
    <3> QED BY <3>1, UsersAssumption, SumOfZeros
  <2>2. SumFunctionOnSet(ticket_positions, DOMAIN ticket_positions) = 0
    BY SumEmpty DEF Init
  <2> QED BY <2>1, <2>2 DEF Init, TicketsAddUp, SumFunction
<1> QED
  BY <1>1, TicketsStep, Invariance, PTL DEF Spec

(* Winners are different holders of tickets, as many as there are rewards. *)
THEOREM WinnersAreHolders == Spec => []WinnersHoldTickets
<1>1. IInv => WinnersHoldTickets
  BY DEF IInv
<1> QED
  BY <1>1, Invariance, PTL

(* The rewards not claimed are in escrow, one for each winner left.        *)
THEOREM RewardsAreReserved == Spec => []RewardsReserved
<1>1. IInv => RewardsReserved
  BY DEF IInv
<1> QED
  BY <1>1, Invariance, PTL

(* Nobody gets a second reward, and none without a winning position.       *)
THEOREM NoSecondReward == Spec => []OneRewardEach
<1>1. IInv => OneRewardEach
  BY DEF IInv
<1> QED
  BY <1>1, Invariance, PTL

(* A cancelled raffle gave all back; any other keeps the rewards pledged.  *)
THEOREM CancellationReturnsAll == Spec => []CancelReturnsAll
<1>1. IInv => CancelReturnsAll
  BY DEF IInv
<1> QED
  BY <1>1, Invariance, PTL

(* Winners exist only of a finished raffle, which has ended.               *)
THEOREM FinishedMeansDrawn == Spec => []StatusIsHonest
<1>1. IInv => StatusIsHonest
  BY DEF IInv
<1> QED
  BY <1>1, Invariance, PTL

(* No account or check refuses what is due, but for what outsiders add to   *)
(* the revenue escrow: the rewards to a creator who sold nothing and whose  *)
(* escrow nobody touched; whatever was added, the revenue of a finished     *)
(* raffle and a winner's reward.                                            *)
THEOREM ClaimsStayOpen == Spec => []ClaimsNeverBlocked
<1>1. ASSUME IInv
      PROVE  ClaimsNeverBlocked
  <2>1. ASSUME status = "InProgress", ticket_sold = 0, revenue_deposits = 0
        PROVE  MayCancel
    <3>1. Len(winner_ids) = 0
      BY <1>1, <2>1 DEF IInv, StatusIsHonest, HasWinners, TypeOK
    <3>2. /\ NumRemainingRewards \in Nat /\ rewards_escrow \in Nat
          /\ NumRemainingRewards <= rewards_escrow
      BY <1>1, <2>1, <3>1 DEF IInv, TypeOK, SaleShape, NumRemainingRewards
    <3>3. revenue_open /\ revenue_escrow = 0
      BY <1>1, <2>1, CostAdds DEF IInv, TypeOK, RevenuePaidOnce, RevenueBacked,
                                    Takings
    <3> QED
      BY <1>1, <2>1, <3>2, <3>3 DEF MayCancel, IInv, SaleShape
  <2>2. ASSUME ~IsTestEnvironment, status = "Finished",
               NEW u \in Users, NEW k \in 1..Len(winner_ids),
               HasPosition(u), position_id[u] = winner_ids[k],
               k <= MaskBits, k \notin claim_mask
        PROVE  MayClaimReward(u, k)
    <3>1. /\ claim_mask \subseteq 1..Len(winner_ids)
          /\ rewards_escrow = Len(winner_ids) - Cardinality(claim_mask)
                                 + reward_deposits
          /\ rewards_open <=> rewards_escrow # 0
          /\ Len(winner_ids) \in Nat /\ reward_deposits \in Nat
      BY <1>1, <2>2 DEF IInv, RewardsReserved, TypeOK
    <3>2. /\ IsFiniteSet(1..Len(winner_ids))
          /\ Cardinality(1..Len(winner_ids)) = Len(winner_ids)
      <4>1. 1 \in Int /\ Len(winner_ids) \in Int
        BY <3>1
      <4>2. /\ IsFiniteSet(1..Len(winner_ids))
            /\ Cardinality(1..Len(winner_ids)) =
                 IF 1 > Len(winner_ids) THEN 0 ELSE Len(winner_ids) - 1 + 1
        BY <4>1, FS_Interval
      <4> QED
        BY <3>1, <4>2
    <3>3. IsFiniteSet(claim_mask) /\ Cardinality(claim_mask) \in Nat
      BY <3>1, <3>2, FS_Subset, FS_CardinalityType
    <3>4. Cardinality(claim_mask \cup {k}) = Cardinality(claim_mask) + 1
      BY <2>2, <3>3, FS_AddElement
    <3>5. claim_mask \cup {k} \in SUBSET (1..Len(winner_ids))
      BY <3>1
    <3>6. Cardinality(claim_mask \cup {k}) <= Len(winner_ids)
      BY <3>2, <3>5, FS_Subset
    <3>7. rewards_escrow >= 1 /\ rewards_open
      BY <3>1, <3>3, <3>4, <3>6
    <3>8. \A j \in 1..(k - 1) : winner_ids[j] # position_id[u]
      BY <1>1, <2>2, <3>1 DEF IInv, WinnersHoldTickets
    <3> QED
      BY <2>2, <3>7, <3>8 DEF MayClaimReward, IsWinnerIndex, IsRaffleMade
  <2> QED
    BY <2>1, <2>2 DEF ClaimsNeverBlocked, MayClaimRevenue, IsRaffleMade
<1> QED
  BY <1>1, Invariance, PTL

(* In production a drawing is for good, and so is a cancellation.          *)
THEOREM DrawingIsFinal == Spec => WinnersAreFinal
<1>1. ASSUME IInv, [Next]_vars, ~IsTestEnvironment,
             status \in {"Finished", "Cancelled"}
      PROVE  UNCHANGED <<status, winner_ids>>
  <2>1. ~CancelRaffle
    BY <1>1, CancelableInProgress DEF CancelRaffle
  <2>2. ASSUME NEW rerun \in BOOLEAN
        PROVE  ~MakeRaffle(rerun)
    BY <1>1 DEF MakeRaffle, MayMake, IsCancelled, IInv, StatusIsHonest
  <2> QED
    BY <1>1, <2>1, <2>2
       DEF Next, CreateRaffle, BuyRaffleTickets, SetRaffleWinners,
           ClaimRaffleReward, ClaimRaffleRevenue, ClaimRemainingRaffleRewards,
           UpdateConfigs, Deposit, DepositReward, Tick, vars, drawVars
<1>2. IInv /\ [Next]_vars =>
        [(~IsTestEnvironment /\ status \in {"Finished", "Cancelled"}) =>
           UNCHANGED <<status, winner_ids>>]_vars
  BY <1>1
<1> QED
  BY <1>2, Invariance, PTL DEF Spec, WinnersAreFinal

(* In production, once a sale without buyers has ended, currency in the    *)
(* revenue escrow keeps cancel_raffle out for good, and with nobody to     *)
(* draw make_raffle has no winners: rewards and currency stay.             *)
THEOREM DepositKeepsRewards == Spec => DepositLocksRewards
<1>1. ASSUME IInv, [Next]_vars, ~IsTestEnvironment, status = "InProgress",
             IsEnded, ticket_sold = 0, revenue_deposits > 0
      PROVE  /\ status' = "InProgress"
             /\ rewards_escrow' >= rewards_escrow
             /\ revenue_escrow' >= revenue_escrow
  <2>0. rewards_escrow \in Nat /\ revenue_escrow \in Nat
    BY <1>1 DEF IInv, TypeOK
  <2>1. ~CancelRaffle
    <3>1. revenue_open /\ 0 * ticket_price = 0
      BY <1>1, CostAdds DEF IInv, TypeOK, RevenuePaidOnce
    <3>2. revenue_escrow = revenue_deposits
      BY <1>1, <3>1 DEF IInv, TypeOK, RevenueBacked, Takings
    <3> QED
      BY <1>1, <3>2 DEF CancelRaffle, MayCancel
  <2>2. num_ticket_positions = 0
    <3>1. \A u \in Users : ~HasPosition(u)
      BY <1>1, UnsoldNoPositions
    <3>2. ~(0 \in 0..(num_ticket_positions - 1))
      BY <1>1, <3>1 DEF IInv, PositionsMatchStats
    <3> QED
      BY <1>1, <3>2 DEF IInv, TypeOK
  <2>3. ASSUME NEW rerun \in BOOLEAN
        PROVE  ~MakeRaffle(rerun)
    BY <1>1, <2>2 DEF MakeRaffle, CanDraw, IInv, TypeOK, SaleShape
  <2>4. ASSUME NEW u \in Users, NEW n \in Counts
        PROVE  ~BuyRaffleTickets(u, n)
    BY <1>1 DEF BuyRaffleTickets, ValidPurchase
  <2>5. /\ \A u \in Users : ~ClaimRaffleReward(u)
        /\ \A t \in FeeOwners : ~ClaimRaffleRevenue(t)
        /\ \A ids \in WinnerLists : ~SetRaffleWinners(ids)
        /\ ~ClaimRemainingRaffleRewards
    BY <1>1, NothingRemains
       DEF ClaimRaffleReward, MayClaimReward, ClaimRaffleRevenue,
           MayClaimRevenue, IsRaffleMade, SetRaffleWinners,
           ClaimRemainingRaffleRewards
  <2>6. \A n \in Gifts : n \in Nat
    BY AmountsAssumption
  <2> QED
    BY <1>1, <2>0, <2>1, <2>3, <2>4, <2>5, <2>6
       DEF Next, CreateRaffle, UpdateConfigs, Deposit, DepositReward, Tick,
           vars, moneyVars, rewardVars
<1>2. IInv /\ [Next]_vars =>
        [(~IsTestEnvironment /\ status = "InProgress" /\ IsEnded
            /\ ticket_sold = 0 /\ revenue_deposits > 0) =>
           /\ status' = "InProgress"
           /\ rewards_escrow' >= rewards_escrow
           /\ revenue_escrow' >= revenue_escrow]_vars
  BY <1>1
<1> QED
  BY <1>2, Invariance, PTL DEF Spec, DepositLocksRewards

(* After the end no step sells a ticket or changes the terms.              *)
THEOREM SaleEnds == Spec => SaleEndsWithTheClock
<1>1. ASSUME IInv, [Next]_vars, status # "NotCreated", IsEnded
      PROVE  IsEnded' /\ UNCHANGED <<termVars, saleVars>>
  <2>1. ASSUME NEW u \in Users, NEW n \in Counts
        PROVE  ~BuyRaffleTickets(u, n)
    BY <1>1 DEF BuyRaffleTickets, ValidPurchase
  <2>2. UNCHANGED <<termVars, saleVars>>
    BY <1>1, <2>1
       DEF Next, CreateRaffle, CancelRaffle, MakeRaffle, SetRaffleWinners,
           ClaimRaffleReward, ClaimRaffleRevenue, ClaimRemainingRaffleRewards,
           UpdateConfigs, Deposit, DepositReward, Tick, vars
  <2>3. now' \in Nat /\ now' >= now
    BY <1>1, <2>1
       DEF Next, CreateRaffle, CancelRaffle, MakeRaffle, SetRaffleWinners,
           ClaimRaffleReward, ClaimRaffleRevenue, ClaimRemainingRaffleRewards,
           UpdateConfigs, Deposit, DepositReward, Tick, vars, IInv, TypeOK
  <2> QED
    BY <1>1, <2>2, <2>3 DEF IsEnded, termVars, IInv, TypeOK
<1>2. IInv /\ [Next]_vars =>
        [(status # "NotCreated" /\ IsEnded) =>
           IsEnded' /\ UNCHANGED <<termVars, saleVars>>]_vars
  BY <1>1
<1> QED
  BY <1>2, Invariance, PTL DEF Spec, SaleEndsWithTheClock
-----------------------------------------------------------------------------
(* Different ids are positions of different users: as many as are drawn.   *)
LEMMA WinnersAreCounted ==
  IInv /\ ~IsTestEnvironment /\ status = "Finished"
    => Cardinality(Winners) = num_raffled_nfts
<1> SUFFICES ASSUME IInv, ~IsTestEnvironment, status = "Finished"
             PROVE  Cardinality(Winners) = num_raffled_nfts
  OBVIOUS
<1> DEFINE n == num_raffled_nfts
           Holds(k, u) == HasPosition(u) /\ winner_ids[k] = position_id[u]
           holder == [k \in 1..n |-> CHOOSE u \in Users : Holds(k, u)]
<1>1. Len(winner_ids) = n /\ n \in Nat
  BY DEF IInv, WinnersHoldTickets, TypeOK
<1>2. \A k \in 1..n : \E u \in Users : Holds(k, u)
  <2> TAKE k \in 1..n
  <2> QED BY <1>1 DEF IInv, WinnersHoldTickets
<1>3. \A k \in 1..n : holder[k] \in Users /\ Holds(k, holder[k])
  BY <1>2
<1>4. \A j, k \in 1..n : winner_ids[j] = winner_ids[k] => j = k
  BY <1>1 DEF IInv, WinnersHoldTickets
<1>5. \A u, v \in Users : \A k \in 1..n : Holds(k, u) /\ Holds(k, v) => u = v
  BY DEF IInv, PositionsMatchStats
<1>6. Winners = {u \in Users : \E k \in 1..n : Holds(k, u)}
  BY <1>1 DEF Winners
<1> HIDE DEF n
<1>7. holder \in [1..n -> Winners]
  BY <1>3, <1>6
<1>8. \A j, k \in 1..n : holder[j] = holder[k] => j = k
  BY <1>3, <1>4
<1>9. \A u \in Winners : \E k \in 1..n : holder[k] = u
  BY <1>3, <1>5, <1>6
<1> HIDE DEF holder
<1>10. holder \in Bijection(1..n, Winners)
  BY <1>7, <1>8, <1>9, Fun_IsBij
<1>11. ExistsBijection(1..n, Winners)
  BY <1>10 DEF ExistsBijection
<1>12. IsFiniteSet(1..n) /\ Cardinality(1..n) = n
  BY <1>1, FS_Interval
<1> QED
  BY <1>11, <1>12, FS_Bijection DEF n

LEMMA WinnersAreCountedNext ==
  IInv' /\ ~IsTestEnvironment' /\ status' = "Finished"
    => Cardinality(Winners') = num_raffled_nfts'
<1>1. (IInv /\ ~IsTestEnvironment /\ status = "Finished"
         => Cardinality(Winners) = num_raffled_nfts)'
  BY WinnersAreCounted, PTL
<1> QED
  BY <1>1

(* No step changes the environment.                                        *)
LEMMA EnvironmentStays ==
  ASSUME [Next]_vars
  PROVE  IsTestEnvironment' = IsTestEnvironment
BY DEF Next, CreateRaffle, BuyRaffleTickets, CancelRaffle, MakeRaffle,
       SetRaffleWinners, ClaimRaffleReward, ClaimRaffleRevenue,
       ClaimRemainingRaffleRewards, UpdateConfigs, Deposit, DepositReward,
       Tick, vars, IsTestEnvironment

(* Where the raffle promises nothing, nothing is seen of it.               *)
LEMMA TestsAreHidden ==
  ASSUME IsTestEnvironment, IsTestEnvironment'
  PROVE  UNCHANGED Promise!vars
BY DEF Promise!vars, InProduction

LEMMA CreateKeepsPromise ==
  ASSUME IInv, ~IsTestEnvironment, NEW d \in Durations, NEW s \in Supplies,
         NEW p \in Prices, NEW n \in RewardCounts, CreateRaffle(d, s, p, n)
  PROVE  Promise!List
<1>1. /\ status = "NotCreated" /\ status' = "InProgress"
      /\ n # 0 /\ n \in Nat /\ p \in Nat /\ d \in Nat
      /\ ticket_price' = p /\ rewards_escrow' = n
      /\ nfts' = [nfts EXCEPT ![Creator] = @ - n]
      /\ expired_timestamp' = now + d
      /\ UNCHANGED <<now, cfg, total_num_tickets, position_id, winner_ids,
                     revenue_escrow, revenue_deposits, reward_deposits>>
      /\ revenue_escrow = 0 /\ revenue_deposits = 0 /\ reward_deposits = 0
  BY AmountsAssumption
     DEF CreateRaffle, ValidTerms, saleVars, drawVars, IInv, SaleShape,
         RevenuePaidOnce, RevenueBacked
<1>2. Phase = "unlisted" /\ Phase' = "selling"
  BY <1>1 DEF Phase, IsEnded, IInv, TypeOK
<1>3. Winners' = Winners
  BY <1>1 DEF Winners, HasPosition
<1>4. Served' = Served
  BY <1>1 DEF Served, IInv, TypeOK
<1>5. Collected' = Collected /\ Unclaimed' = Unclaimed
  BY <1>1 DEF Collected, Unclaimed
<1>6. ~IsTestEnvironment'
  BY <1>1 DEF IsTestEnvironment
<1> QED
  BY <1>1, <1>2, <1>3, <1>4, <1>5, <1>6 DEF Promise!List, InProduction

LEMMA BuyKeepsPromise ==
  ASSUME IInv, ~IsTestEnvironment, NEW u \in Users, NEW n \in Counts,
         BuyRaffleTickets(u, n)
  PROVE  Promise!Buy(u)
<1>1. /\ n > 0 /\ n \in Nat /\ u # Creator /\ ~IsEnded
      /\ revenue_open
      /\ status \notin {"NotCreated", "Cancelled"}
      /\ revenue_escrow' = revenue_escrow + n * ticket_price
      /\ total_num_tickets' = [total_num_tickets EXCEPT ![u] = @ + n]
      /\ UNCHANGED <<now, cfg, status, expired_timestamp, ticket_price,
                     winner_ids, claim_mask, revenue_open, revenue_deposits,
                     rewards_escrow, nfts, reward_deposits>>
  BY AmountsAssumption
     DEF BuyRaffleTickets, ValidPurchase, IsCancelled, Cost, termVars, drawVars,
         rewardVars
<1>2. status = "InProgress"
  BY <1>1 DEF IInv, StatusIsHonest, TypeOK
<1>3. Phase = "selling" /\ Phase' = "selling"
  BY <1>1, <1>2 DEF Phase, IsEnded
<1>4. Winners = {} /\ Winners' = {}
  <2>1. Len(winner_ids) = 0
    BY <1>2, UndrawnIsClean
  <2> QED
    BY <1>1, <2>1 DEF Winners
<1>5. Served' = Served /\ Collected' = Collected
  BY <1>1, <1>2 DEF Served, Collected
<1>6. total_num_tickets'[u] - total_num_tickets[u] = n
  BY <1>1 DEF IInv, TypeOK
<1>7. ~IsTestEnvironment'
  BY <1>1 DEF IsTestEnvironment
<1>8. Unclaimed' = Unclaimed + n * ticket_price
  <2>1. /\ revenue_escrow \in Nat /\ revenue_deposits \in Nat
        /\ n * ticket_price \in Nat
    BY <1>1, CostAdds DEF IInv, TypeOK
  <2> QED
    BY <1>1, <2>1 DEF Unclaimed
<1> QED
  BY <1>1, <1>3, <1>4, <1>5, <1>6, <1>7, <1>8 DEF Promise!Buy, InProduction

LEMMA CancelKeepsPromise ==
  ASSUME IInv, ~IsTestEnvironment, CancelRaffle
  PROVE  Promise!Withdraw
<1>1. status = "InProgress"
  BY CancelableInProgress DEF CancelRaffle
<1>2. /\ status' = "Cancelled"
      /\ ticket_sold = 0
      /\ nfts' = [nfts EXCEPT ![Creator] = @ + NumRemainingRewards]
      /\ rewards_escrow' = rewards_escrow - NumRemainingRewards
      /\ revenue_open' = FALSE /\ revenue_escrow = 0
      /\ UNCHANGED <<now, cfg, ticket_price, total_num_tickets, position_id,
                     winner_ids, revenue_escrow, revenue_deposits,
                     reward_deposits>>
  BY DEF CancelRaffle, MayCancel, termVars, saleVars, drawVars
<1>3. rewards_escrow' - reward_deposits' = 0
  <2>1. /\ Len(winner_ids) = 0
        /\ rewards_escrow = num_raffled_nfts + reward_deposits
    BY <1>1, UndrawnIsClean DEF IInv, SaleShape
  <2> QED
    BY <1>2, <2>1 DEF NumRemainingRewards, IInv, TypeOK
<1>4. Phase \in {"selling", "ended"} /\ Phase' = "withdrawn"
  BY <1>1, <1>2 DEF Phase
<1>5. \A u \in Users : total_num_tickets[u] = 0
  BY <1>2, UnsoldNoPositions
<1>6. Winners' = Winners
  BY <1>2 DEF Winners, HasPosition
<1>7. Served' = Served
  BY <1>2 DEF Served, IInv, TypeOK
<1>8. Collected' = Collected /\ ~IsTestEnvironment'
  BY <1>1, <1>2 DEF Collected, IsTestEnvironment
<1>9. Unclaimed = 0 /\ Unclaimed' = 0
  <2>1. revenue_open /\ ticket_sold * ticket_price = 0
    BY <1>1, <1>2, CostAdds DEF IInv, TypeOK, RevenuePaidOnce
  <2>2. revenue_deposits = 0
    BY <1>2, <2>1 DEF IInv, TypeOK, RevenueBacked, Takings
  <2> QED
    BY <1>2, <2>2 DEF Unclaimed
<1> QED
  BY <1>2, <1>3, <1>4, <1>5, <1>6, <1>7, <1>8, <1>9
     DEF Promise!Withdraw, Promise!Holders, InProduction

LEMMA MakeKeepsPromise ==
  ASSUME IInv, IInv', ~IsTestEnvironment, NEW rerun \in BOOLEAN,
         MakeRaffle(rerun)
  PROVE  Promise!Draw
<1>1. /\ status \notin {"NotCreated", "Cancelled"} /\ IsEnded /\ ~HasWinners
      /\ status' = "Finished"
      /\ UNCHANGED <<now, cfg, ticket_price, num_raffled_nfts,
                     total_num_tickets, revenue_open, revenue_escrow,
                     revenue_deposits, rewards_escrow, nfts, reward_deposits>>
  BY DEF MakeRaffle, MayMake, IsCancelled, termVars, saleVars, moneyVars,
         rewardVars
<1>2. status = "InProgress"
  BY <1>1 DEF IInv, StatusIsHonest, TypeOK
<1>3. rewards_escrow - reward_deposits = num_raffled_nfts /\ revenue_open
  BY <1>2 DEF IInv, TypeOK, SaleShape, RevenuePaidOnce
<1>4. Phase = "ended" /\ Phase' = "drawn"
  BY <1>1, <1>2 DEF Phase
<1>5. ~IsTestEnvironment'
  BY <1>1 DEF IsTestEnvironment
<1>6. Cardinality(Winners') = rewards_escrow - reward_deposits
  <2>1. Cardinality(Winners') = num_raffled_nfts'
    BY <1>1, <1>5, WinnersAreCountedNext
  <2> QED
    BY <1>1, <1>3, <2>1
<1>7. Winners' \subseteq Promise!Holders
  BY <1>1 DEF Winners, HasPosition, Promise!Holders, InProduction
<1>8. Served' = Served /\ Collected' = Collected /\ Unclaimed' = Unclaimed
  BY <1>1, <1>2, <1>3 DEF Served, Collected, Unclaimed
<1>9. Promise!Cardinality(InProduction(Winners, {})')
        = InProduction(rewards_escrow - reward_deposits, 0)
  <2>1. InProduction(Winners, {})' = Winners'
        /\ InProduction(rewards_escrow - reward_deposits, 0)
             = rewards_escrow - reward_deposits
    BY <1>5 DEF InProduction
  <2>2. Promise!Cardinality(Winners') = rewards_escrow - reward_deposits
    BY <1>6 DEF Cardinality, Promise!Cardinality
  <2> QED
    BY <2>1, <2>2
<1> QED
  BY <1>1, <1>4, <1>5, <1>7, <1>8, <1>9
     DEF Promise!Draw, InProduction

LEMMA RewardKeepsPromise ==
  ASSUME IInv, ~IsTestEnvironment, NEW u \in Users, ClaimRaffleReward(u)
  PROVE  Promise!TakeReward(u)
<1>1. PICK k \in 1..Len(winner_ids) : MayClaimReward(u, k)
  BY DEF ClaimRaffleReward
<1>2. /\ status = "Finished" /\ HasPosition(u) /\ k \notin claim_mask
      /\ winner_ids[k] = position_id[u]
  BY <1>1 DEF MayClaimReward, IsRaffleMade, IsWinnerIndex
<1>3. /\ rewards_escrow' = rewards_escrow - 1
      /\ nfts' = [nfts EXCEPT ![u] = @ + 1]
      /\ UNCHANGED <<now, cfg, status, ticket_price, total_num_tickets,
                     position_id, winner_ids, revenue_open, revenue_escrow,
                     revenue_deposits, reward_deposits>>
      /\ rewards_escrow \in Nat /\ reward_deposits \in Nat
  BY DEF ClaimRaffleReward, IInv, TypeOK, termVars, saleVars, moneyVars
<1>4. u # Creator
  BY <1>2 DEF IInv, SaleShape
<1>5. nfts[u] = 0
  <2>1. ASSUME NEW j \in claim_mask, winner_ids[j] = position_id[u]
        PROVE  FALSE
    <3>1. j \in 1..Len(winner_ids)
      BY DEF IInv, RewardsReserved
    <3>2. j = k
      BY <1>2, <2>1, <3>1 DEF IInv, WinnersHoldTickets
    <3> QED
      BY <1>2, <3>2
  <2> QED
    BY <1>4, <2>1 DEF IInv, OneRewardEach
<1>6. u \in Winners \ Served /\ Winners' = Winners
  BY <1>2, <1>3, <1>5 DEF Winners, Served, HasPosition
<1>7. Served' = Served \cup {u}
  BY <1>3, <1>4, <1>5 DEF Served, IInv, TypeOK
<1>8. /\ Phase = "drawn" /\ Phase' = "drawn" /\ Collected' = Collected
      /\ Unclaimed' = Unclaimed /\ ~IsTestEnvironment'
  BY <1>2, <1>3 DEF Phase, Collected, Unclaimed, IsTestEnvironment
<1>9. rewards_escrow' - reward_deposits' = rewards_escrow - reward_deposits - 1
  BY <1>3
<1> QED
  BY <1>3, <1>6, <1>7, <1>8, <1>9 DEF Promise!TakeReward, InProduction

LEMMA RevenueKeepsPromise ==
  ASSUME IInv, ~IsTestEnvironment, NEW t \in FeeOwners,
         ClaimRaffleRevenue(t)
  PROVE  Promise!TakeRevenue
<1>1. /\ status = "Finished" /\ revenue_open
      /\ revenue_escrow' = 0 /\ revenue_open' = FALSE
      /\ UNCHANGED <<now, cfg, status, ticket_price, total_num_tickets,
                     position_id, winner_ids, rewards_escrow, nfts,
                     reward_deposits>>
  BY DEF ClaimRaffleRevenue, MayClaimRevenue, IsRaffleMade, termVars, saleVars,
         drawVars, rewardVars
<1>2. ~Collected /\ Collected' /\ Unclaimed' = 0
  BY <1>1 DEF Collected, Unclaimed
<1>3. /\ Phase = "drawn" /\ Phase' = "drawn" /\ ~IsTestEnvironment'
      /\ Winners' = Winners /\ Served' = Served
  BY <1>1 DEF Phase, IsTestEnvironment, Winners, Served, HasPosition
<1> QED
  BY <1>1, <1>2, <1>3 DEF Promise!TakeRevenue, InProduction

(* What outsiders add the raffle promises nobody.                          *)
LEMMA DepositsAreHidden ==
  ASSUME IInv, (\E n \in Gifts : Deposit(n)) \/ DepositReward
  PROVE  UNCHANGED Promise!vars
<1>1. /\ UNCHANGED <<now, cfg, status, expired_timestamp, ticket_price,
                     total_num_tickets, position_id, winner_ids, revenue_open,
                     nfts>>
      /\ rewards_escrow' - reward_deposits' = rewards_escrow - reward_deposits
      /\ revenue_escrow' - revenue_deposits'
           = revenue_escrow - revenue_deposits
  <2>1. /\ rewards_escrow \in Nat /\ reward_deposits \in Nat
        /\ revenue_escrow \in Nat /\ revenue_deposits \in Nat
    BY DEF IInv, TypeOK
  <2>2. CASE \E n \in Gifts : Deposit(n)
    BY <2>1, <2>2, AmountsAssumption
       DEF Deposit, termVars, saleVars, drawVars, rewardVars
  <2>3. CASE DepositReward
    BY <2>1, <2>3
       DEF DepositReward, termVars, saleVars, drawVars, moneyVars
  <2> QED
    BY <2>2, <2>3
<1>2. /\ Phase' = Phase /\ Winners' = Winners /\ Served' = Served
      /\ Collected' = Collected /\ Unclaimed' = Unclaimed
      /\ IsTestEnvironment' = IsTestEnvironment
  BY <1>1 DEF Phase, IsEnded, Winners, Served, Collected, Unclaimed,
              HasPosition, IsTestEnvironment
<1> QED
  BY <1>1, <1>2 DEF Promise!vars, InProduction

LEMMA OutsideKeepsPromise ==
  ASSUME IInv, ~IsTestEnvironment,
         \/ \E c \in Configs : UpdateConfigs(c)
         \/ Tick
         \/ UNCHANGED vars
  PROVE  Promise!EndSale \/ UNCHANGED Promise!vars
<1>1. /\ UNCHANGED <<status, expired_timestamp, ticket_price,
                     total_num_tickets, position_id, winner_ids, revenue_open,
                     revenue_escrow, revenue_deposits, rewards_escrow, nfts,
                     reward_deposits>>
      /\ now' \in {now, now + 1}
  BY DEF UpdateConfigs, Tick, vars, termVars, saleVars, drawVars, moneyVars,
         rewardVars
<1>2. ~IsTestEnvironment'
  BY DEF UpdateConfigs, Tick, vars, IsTestEnvironment
<1>3. IsEnded => IsEnded'
  BY <1>1 DEF IInv, TypeOK, IsEnded
<1>4. Phase' = Phase \/ (Phase = "selling" /\ Phase' = "ended")
  BY <1>1, <1>3 DEF Phase, IInv, TypeOK
<1>5. /\ Winners' = Winners /\ Served' = Served /\ Collected' = Collected
      /\ Unclaimed' = Unclaimed
  BY <1>1 DEF Winners, Served, Collected, Unclaimed, HasPosition
<1> QED
  BY <1>1, <1>2, <1>4, <1>5 DEF Promise!EndSale, Promise!vars, InProduction

LEMMA StepKeepsPromise ==
  ASSUME IInv, IInv', [Next]_vars
  PROVE  [Promise!Next]_(Promise!vars)
<1>1. CASE IsTestEnvironment
  BY <1>1, EnvironmentStays, TestsAreHidden
<1>2. CASE ~IsTestEnvironment
  <2>1. ASSUME NEW d \in Durations, NEW s \in Supplies, NEW p \in Prices,
               NEW n \in RewardCounts, CreateRaffle(d, s, p, n)
        PROVE  Promise!Next
    BY <1>2, <2>1, CreateKeepsPromise DEF Promise!Next
  <2>2. ASSUME NEW u \in Users, NEW n \in Counts, BuyRaffleTickets(u, n)
        PROVE  Promise!Next
    BY <1>2, <2>2, BuyKeepsPromise DEF Promise!Next
  <2>3. CASE CancelRaffle
    BY <1>2, <2>3, CancelKeepsPromise DEF Promise!Next
  <2>4. ASSUME NEW rerun \in BOOLEAN, MakeRaffle(rerun)
        PROVE  Promise!Next
    BY <1>2, <2>4, MakeKeepsPromise DEF Promise!Next
  <2>5. ASSUME NEW u \in Users, ClaimRaffleReward(u)
        PROVE  Promise!Next
    BY <1>2, <2>5, RewardKeepsPromise DEF Promise!Next
  <2>6. ASSUME NEW t \in FeeOwners, ClaimRaffleRevenue(t)
        PROVE  Promise!Next
    BY <1>2, <2>6, RevenueKeepsPromise DEF Promise!Next
  <2>7. CASE (\E c \in Configs : UpdateConfigs(c)) \/ Tick \/ UNCHANGED vars
    BY <1>2, <2>7, OutsideKeepsPromise DEF Promise!Next
  <2>8. ~ClaimRemainingRaffleRewards
        /\ \A ids \in WinnerLists : ~SetRaffleWinners(ids)
    BY <1>2, NothingRemains DEF ClaimRemainingRaffleRewards, SetRaffleWinners
  <2>9. CASE (\E n \in Gifts : Deposit(n)) \/ DepositReward
    BY <2>9, DepositsAreHidden
  <2> QED
    BY <2>1, <2>2, <2>3, <2>4, <2>5, <2>6, <2>7, <2>8, <2>9 DEF Next
<1> QED
  BY <1>1, <1>2

(* In production the instructions implement the raffle of RafflePromise,   *)
(* for every number of users, all prices, supplies and updates: as many    *)
(* different holders as rewards are drawn once, and rewards and revenue    *)
(* are taken by those they are for, once each.                             *)
THEOREM RaffleKeepsPromise == Spec => KeepsPromise
<1>1. Init => Promise!Init
  <2> SUFFICES ASSUME Init PROVE Promise!Init
    OBVIOUS
  <2>1. Phase = "unlisted" /\ ~Collected
    BY DEF Init, Phase, Collected
  <2>2. Winners = {} /\ Served = {} /\ Unclaimed = 0
    BY DEF Init, Winners, Served, Unclaimed
  <2> QED
    BY <2>1, <2>2 DEF Init, Promise!Init, InProduction
<1>2. IInv /\ IInv' /\ [Next]_vars => [Promise!Next]_(Promise!vars)
  BY StepKeepsPromise
<1> QED
  BY <1>1, <1>2, Invariance, PTL DEF Spec, KeepsPromise, Promise!Spec
=============================================================================
