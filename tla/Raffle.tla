------------------------------- MODULE Raffle -------------------------------
(***************************************************************************)
(* The ticket raffle of the justies program: one raffle account, the       *)
(* ticket position account of every buyer, the shared ticket position      *)
(* stats the drawing reads, the rewards and revenue escrow accounts, and   *)
(* the part of the global states the raffle reads.                         *)
(*                                                                         *)
(* As in Auction, an instruction is one transaction and one action, and    *)
(* one raffle stands for all; and outsiders may send currency or units of  *)
(* the NFT to the escrow accounts (Deposit, DepositReward). Receivers of   *)
(* revenue are one party (RevenueDistribution has the split). How winners  *)
(* are sampled is module WinnerDrawing's matter: here any set of           *)
(* participants may win.                                                   *)
(***************************************************************************)
EXTENDS IntegerDivision, Sequences, FiniteSets, Functions

CONSTANTS
  Users,              \* wallets that may sign a transaction
  Creator,            \* the user who lists the rewards
  Eligible,           \* the users who pass the raffle's eligible_groups
  FeeTreasury,        \* owner of the account the market fee is meant for
  FeeOwners,          \* owners of the accounts named to receive the fee
  Endowment,          \* currency tokens each user starts with
  CreatorNfts,        \* units of the NFT the creator starts with
  Counts,             \* numbers of tickets users may name
  Supplies,           \* ticket supplies the creator may name
  Prices,             \* ticket prices the creator may name
  RewardCounts,       \* numbers of raffled NFTs the creator may name
  Durations,          \* durations the creator may name
  Gifts,              \* amounts an outsider may send to the revenue escrow
  MaxDeposits,        \* bound: what outsiders send there in all
  SpareNfts,          \* units of the NFT outsiders have: 0 for a unique one
  WinnerLists,        \* winner ids the authority may set (test environment)
  Configs,            \* configurations the authority may set
  InitialConfigs,     \* the configurations a deployment may start with
  SplitShare,         \* the largest share_bps that is multiplied out
  MaxTime,            \* bound: the clock stops here, raffles end before
  WinnerCapacity,     \* winner ids that fit in the space of the account
  MaskBits,           \* 64, the width of claim_mask
  I16Max,             \* 2^15 - 1 in the code
  U16Max,             \* 2^16 - 1 in the code
  U64Max              \* 2^64 - 1 in the code

VARIABLES
  now,                   \* the cluster's unix timestamp
  cfg,                   \* GlobalStates: the fields the raffle reads
  status,                \* Raffle.status, "NotCreated" before the account is
  expired_timestamp,     \* Raffle.expired_timestamp
  ticket_supply,         \* Raffle.ticket_supply
  ticket_price,          \* Raffle.ticket_price
  num_raffled_nfts,      \* Raffle.num_raffled_nfts
  ticket_sold,           \* Raffle.ticket_sold
  num_ticket_positions,  \* Raffle.num_ticket_positions
  ticket_positions,      \* TicketPositionStats.ticket_positions
  position_id,           \* RaffleTicketPosition.id of each user
  total_num_tickets,     \* RaffleTicketPosition.total_num_tickets, 0 if none
  winner_ids,            \* Raffle.winner_ids
  claim_mask,            \* the bits set in Raffle.claim_mask, the lowest is 1
  wallet,                \* balance of each user's own token account
  revenue_open,          \* the revenue escrow account exists
  revenue_escrow,        \* its balance
  fee_paid,              \* tokens each owner's account received as the fee
  proceeds,              \* tokens paid to the revenue receivers
  revenue_deposits,      \* history: outsiders' transfers to the revenue escrow
  rewards_open,          \* the rewards escrow account exists
  rewards_escrow,        \* NFTs in it
  nfts,                  \* NFTs the raffle left or gave to each user
  reward_deposits        \* history: outsiders' transfers to the rewards escrow

termVars   == <<expired_timestamp, ticket_supply, ticket_price,
                num_raffled_nfts>>
saleVars   == <<ticket_sold, num_ticket_positions, ticket_positions,
                position_id, total_num_tickets, wallet>>
drawVars   == <<winner_ids, claim_mask>>
moneyVars  == <<revenue_open, revenue_escrow, fee_paid, proceeds,
                revenue_deposits>>
rewardVars == <<rewards_open, rewards_escrow, nfts, reward_deposits>>
vars == <<now, cfg, status, termVars, saleVars, drawVars, moneyVars,
          rewardVars>>
-----------------------------------------------------------------------------
ConfigRecord ==
  [market_fee_rate_bps: Nat, min_raffle_ticket_supply: Nat,
   max_raffle_ticket_supply: Nat, max_raffled_nfts: Nat,
   min_raffle_duration: Nat, max_raffle_duration: Nat,
   raffle_creation_enabled: BOOLEAN, is_test_environment: BOOLEAN]

(* What update_configs accepts, of the fields the raffle reads: any         *)
(* max_raffled_nfts passes.                                                 *)
ValidConfig(c) ==
  /\ c.market_fee_rate_bps < BPS
  /\ c.min_raffle_ticket_supply # 0
  /\ c.max_raffle_ticket_supply # 0
  /\ c.min_raffle_ticket_supply < c.max_raffle_ticket_supply
  /\ c.min_raffle_duration # 0
  /\ c.max_raffle_duration # 0
  /\ c.min_raffle_duration < c.max_raffle_duration

ASSUME UsersAssumption ==
  /\ IsFiniteSet(Users)
  /\ Creator \in Users
  /\ Eligible \subseteq Users
  /\ FeeTreasury \notin Users
  /\ FeeTreasury \in FeeOwners
  /\ FeeOwners \subseteq Users \cup {FeeTreasury}

ASSUME AmountsAssumption ==
  /\ Endowment \in [Users -> Nat]
  /\ CreatorNfts \in Nat
  /\ Counts \subseteq Nat
  /\ Supplies \subseteq Nat
  /\ Prices \subseteq Nat
  /\ RewardCounts \subseteq Nat
  /\ Durations \subseteq Nat
  /\ Gifts \subseteq Nat \ {0}
  /\ MaxDeposits \in Nat
  /\ SpareNfts \in Nat
  /\ SplitShare \in Nat
  /\ MaxTime \in Nat
  /\ WinnerCapacity \in Nat
  /\ MaskBits \in Nat
  /\ I16Max \in Nat
  /\ U16Max \in Nat
  /\ U64Max \in Nat

ASSUME ConfigsAssumption ==
  /\ Configs \subseteq ConfigRecord
  /\ InitialConfigs \subseteq ConfigRecord
  /\ WinnerLists \subseteq Seq(Nat)
-----------------------------------------------------------------------------
(* Set by init_justies_program for good. *)
IsTestEnvironment == cfg.is_test_environment

IsEnded == now > expired_timestamp

IsCancelled == status = "Cancelled"

IsRaffleMade == status = "Finished"

HasWinners == Len(winner_ids) > 0

NumRemainingRewards == num_raffled_nfts - Len(winner_ids)

(* init_raffle *)
ValidTerms(duration, supply, num_nfts) ==
  /\ duration >= cfg.min_raffle_duration
  /\ duration <= cfg.max_raffle_duration
  /\ num_nfts # 0
  /\ num_nfts <= cfg.max_raffled_nfts
  /\ supply >= cfg.min_raffle_ticket_supply
  /\ supply <= cfg.max_raffle_ticket_supply

(* Only a buyer's first purchase makes a ticket position. *)
HasPosition(u) == total_num_tickets[u] # 0

(* pay_for_tickets *)
Cost(n) == n * ticket_price

(* Faulty: the buyer's balance is not compared with the cost. *)
ValidPurchaseUnfunded(u, n) ==
  /\ n > 0 /\ n + ticket_sold <= ticket_supply
  /\ u # Creator /\ revenue_open /\ ~IsEnded /\ ~IsCancelled

(* Faulty: tickets sold before are not counted. *)
ValidPurchaseOversold(u, n) ==
  /\ n > 0 /\ n <= ticket_supply
  /\ u # Creator /\ revenue_open /\ Cost(n) <= wallet[u]
  /\ ~IsEnded /\ ~IsCancelled

(* The constraints of buy_raffle_tickets and the checks of its handler. *)
ValidPurchase(u, n) ==
  /\ n > 0
  /\ n + ticket_sold <= U16Max
  /\ n + ticket_sold <= ticket_supply
  /\ u # Creator
  /\ revenue_open
  /\ Cost(n) <= U64Max
  /\ Cost(n) <= wallet[u]
  /\ u \in Eligible
  /\ ~IsEnded
  /\ ~IsCancelled

(* Faulty: every purchase makes an entry. *)
AlwaysPushed(u, n) == Append(ticket_positions, n)

(* The stats the drawing reads: one entry per position, at its id. *)
StatsAfter(u, n) ==
  IF HasPosition(u)
  THEN [ticket_positions EXCEPT ![position_id[u] + 1] = @ + n]
  ELSE Append(ticket_positions, n)

(* Faulty: tickets do not prevent the cancellation. *)
MayCancelSold == rewards_open /\ revenue_open /\ ~HasWinners

(* Faulty: the revenue escrow is given up with what is in it. *)
MayCancelFunded ==
  /\ status # "NotCreated" /\ ticket_sold = 0 /\ rewards_open /\ revenue_open
  /\ NumRemainingRewards \in 0..rewards_escrow

(* Only the tickets sold are checked; the accounts named must exist.       *)
(* The revenue escrow can only be closed when empty, of outsiders'         *)
(* deposits too.                                                           *)
MayCancel ==
  /\ status # "NotCreated"
  /\ ticket_sold = 0
  /\ rewards_open
  /\ revenue_open
  /\ NumRemainingRewards >= 0             \* u64 subtraction
  /\ NumRemainingRewards <= rewards_escrow
  /\ revenue_escrow = 0

(* Faulty: winners already drawn do not prevent a drawing. *)
MayMakeAgain(rerun) ==
  status # "NotCreated" /\ ~IsCancelled /\ IsEnded

MayMake(rerun) ==
  /\ status # "NotCreated"
  /\ ~IsCancelled
  /\ IsEnded
  /\ IF rerun THEN IsTestEnvironment ELSE ~HasWinners

(* The drawing terminates without overflow and its result fits the account *)
(* (create_alias_table's i16 products, pick_winners' loop until there are  *)
(* num_raffled_nfts different winners, the account's fixed space). The     *)
(* cluster's limits on a transaction's compute units and heap, which a     *)
(* drawing with many positions may exceed as well, are left out.           *)
CanDraw ==
  /\ num_raffled_nfts <= num_ticket_positions
  /\ \A i \in 1..Len(ticket_positions) :
       Len(ticket_positions) * ticket_positions[i] <= I16Max
  /\ num_raffled_nfts <= WinnerCapacity

(* The lists pick_winners may return: different ids, in ascending order     *)
(* because they are collected in a bit set.                                 *)
Draws ==
  {w \in [1..num_raffled_nfts -> 0..(num_ticket_positions - 1)] :
     \A i, j \in 1..num_raffled_nfts : i < j => w[i] < w[j]}

(* get_winner_index: the first place of the position's id. *)
IsWinnerIndex(k, id) ==
  /\ k \in 1..Len(winner_ids)
  /\ winner_ids[k] = id
  /\ \A j \in 1..(k - 1) : winner_ids[j] # id

(* Faulty: the mask is not read. *)
MayClaimTwice(u, k) ==
  /\ HasPosition(u) /\ rewards_open /\ IsRaffleMade
  /\ IsWinnerIndex(k, position_id[u]) /\ rewards_escrow >= 1

(* Faulty: reserves the last reward for the creator. *)
MayClaimButLast(u, k) ==
  /\ HasPosition(u) /\ rewards_open /\ IsRaffleMade
  /\ IsWinnerIndex(k, position_id[u]) /\ k \notin claim_mask
  /\ rewards_escrow > 1

(* validate_claim, with the ticket position and the escrow that must exist. *)
(* Shifting by the width of the mask or more panics.                        *)
MayClaimReward(u, k) ==
  /\ HasPosition(u)
  /\ rewards_open
  /\ IsRaffleMade
  /\ IsWinnerIndex(k, position_id[u])
  /\ k <= MaskBits
  /\ k \notin claim_mask
  /\ rewards_escrow >= 1

FeeAmount == Portion(revenue_escrow, cfg.market_fee_rate_bps)

(* As CanDistribute of Auction. *)
CanDistribute ==
  /\ PortionFits(revenue_escrow, cfg.market_fee_rate_bps, U64Max)
  /\ FeeAmount <= revenue_escrow
  /\ PortionFits(revenue_escrow - FeeAmount, SplitShare, U64Max)

(* Faulty: refuses once every reward is claimed. *)
MayClaimRevenueFirst ==
  IsRaffleMade /\ revenue_open /\ CanDistribute /\ rewards_open

MayClaimRevenue ==
  /\ revenue_open
  /\ IsRaffleMade
  /\ CanDistribute

(* validate_claim_remaining_rewards: nothing records an earlier claim. *)
MayClaimRemaining ==
  /\ rewards_open
  /\ HasWinners
  /\ NumRemainingRewards > 0
  /\ NumRemainingRewards <= rewards_escrow
-----------------------------------------------------------------------------
Init ==
  /\ now = 0
  /\ cfg \in InitialConfigs
  /\ status = "NotCreated"
  /\ expired_timestamp = 0
  /\ ticket_supply = 0
  /\ ticket_price = 0
  /\ num_raffled_nfts = 0
  /\ ticket_sold = 0
  /\ num_ticket_positions = 0
  /\ ticket_positions = <<>>
  /\ position_id = [u \in Users |-> 0]
  /\ total_num_tickets = [u \in Users |-> 0]
  /\ winner_ids = <<>>
  /\ claim_mask = {}
  /\ wallet = Endowment
  /\ revenue_open = FALSE
  /\ revenue_escrow = 0
  /\ fee_paid = [t \in FeeOwners |-> 0]
  /\ proceeds = 0
  /\ revenue_deposits = 0
  /\ rewards_open = FALSE
  /\ rewards_escrow = 0
  /\ nfts = [u \in Users |-> IF u = Creator THEN CreatorNfts ELSE 0]
  /\ reward_deposits = 0

CreateRaffle(duration, supply, price, num_nfts) ==
  /\ status = "NotCreated"
  /\ cfg.raffle_creation_enabled
  /\ ValidTerms(duration, supply, num_nfts)
  /\ nfts[Creator] >= num_nfts
  /\ now + duration < MaxTime
  /\ expired_timestamp' = now + duration
  /\ ticket_supply' = supply
  /\ ticket_price' = price
  /\ num_raffled_nfts' = num_nfts
  /\ status' = "InProgress"
  /\ revenue_open' = TRUE
  /\ rewards_open' = TRUE
  /\ rewards_escrow' = num_nfts
  /\ nfts' = [nfts EXCEPT ![Creator] = @ - num_nfts]
  /\ UNCHANGED <<now, cfg, saleVars, drawVars, revenue_escrow, fee_paid,
                 proceeds, revenue_deposits, reward_deposits>>

BuyRaffleTickets(u, n) ==
  /\ status # "NotCreated"
  /\ ValidPurchase(u, n)
  /\ wallet' = [wallet EXCEPT ![u] = @ - Cost(n)]
  /\ revenue_escrow' = revenue_escrow + Cost(n)
  /\ ticket_positions' = StatsAfter(u, n)
  /\ IF HasPosition(u)
     THEN UNCHANGED <<position_id, num_ticket_positions>>
     ELSE /\ position_id' = [position_id EXCEPT ![u] = num_ticket_positions]
          /\ num_ticket_positions' = num_ticket_positions + 1
  /\ total_num_tickets' = [total_num_tickets EXCEPT ![u] = @ + n]
  /\ ticket_sold' = ticket_sold + n
  /\ UNCHANGED <<now, cfg, status, termVars, drawVars, revenue_open, fee_paid,
                 proceeds, revenue_deposits, rewardVars>>

CancelRaffle ==
  /\ MayCancel
  /\ nfts' = [nfts EXCEPT ![Creator] = @ + NumRemainingRewards]
  /\ rewards_escrow' = rewards_escrow - NumRemainingRewards
  /\ rewards_open' = (rewards_escrow' # 0)
  /\ revenue_open' = FALSE
  /\ status' = "Cancelled"
  /\ UNCHANGED <<now, cfg, termVars, saleVars, drawVars, revenue_escrow,
                 fee_paid, proceeds, revenue_deposits, reward_deposits>>

(* Signed by the authority. claim_mask keeps what it held. *)
MakeRaffle(rerun) ==
  /\ MayMake(rerun)
  /\ CanDraw
  /\ winner_ids' \in Draws
  /\ status' = "Finished"
  /\ UNCHANGED <<now, cfg, termVars, saleVars, claim_mask, moneyVars,
                 rewardVars>>

(* Signed by the authority, in the test environment only. *)
SetRaffleWinners(ids) ==
  /\ IsTestEnvironment
  /\ status # "NotCreated"
  /\ ~IsCancelled
  /\ IsEnded
  /\ Len(ids) <= WinnerCapacity
  /\ winner_ids' = ids
  /\ status' = "Finished"
  /\ UNCHANGED <<now, cfg, termVars, saleVars, claim_mask, moneyVars,
                 rewardVars>>

ClaimRaffleReward(u) ==
  /\ \E k \in 1..Len(winner_ids) :
       /\ MayClaimReward(u, k)
       /\ claim_mask' = claim_mask \cup {k}
  /\ rewards_escrow' = rewards_escrow - 1
  /\ rewards_open' = (rewards_escrow' # 0)
  /\ nfts' = [nfts EXCEPT ![u] = @ + 1]
  /\ UNCHANGED <<now, cfg, status, termVars, saleVars, winner_ids, moneyVars,
                 reward_deposits>>

(* Signed by the creator, who names fee_treasury: no constraint ties       *)
(* fee_owner, the owner named, to the global states. The whole escrow is   *)
(* paid out, outsiders' deposits with the price of the tickets.            *)
ClaimRaffleRevenue(fee_owner) ==
  /\ MayClaimRevenue
  /\ fee_paid' = [fee_paid EXCEPT ![fee_owner] = @ + FeeAmount]
  /\ proceeds' = proceeds + (revenue_escrow - FeeAmount)
  /\ revenue_escrow' = 0
  /\ revenue_open' = FALSE
  /\ UNCHANGED <<now, cfg, status, termVars, saleVars, drawVars,
                 revenue_deposits, rewardVars>>

ClaimRemainingRaffleRewards ==
  /\ MayClaimRemaining
  /\ nfts' = [nfts EXCEPT ![Creator] = @ + NumRemainingRewards]
  /\ rewards_escrow' = rewards_escrow - NumRemainingRewards
  /\ rewards_open' = (rewards_escrow' # 0)
  /\ UNCHANGED <<now, cfg, status, termVars, saleVars, drawVars, moneyVars,
                 reward_deposits>>

UpdateConfigs(c) ==
  /\ ValidConfig(c)
  /\ c.is_test_environment = IsTestEnvironment    \* no input for it
  /\ cfg' = c
  /\ UNCHANGED <<now, status, termVars, saleVars, drawVars, moneyVars,
                 rewardVars>>

(* Anybody's transfer of currency to the revenue escrow, with the token    *)
(* program and without the justies program.                                *)
Deposit(n) ==
  /\ revenue_open
  /\ revenue_deposits + n <= MaxDeposits
  /\ revenue_escrow' = revenue_escrow + n
  /\ revenue_deposits' = revenue_deposits + n
  /\ UNCHANGED <<now, cfg, status, termVars, saleVars, drawVars, revenue_open,
                 fee_paid, proceeds, rewardVars>>

(* The same of a unit of the NFT to the rewards escrow: create_raffle only *)
(* asks the creator to hold the raffled ones.                              *)
DepositReward ==
  /\ rewards_open
  /\ reward_deposits < SpareNfts
  /\ rewards_escrow' = rewards_escrow + 1
  /\ reward_deposits' = reward_deposits + 1
  /\ UNCHANGED <<now, cfg, status, termVars, saleVars, drawVars, moneyVars,
                 rewards_open, nfts>>

(* The cluster clock; the program never sees it go back. *)
Tick ==
  /\ now < MaxTime
  /\ now' = now + 1
  /\ UNCHANGED <<cfg, status, termVars, saleVars, drawVars, moneyVars,
                 rewardVars>>

Next ==
  \/ \E d \in Durations, s \in Supplies, p \in Prices, n \in RewardCounts :
       CreateRaffle(d, s, p, n)
  \/ \E u \in Users, n \in Counts : BuyRaffleTickets(u, n)
  \/ CancelRaffle
  \/ \E rerun \in BOOLEAN : MakeRaffle(rerun)
  \/ \E ids \in WinnerLists : SetRaffleWinners(ids)
  \/ \E u \in Users : ClaimRaffleReward(u)
  \/ \E t \in FeeOwners : ClaimRaffleRevenue(t)
  \/ ClaimRemainingRaffleRewards
  \/ \E c \in Configs : UpdateConfigs(c)
  \/ \E n \in Gifts : Deposit(n)
  \/ DepositReward
  \/ Tick

Spec == Init /\ [][Next]_vars

(* The clock advances, the authority keeps submitting make_raffle until it *)
(* lands, the creator claim_raffle_revenue and claim_remaining, and user u *)
(* claim_raffle_reward. Nobody else is assumed to do anything.             *)
FairFor(u) ==
  /\ WF_vars(Tick)
  /\ WF_vars(MakeRaffle(FALSE))
  /\ WF_vars(ClaimRaffleRevenue(FeeTreasury))
  /\ WF_vars(ClaimRemainingRaffleRewards)
  /\ WF_vars(ClaimRaffleReward(u))
-----------------------------------------------------------------------------
(* The sets each variable ranges over. *)
TypeOK ==
  /\ now \in Nat
  /\ cfg \in ConfigRecord
  /\ status \in {"NotCreated", "InProgress", "Finished", "Cancelled"}
  /\ expired_timestamp \in Nat
  /\ ticket_supply \in Nat
  /\ ticket_price \in Nat
  /\ num_raffled_nfts \in Nat
  /\ ticket_sold \in Nat
  /\ num_ticket_positions \in Nat
  /\ ticket_positions \in Seq(Nat)
  /\ position_id \in [Users -> Nat]
  /\ total_num_tickets \in [Users -> Nat]
  /\ winner_ids \in Seq(Nat)
  /\ claim_mask \subseteq Nat
  /\ wallet \in [Users -> Nat]
  /\ revenue_open \in BOOLEAN
  /\ revenue_escrow \in Nat
  /\ fee_paid \in [FeeOwners -> Nat]
  /\ proceeds \in Nat
  /\ revenue_deposits \in Nat
  /\ rewards_open \in BOOLEAN
  /\ rewards_escrow \in Nat
  /\ nfts \in [Users -> Nat]
  /\ reward_deposits \in Nat

(* The drawing reads TicketPositionStats and pays by RaffleTicketPosition:  *)
(* two accounts buy_tickets keeps in step by hand. Each position has one    *)
(* entry of the stats, at its id, with its number of tickets; ids are       *)
(* different and there are no gaps, whoever buys again in which order.      *)
PositionsMatchStats ==
  /\ Len(ticket_positions) = num_ticket_positions
  /\ \A u \in Users :
       HasPosition(u) =>
         /\ position_id[u] < num_ticket_positions
         /\ ticket_positions[position_id[u] + 1] = total_num_tickets[u]
  /\ \A u, v \in Users :
       HasPosition(u) /\ HasPosition(v) /\ position_id[u] = position_id[v]
         => u = v
  /\ \A i \in 0..(num_ticket_positions - 1) :
       \E u \in Users : HasPosition(u) /\ position_id[u] = i

(* buy_raffle_tickets compares a running counter with the supply, and       *)
(* make_raffle hands it to the drawing as the total of the weights: it is   *)
(* the sum of what all users hold and of all entries of the stats, within   *)
(* the supply, and no entry the drawing may pick is without a ticket.       *)
TicketsAddUp ==
  /\ ticket_sold = SumFunction(total_num_tickets)
  /\ ticket_sold = SumFunction(ticket_positions)
  /\ ticket_sold <= ticket_supply
  /\ \A i \in DOMAIN ticket_positions : ticket_positions[i] > 0

(* What the sale brought in and outsiders added. *)
Takings == ticket_sold * ticket_price + revenue_deposits

(* Until it is claimed the revenue escrow holds the price of every ticket   *)
(* sold and what outsiders added, also after a change of the configuration; *)
(* then nothing.                                                            *)
RevenueBacked ==
  revenue_escrow = IF revenue_open THEN Takings ELSE 0

(* A buyer is down by the price of the tickets the position says, however   *)
(* many purchases made it.                                                  *)
BuyersPayTheirTickets ==
  \A u \in Users :
    wallet[u] = Endowment[u] - total_num_tickets[u] * ticket_price

(* Revenue leaves the escrow once, whole, and only after the winners are    *)
(* drawn: to the receivers and one fee account, which is the account the    *)
(* creator names, not always the treasury's (FeeReachesTreasury below).     *)
RevenuePaidOnce ==
  IF status = "Finished" /\ ~revenue_open
  THEN \E t \in FeeOwners :
         /\ fee_paid[t] + proceeds = Takings
         /\ \A v \in FeeOwners : v # t => fee_paid[v] = 0
  ELSE /\ proceeds = 0
       /\ \A t \in FeeOwners : fee_paid[t] = 0
       /\ revenue_open <=> status \in {"InProgress", "Finished"}

(* The sale keeps its books: nothing a buyer, the creator or the authority  *)
(* does, in any order and under any configuration in between, loses a token *)
(* between the buyers' wallets, the escrow, the fee and the receivers.      *)
SaleIsAccounted == RevenueBacked /\ BuyersPayTheirTickets /\ RevenuePaidOnce

(* Winners are as many as rewards, different, and each the position of a    *)
(* user who bought tickets, so each reward has a user who can claim it.     *)
WinnersHoldTickets ==
  ~IsTestEnvironment /\ status = "Finished" =>
    /\ Len(winner_ids) = num_raffled_nfts
    /\ \A k \in 1..Len(winner_ids) :
         \E u \in Users : HasPosition(u) /\ position_id[u] = winner_ids[k]
    /\ \A j, k \in 1..Len(winner_ids) : winner_ids[j] = winner_ids[k] => j = k

(* The reward of every winner who has not claimed stays in escrow, whatever *)
(* the others and the creator claim; what outsiders added stays too, and    *)
(* the escrow with it, for no instruction pays it out.                      *)
RewardsReserved ==
  ~IsTestEnvironment =>
    /\ claim_mask \subseteq 1..Len(winner_ids)
    /\ status = "Finished" =>
         rewards_escrow
           = Len(winner_ids) - Cardinality(claim_mask) + reward_deposits
    /\ status = "InProgress" =>
         rewards_escrow = num_raffled_nfts + reward_deposits
    /\ rewards_open <=> rewards_escrow # 0

(* The mask is exact: a user has a reward, and only one, just when the bit  *)
(* of the user's position among the winners is set.                         *)
OneRewardEach ==
  ~IsTestEnvironment => \A u \in Users \ {Creator} :
    nfts[u] = IF HasPosition(u) /\ \E k \in claim_mask :
                                     winner_ids[k] = position_id[u]
              THEN 1 ELSE 0

(* A cancelled raffle sold nothing and has given everything back but what   *)
(* outsiders sent to the rewards escrow; in all others, the creator's       *)
(* rewards are pledged.                                                     *)
CancelReturnsAll ==
  ~IsTestEnvironment =>
    /\ status = "Cancelled" =>
         /\ ticket_sold = 0
         /\ ~revenue_open
         /\ rewards_escrow = reward_deposits
    /\ nfts[Creator] =
         IF status \in {"NotCreated", "Cancelled"}
         THEN CreatorNfts ELSE CreatorNfts - num_raffled_nfts

(* Winners are drawn after the end only, and drawn means finished.          *)
StatusIsHonest ==
  /\ status = "Finished" => IsEnded
  /\ HasWinners /\ status # "Cancelled" => status = "Finished"
  /\ ~IsTestEnvironment => (status = "Finished" <=> HasWinners)

(* In any order of the claims, a party that is due something (a creator     *)
(* without buyers the rewards, a winner the reward, the creator the         *)
(* revenue) is refused for these reasons only: currency that an outsider    *)
(* sent to the revenue escrow of a raffle without buyers, the width of      *)
(* claim_mask, and a fee or share that overflows or exceeds the revenue.    *)
ClaimsNeverBlocked ==
  /\ status = "InProgress" /\ ticket_sold = 0 /\ revenue_deposits = 0
       => MayCancel
  /\ status = "Finished" /\ revenue_open /\ CanDistribute => MayClaimRevenue
  /\ ~IsTestEnvironment /\ status = "Finished" =>
       \A u \in Users, k \in 1..Len(winner_ids) :
         /\ HasPosition(u) /\ position_id[u] = winner_ids[k]
         /\ k <= MaskBits /\ k \notin claim_mask
         => MayClaimReward(u, k)

(* After the end of a sale without buyers a deposit locks the rewards up    *)
(* for good, in production: cancel_raffle cannot close a revenue escrow     *)
(* with currency in it, nobody is left to buy or to be drawn, and no other  *)
(* instruction reaches rewards or deposit.                                  *)
DepositLocksRewards ==
  [][(~IsTestEnvironment /\ status = "InProgress" /\ IsEnded
        /\ ticket_sold = 0 /\ revenue_deposits > 0) =>
       /\ status' = "InProgress"
       /\ rewards_escrow' >= rewards_escrow
       /\ revenue_escrow' >= revenue_escrow]_vars

(* A finished or cancelled raffle keeps its status and its winners.         *)
WinnersAreFinal ==
  [][(~IsTestEnvironment /\ status \in {"Finished", "Cancelled"}) =>
       UNCHANGED <<status, winner_ids>>]_vars

(* Nothing is sold after the end, so the tickets the drawing weighs are the *)
(* tickets sold.                                                            *)
SaleEndsWithTheClock ==
  [][(status # "NotCreated" /\ IsEnded) =>
       IsEnded' /\ UNCHANGED <<termVars, saleVars>>]_vars

(* A winner needs nobody's help once the winners are drawn.                 *)
WinnerIsServed(u) ==
  (~IsTestEnvironment /\ status = "Finished" /\ HasPosition(u)
     /\ \E k \in 1..Len(winner_ids) : winner_ids[k] = position_id[u])
  ~> nfts[u] = 1

(* With enough participants the raffle is made and the revenue paid out,    *)
(* though no buyer does anything after the purchase, and whatever outsiders *)
(* send to the escrows, unless the fee in force does not fit the revenue.   *)
CreatorIsPaid ==
  (status # "NotCreated" /\ ticket_sold > 0
     /\ num_ticket_positions >= num_raffled_nfts)
  ~> status = "Finished" /\ (revenue_open => ~CanDistribute)
-----------------------------------------------------------------------------
(* The test environment draws again and sets winners by hand: there the     *)
(* raffle promises nothing, and is shown as one that is never listed.       *)
InProduction(x, unlisted) == IF IsTestEnvironment THEN unlisted ELSE x

(* The phase the clock and the status stand for: the end is nowhere stored. *)
Phase ==
  CASE status = "NotCreated" -> "unlisted"
    [] status = "InProgress" -> IF IsEnded THEN "ended" ELSE "selling"
    [] status = "Finished"   -> "drawn"
    [] status = "Cancelled"  -> "withdrawn"

(* The users the ids drawn are positions of. *)
Winners ==
  {u \in Users : HasPosition(u)
                  /\ \E k \in 1..Len(winner_ids) :
                       winner_ids[k] = position_id[u]}

Served == {u \in Users \ {Creator} : nfts[u] # 0}

Collected == status = "Finished" /\ ~revenue_open

(* Of the revenue escrow, what the sale brought in. *)
Unclaimed == IF revenue_open THEN revenue_escrow - revenue_deposits ELSE 0

Promise == INSTANCE RafflePromise WITH
  phase     <- InProduction(Phase, "unlisted"),
  price     <- InProduction(ticket_price, 0),
  tickets   <- InProduction(total_num_tickets, [u \in Users |-> 0]),
  revenue   <- InProduction(Unclaimed, 0),
  rewards   <- InProduction(rewards_escrow - reward_deposits, 0),
  winners   <- InProduction(Winners, {}),
  served    <- InProduction(Served, {}),
  collected <- InProduction(Collected, FALSE)

(* The instructions, with ids for users, a mask for those served, a second  *)
(* account of the tickets for the drawing, escrows that close when empty,   *)
(* outsiders' deposits and updates of the configuration, amount to the      *)
(* raffle a buyer has in mind: tickets until the end, one drawing among the *)
(* holders, a reward for each winner.                                       *)
KeepsPromise == Promise!Spec
-----------------------------------------------------------------------------
(* Statements of the repository's documents that the code does not keep.    *)

(* README.md:72: creators can claim remaining rewards when there are less   *)
(* participants than winners.                                               *)
FewParticipantsServed ==
  (status = "InProgress" /\ IsEnded /\ ticket_sold > 0
     /\ num_ticket_positions < num_raffled_nfts)
  ~> nfts[Creator] = CreatorNfts - num_ticket_positions

(* claim_raffle_revenue.rs:13-16 and 52: the fee goes to the Justies fee    *)
(* treasury, whose address a constraint verifies.                           *)
FeeReachesTreasury == \A t \in FeeOwners \ {FeeTreasury} : fee_paid[t] = 0
=============================================================================
