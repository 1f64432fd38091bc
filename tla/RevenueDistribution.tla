------------------------ MODULE RevenueDistribution ------------------------
(***************************************************************************)
(* How a claim of revenue empties an escrow: the fee, then one transfer    *)
(* per receiver, then the close of the escrow account, which the program   *)
(* refuses unless nothing is left in it. The steps of the one transaction  *)
(* are actions here; an abort at any of them undoes all of them.           *)
(*                                                                         *)
(* The question is arithmetic: every share is rounded down, and the        *)
(* receiver whose share equals what remains of the 10000 basis points takes*)
(* what remains of the money.                                              *)
(***************************************************************************)
EXTENDS IntegerDivision, Sequences, Functions

CONSTANTS
  Revenues,      \* amounts the escrow may hold
  FeeRates,      \* market_fee_rate_bps, any u16 (init does not check it)
  ShareConfigs,  \* sequences of share_bps a creator may submit
  U16Max,        \* 65535 in the code
  U64Max         \* 2^64 - 1 in the code

ASSUME InputsAssumption ==
  /\ Revenues \subseteq Nat
  /\ FeeRates \subseteq Nat
  /\ ShareConfigs \subseteq Seq(Nat)
  /\ U16Max \in Nat
  /\ U64Max \in Nat

VARIABLES
  revenue,            \* the escrow's balance when the claim executes
  fee_rate,           \* GlobalStates.market_fee_rate_bps
  shares,             \* share_bps of the receivers, in order
  accounts_match,     \* the caller's accounts are the configured receivers'
  step,               \* the next step of the transaction
  escrow,             \* revenue_escrow_token_account.amount
  fee,                \* transferred to the fee treasury
  paid,               \* transferred to each receiver
  remaining_revenue,  \* as in distribute_revenue
  remaining_share,    \* as in distribute_revenue
  next                \* index of the receiver to pay next

inputs == <<revenue, fee_rate, shares, accounts_match>>
vars == <<inputs, step, escrow, fee, paid, remaining_revenue, remaining_share,
          next>>
-----------------------------------------------------------------------------
Receivers == 1..Len(shares)

TotalAmount == revenue - fee

(* The sum of the first k shares. *)
Prefix(s, k) == SumFunctionOnSet(s, 1..k)

(* validate_share_configs: the u16 sum neither overflows nor differs from   *)
(* 10000.                                                                   *)
ValidShares ==
  /\ Prefix(shares, Len(shares)) <= U16Max
  /\ Prefix(shares, Len(shares)) = BPS

FeeAmount == Portion(revenue, fee_rate)

(* Faulty: a fee above 100% is not noticed. *)
FeeUnchecked == PortionFits(revenue, fee_rate, U64Max)

(* The product and the u64 subtraction of collect_fees do not overflow. *)
FeeFits == PortionFits(revenue, fee_rate, U64Max) /\ FeeAmount <= revenue

(* Faulty: every receiver gets the rounded share, the last one too. *)
RoundedAmount == Portion(TotalAmount, shares[next])

(* Faulty: the last share takes a share of what remains. *)
ShareOfRemainder == Portion(remaining_revenue, shares[next])

(* Faulty: the fee is not deducted before the shares are computed. *)
ShareOfGross ==
  IF remaining_share = shares[next]
  THEN remaining_revenue
  ELSE Portion(revenue, shares[next])

(* make_distribution *)
DistributeAmount ==
  IF remaining_share = shares[next]
  THEN remaining_revenue
  ELSE Portion(TotalAmount, shares[next])

(* Only the rounded branch multiplies; both subtractions are unsigned. *)
DistributionFits ==
  /\ \/ remaining_share = shares[next]
     \/ PortionFits(TotalAmount, shares[next], U64Max)
  /\ DistributeAmount <= remaining_revenue
  /\ shares[next] <= remaining_share
-----------------------------------------------------------------------------
Init ==
  /\ revenue \in Revenues
  /\ fee_rate \in FeeRates
  /\ shares \in ShareConfigs
  /\ accounts_match \in BOOLEAN
  /\ step = "validate"
  /\ escrow = revenue
  /\ fee = 0
  /\ paid = [k \in Receivers |-> 0]
  /\ remaining_revenue = revenue
  /\ remaining_share = BPS
  /\ next = 1

(* init_revenue_distribution_accounts, then validate. *)
Validate ==
  /\ step = "validate"
  /\ accounts_match
  /\ ValidShares
  /\ step' = "fee"
  /\ UNCHANGED <<inputs, escrow, fee, paid, remaining_revenue,
                 remaining_share, next>>

CollectFees ==
  /\ step = "fee"
  /\ FeeFits
  /\ fee' = FeeAmount
  /\ escrow' = escrow - FeeAmount
  /\ remaining_revenue' = revenue - FeeAmount
  /\ step' = "distribute"
  /\ UNCHANGED <<inputs, paid, remaining_share, next>>

MakeDistribution ==
  /\ step = "distribute"
  /\ next \in Receivers
  /\ DistributionFits
  /\ paid' = [paid EXCEPT ![next] = DistributeAmount]
  /\ escrow' = escrow - DistributeAmount
  /\ remaining_revenue' = remaining_revenue - DistributeAmount
  /\ remaining_share' = remaining_share - shares[next]
  /\ next' = next + 1
  /\ UNCHANGED <<inputs, step, fee>>

CloseEscrow ==
  /\ step = "distribute"
  /\ next \notin Receivers
  /\ escrow = 0
  /\ step' = "done"
  /\ UNCHANGED <<inputs, escrow, fee, paid, remaining_revenue,
                 remaining_share, next>>

(* An error or an overflow panic: nothing the transaction did remains. *)
Abort ==
  /\ \/ step = "validate" /\ ~(accounts_match /\ ValidShares)
     \/ step = "fee" /\ ~FeeFits
     \/ step = "distribute" /\ next \in Receivers /\ ~DistributionFits
     \/ step = "distribute" /\ next \notin Receivers /\ escrow # 0
  /\ step' = "aborted"
  /\ escrow' = revenue
  /\ fee' = 0
  /\ paid' = [k \in Receivers |-> 0]
  /\ UNCHANGED <<inputs, remaining_revenue, remaining_share, next>>

Finished == step \in {"done", "aborted"} /\ UNCHANGED vars

Next ==
  Validate \/ CollectFees \/ MakeDistribution \/ CloseEscrow \/ Abort \/ Finished

Spec == Init /\ [][Next]_vars
-----------------------------------------------------------------------------
(* The sets each variable ranges over: no balance is ever negative. *)
TypeOK ==
  /\ revenue \in Nat
  /\ fee_rate \in Nat
  /\ shares \in ShareConfigs
  /\ accounts_match \in BOOLEAN
  /\ step \in {"validate", "fee", "distribute", "done", "aborted"}
  /\ escrow \in Nat
  /\ fee \in Nat
  /\ paid \in [Receivers -> Nat]
  /\ remaining_revenue \in Nat
  /\ remaining_share \in 0..BPS
  /\ next \in Nat \ {0}

(* A distribution that leaves dust could never close the escrow, and the    *)
(* revenue would stay locked in it: with every receiver paid, nothing is    *)
(* left, for any amount, rate and shares, zero shares included.             *)
NothingLeft ==
  step = "distribute" /\ next \notin Receivers => escrow = 0

(* Rounding costs no receiver a token: each gets at least the rounded share *)
(* of what the fee leaves, also the one who takes the remainder.            *)
NobodyShortchanged ==
  \A k \in Receivers :
    step \in {"distribute", "done"} /\ k < next =>
      paid[k] >= Portion(TotalAmount, shares[k])

(* The dust is bounded: a receiver gets less than one token per receiver    *)
(* more than the rounded share, and a receiver without a share gets nothing.*)
DustIsBounded ==
  \A k \in Receivers :
    /\ paid[k] < Portion(TotalAmount, shares[k]) + Len(shares)
    /\ shares[k] = 0 => paid[k] = 0

(* Rounding moves less than a token per receiver between the receivers,     *)
(* whatever the number of shares, their order and the zeros among them.     *)
SharesAreFair == NobodyShortchanged /\ DustIsBounded

(* A claim aborts for a reason the caller or the authority can see: the     *)
(* wrong accounts, shares that do not sum to 100%, a fee above 100%, or an  *)
(* amount whose products do not fit. No rounding and no order of shares     *)
(* makes a subtraction underflow.                                           *)
AbortsForCause ==
  step = "aborted" =>
    \/ ~accounts_match
    \/ Prefix(shares, Len(shares)) # BPS
    \/ U16Max < BPS
    \/ fee_rate > BPS
    \/ revenue * BPS > U64Max
=============================================================================
