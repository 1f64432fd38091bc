---------------------- MODULE RevenueDistributionProof ----------------------
(***************************************************************************)
(* The distribution of revenue for every amount, fee rate and list of      *)
(* shares. The loop invariant relates what remains of the money to what    *)
(* remains of the basis points: money * 10000 >= total * share. It keeps   *)
(* the rounded share of the next receiver within what is left, and gives   *)
(* the receiver of the remainder no less than a rounded share; that the    *)
(* difference is less than 10000 per share paid bounds the dust.           *)
(***************************************************************************)
EXTENDS RevenueDistribution, ArithmeticProof

(* In the loop the escrow holds what remains of the money, which covers    *)
(* what remains of the shares.                                             *)
LoopInv ==
  step \in {"distribute", "done"} =>
    /\ escrow = remaining_revenue
    /\ fee <= revenue
    /\ next <= Len(shares) + 1
    /\ remaining_share = BPS - Prefix(shares, next - 1)
    /\ remaining_share = 0 => remaining_revenue = 0
    /\ TotalAmount * remaining_share <= remaining_revenue * BPS
    /\ remaining_revenue * BPS
         <= TotalAmount * remaining_share + (next - 1) * (BPS - 1)

EntryInv ==
  /\ step \in {"fee", "distribute", "done"} => accounts_match /\ ValidShares
  /\ step \in {"validate", "fee"} =>
       /\ escrow = revenue
       /\ remaining_revenue = revenue
       /\ remaining_share = BPS
       /\ next = 1
       /\ fee = 0
       /\ paid = [k \in Receivers |-> 0]

IInv ==
  /\ TypeOK
  /\ EntryInv
  /\ LoopInv
  /\ NobodyShortchanged
  /\ DustIsBounded
  /\ AbortsForCause
-----------------------------------------------------------------------------
(* A share of at most the remaining share is a product of at most theirs.  *)
LEMMA ProductMonotone ==
  ASSUME NEW t \in Nat, NEW r \in Nat, NEW s \in Nat, s <= r
  PROVE  t * s <= t * r
BY SMT

LEMMA ProductDistributes ==
  ASSUME NEW t \in Nat, NEW r \in Nat, NEW s \in Nat
  PROVE  t * (r - s) = t * r - t * s
BY SMT

(* Rounding down: a portion times 10000 is at most the product, and an     *)
(* amount whose 10000-fold reaches the product is at least the portion.    *)
LEMMA PortionRounds ==
  ASSUME NEW t \in Nat, NEW s \in Nat, NEW r \in Nat
  PROVE  /\ Portion(t, s) * BPS <= t * s
         /\ t * s <= r * BPS => Portion(t, s) <= r
         /\ t * s <= Portion(t, s) * BPS + (BPS - 1)
<1> DEFINE p == t * s
<1>1. p \in Nat
  BY ProductNat
<1> HIDE DEF p
<1>2. /\ (p \div 10000) * 10000 <= p
      /\ p <= r * 10000 => p \div 10000 <= r
      /\ p <= (p \div 10000) * 10000 + 9999
  BY <1>1, SMT
<1> QED
  BY <1>2 DEF Portion, BPS, p

(* The shares are naturals, and no prefix of them exceeds the whole.       *)
LEMMA SharesInRange ==
  ASSUME TypeOK, ValidShares, NEW k \in Receivers
  PROVE  /\ shares[k] \in Nat
         /\ Prefix(shares, k - 1) \in Nat
         /\ Prefix(shares, k) = Prefix(shares, k - 1) + shares[k]
         /\ Prefix(shares, k) <= BPS
<1>1. shares \in ShareConfigs /\ shares \in Seq(Nat)
  BY InputsAssumption DEF TypeOK
<1>2. Len(shares) \in Nat /\ k \in 1..Len(shares) /\ shares[k] \in Nat
  BY <1>1 DEF Receivers
<1>3. /\ Prefix(shares, k) = Prefix(shares, k - 1) + shares[k]
      /\ Prefix(shares, k) <= Prefix(shares, Len(shares))
      /\ Prefix(shares, k - 1) \in Nat
  BY <1>1, <1>2, SumOfFirst DEF Prefix
<1> QED
  BY <1>2, <1>3 DEF ValidShares

(* What one turn of the loop pays: never more than what remains, never     *)
(* less than the rounded share, and the invariant's inequality again.      *)
LEMMA TurnOfLoop ==
  ASSUME IInv, step = "distribute", next \in Receivers
  PROVE  LET a == DistributeAmount
             s == shares[next]
         IN  /\ a \in Nat /\ a <= remaining_revenue
             /\ a >= Portion(TotalAmount, s)
             /\ s \in Nat /\ s <= remaining_share
             /\ remaining_share - s = BPS - Prefix(shares, next)
             /\ remaining_share - s = 0 => remaining_revenue - a = 0
             /\ TotalAmount * (remaining_share - s)
                  <= (remaining_revenue - a) * BPS
             /\ (remaining_revenue - a) * BPS
                  <= TotalAmount * (remaining_share - s) + next * (BPS - 1)
             /\ a < Portion(TotalAmount, s) + next
             /\ s = 0 => a = 0
<1> DEFINE T == TotalAmount
           a == DistributeAmount
           s == shares[next]
           m == remaining_revenue
           r == remaining_share
<1>1. /\ ValidShares /\ T * r <= m * BPS
      /\ r = BPS - Prefix(shares, next - 1)
      /\ m * BPS <= T * r + (next - 1) * (BPS - 1)
      /\ r = 0 => m = 0
  BY DEF IInv, EntryInv, LoopInv
<1>2. m \in Nat /\ r \in Nat /\ T \in Nat /\ next \in Nat \ {0}
  BY DEF IInv, TypeOK, LoopInv, TotalAmount
<1>3. s \in Nat /\ s <= r /\ r - s = BPS - Prefix(shares, next)
  BY <1>1, <1>2, SharesInRange DEF IInv, BPS
<1>4. CASE r = s
  <2>1. a = m
    BY <1>4 DEF DistributeAmount
  <2>2. Portion(T, s) <= m
    BY <1>1, <1>2, <1>3, <1>4, PortionRounds
  <2>3. T * (r - s) = 0 /\ (m - a) * BPS = 0
    BY <1>2, <1>3, <1>4, <2>1, SMT DEF BPS
  <2>5. a < Portion(T, s) + next
    <3> DEFINE x == T * s
               q == Portion(T, s)
    <3>1. x \in Nat /\ q \in Nat
      BY <1>2, <1>3, ProductNat, PortionNat
    <3>2. x <= q * BPS + (BPS - 1)
      BY <1>2, <1>3, PortionRounds
    <3>3. a * BPS <= x + (next - 1) * (BPS - 1)
      BY <1>1, <1>4, <2>1
    <3> HIDE DEF T, a, s, m, r, x, q
    <3> QED
      BY <1>2, <2>1, <3>1, <3>2, <3>3, SMT DEF BPS, q
  <2> HIDE DEF T, a, s, m, r
  <2>4. a \in Nat /\ a <= m /\ m - a = 0
    BY <1>2, <2>1
  <2>6. (m - a) * BPS <= T * (r - s) + next * (BPS - 1)
    BY <1>2, <2>3, SMT DEF BPS
  <2>7. s = 0 => a = 0
    BY <1>1, <1>4, <2>1
  <2> QED
    BY <1>2, <1>3, <2>1, <2>2, <2>3, <2>4, <2>5, <2>6, <2>7
       DEF T, a, s, m, r
<1>5. CASE r # s
  <2>1. a = Portion(T, s) /\ a \in Nat
    BY <1>2, <1>3, <1>5, PortionNat DEF DistributeAmount
  <2>2. T * s <= T * r
    BY <1>2, <1>3, ProductMonotone
  <2>3. T * s \in Nat /\ T * r \in Nat
    BY <1>2, <1>3, ProductNat
  <2>4. a * BPS <= T * s
    BY <1>2, <1>3, <2>1, PortionRounds
  <2>5. a <= m
    <3>1. T * s <= m * BPS
      BY <1>1, <1>2, <2>2, <2>3 DEF BPS
    <3> QED
      BY <1>2, <1>3, <2>1, <3>1, PortionRounds
  <2>6. T * (r - s) = T * r - T * s
    BY <1>2, <1>3, ProductDistributes
  <2> DEFINE x == T * s
             y == T * r
             z == T * (r - s)
  <2>7. /\ x \in Nat /\ y \in Nat /\ z = y - x /\ a * BPS <= x
        /\ y <= m * BPS /\ m * BPS <= y + (next - 1) * (BPS - 1)
        /\ x <= a * BPS + (BPS - 1)
    BY <1>1, <1>2, <1>3, <2>1, <2>3, <2>4, <2>6, PortionRounds
  <2> HIDE DEF x, y, z
  <2>8. z <= (m - a) * BPS
    <3> HIDE DEF T, a, s, m, r
    <3> QED
      BY <1>2, <2>1, <2>7, SMT DEF BPS
  <2>9. r - s # 0
    BY <1>2, <1>3, <1>5
  <2>10. (m - a) * BPS <= z + next * (BPS - 1)
    <3> HIDE DEF T, a, s, m, r
    <3> QED
      BY <1>2, <2>1, <2>7, SMT DEF BPS
  <2>11. s = 0 => a = 0
    BY <1>2, <2>1, PortionOfNothing DEF Portion, BPS
  <2>12. a < Portion(T, s) + next
    BY <1>2, <2>1
  <2> QED
    BY <1>3, <2>1, <2>5, <2>8, <2>9, <2>10, <2>11, <2>12 DEF z
<1> QED
  BY <1>4, <1>5
-----------------------------------------------------------------------------
(* A receiver who is paid nothing yet is within the bound on the dust.     *)
LEMMA NothingIsWithinDust ==
  ASSUME NEW s \in ShareConfigs, NEW t \in Nat, NEW k \in 1..Len(s)
  PROVE  0 < Portion(t, s[k]) + Len(s)
<1>1. s[k] \in Nat /\ Len(s) \in Nat /\ Len(s) >= 1
  BY InputsAssumption
<1>2. Portion(t, s[k]) \in Nat
  BY <1>1, PortionNat
<1> QED
  BY <1>1, <1>2

LEMMA InitIInv == Init => IInv
<1> SUFFICES ASSUME Init PROVE IInv
  OBVIOUS
<1>1. TypeOK
  BY InputsAssumption DEF Init, TypeOK, BPS, Receivers
<1>2. EntryInv /\ LoopInv /\ NobodyShortchanged /\ AbortsForCause
  BY DEF Init, EntryInv, LoopInv, NobodyShortchanged, AbortsForCause
<1>3. DustIsBounded
  <2>1. TotalAmount \in Nat
    BY <1>1 DEF Init, TotalAmount, TypeOK
  <2> QED
    BY <1>1, <2>1, NothingIsWithinDust
       DEF Init, TypeOK, DustIsBounded, Receivers
<1> QED
  BY <1>1, <1>2, <1>3 DEF IInv

LEMMA ValidateIInv ==
  ASSUME IInv, Validate
  PROVE  IInv'
<1> USE DEF IInv, Validate, inputs
<1>1. TypeOK'
  BY DEF TypeOK, Receivers
<1>2. EntryInv' /\ LoopInv' /\ NobodyShortchanged' /\ AbortsForCause'
  BY DEF EntryInv, LoopInv, NobodyShortchanged, AbortsForCause, ValidShares,
         Receivers
<1>3. DustIsBounded'
  BY DEF DustIsBounded, Receivers, TotalAmount
<1> QED
  BY <1>1, <1>2, <1>3

LEMMA CollectFeesIInv ==
  ASSUME IInv, CollectFees
  PROVE  IInv'
<1> USE DEF IInv, CollectFees, inputs
<1>1. FeeAmount \in Nat /\ FeeAmount <= revenue
  BY PortionNat DEF TypeOK, FeeAmount, FeeFits
<1>2. revenue - FeeAmount \in Nat
  BY <1>1 DEF TypeOK
<1>3. escrow' = revenue - FeeAmount /\ remaining_revenue' = revenue - FeeAmount
      /\ remaining_share' = BPS /\ next' = 1 /\ step' = "distribute"
      /\ fee' = FeeAmount /\ UNCHANGED <<inputs, paid>>
  BY DEF EntryInv
<1>4. TypeOK'
  BY <1>1, <1>2, <1>3 DEF TypeOK, Receivers, BPS
<1>5. EntryInv'
  BY <1>3 DEF EntryInv, ValidShares
<1>6. LoopInv'
  <2>1. shares \in ShareConfigs /\ Len(shares) \in Nat
    BY InputsAssumption DEF TypeOK
  <2>2. Prefix(shares, 0) = 0
    BY SumEmpty DEF Prefix
  <2>3. TotalAmount' = revenue - FeeAmount
    BY <1>3 DEF TotalAmount
  <2>4. /\ next' - 1 = 0 /\ BPS > 0 /\ BPS \in Nat
        /\ next' <= Len(shares') + 1 /\ BPS = BPS - Prefix(shares', next' - 1)
    BY <1>3, <2>1, <2>2 DEF inputs, BPS
  <2> DEFINE m == revenue - FeeAmount
  <2>5. /\ remaining_revenue' = m /\ TotalAmount' = m /\ m \in Nat
        /\ escrow' = m /\ remaining_share' = BPS
        /\ fee' <= revenue'
    BY <1>1, <1>2, <1>3, <2>3
  <2> HIDE DEF m
  <2>6. m * BPS <= m * BPS + 0 * (BPS - 1)
    BY <2>5, SMT DEF BPS
  <2> QED
    BY <2>4, <2>5, <2>6 DEF LoopInv
<1>7. NobodyShortchanged' /\ AbortsForCause'
  BY <1>3, InputsAssumption DEF NobodyShortchanged, AbortsForCause, Receivers, TypeOK
<1>8. DustIsBounded'
  <2>1. paid = [k \in Receivers |-> 0]
    BY DEF EntryInv
  <2>2. paid' = [k \in Receivers' |-> 0]
    BY <1>3, <2>1 DEF Receivers
  <2>3. TotalAmount' \in Nat /\ shares' \in ShareConfigs
    BY <1>1, <1>3, <1>4 DEF TypeOK, TotalAmount
  <2> QED
    BY <2>2, <2>3, NothingIsWithinDust DEF DustIsBounded, Receivers
<1> QED
  BY <1>4, <1>5, <1>6, <1>7, <1>8

LEMMA MakeDistributionIInv ==
  ASSUME IInv, MakeDistribution
  PROVE  IInv'
<1> DEFINE a == DistributeAmount
           s == shares[next]
<1>1. step = "distribute" /\ next \in Receivers
  BY DEF MakeDistribution
<1>2. /\ a \in Nat /\ a <= remaining_revenue
      /\ a >= Portion(TotalAmount, s)
      /\ s \in Nat /\ s <= remaining_share
      /\ remaining_share - s = BPS - Prefix(shares, next)
      /\ remaining_share - s = 0 => remaining_revenue - a = 0
      /\ TotalAmount * (remaining_share - s) <= (remaining_revenue - a) * BPS
      /\ (remaining_revenue - a) * BPS
           <= TotalAmount * (remaining_share - s) + next * (BPS - 1)
      /\ a < Portion(TotalAmount, s) + next
      /\ s = 0 => a = 0
  BY <1>1, TurnOfLoop
<1>3. /\ paid' = [paid EXCEPT ![next] = a]
      /\ escrow' = escrow - a
      /\ remaining_revenue' = remaining_revenue - a
      /\ remaining_share' = remaining_share - s
      /\ next' = next + 1
      /\ UNCHANGED <<revenue, fee_rate, shares, accounts_match, step, fee>>
  BY DEF MakeDistribution, inputs
<1>4. TotalAmount' = TotalAmount /\ Receivers' = Receivers
  BY <1>3 DEF TotalAmount, Receivers
<1> HIDE DEF a, s
<1>5. escrow = remaining_revenue /\ fee <= revenue
  BY <1>1 DEF IInv, LoopInv
<1>6. next \in Nat /\ next <= Len(shares) /\ Len(shares) \in Nat
  BY <1>1, InputsAssumption DEF Receivers, IInv, TypeOK
<1>7. TypeOK'
  <2>1. escrow' \in Nat /\ remaining_revenue' \in Nat /\ next' \in Nat \ {0}
    BY <1>2, <1>3, <1>5, <1>6 DEF IInv, TypeOK
  <2>2. remaining_share' \in 0..BPS
    <3>1. remaining_share \in 0..BPS
      BY DEF IInv, TypeOK
    <3> QED
      BY <1>2, <1>3, <3>1 DEF BPS
  <2>3. paid' \in [Receivers' -> Nat]
    BY <1>2, <1>3, <1>4 DEF IInv, TypeOK
  <2> QED
    BY <1>3, <2>1, <2>2, <2>3 DEF IInv, TypeOK
<1>8. EntryInv'
  BY <1>1, <1>3 DEF IInv, EntryInv, ValidShares
<1>9. LoopInv'
  <2>1. next' - 1 = next /\ next' <= Len(shares') + 1
    BY <1>3, <1>6
  <2> QED
    BY <1>2, <1>3, <1>4, <1>5, <2>1 DEF LoopInv
<1>10. NobodyShortchanged'
  <2>1. ASSUME NEW k \in Receivers, k < next + 1
        PROVE  paid'[k] >= Portion(TotalAmount, shares[k])
    <3>1. CASE k = next
      BY <1>2, <1>3, <3>1, <2>1 DEF IInv, TypeOK, s
    <3>2. CASE k # next
      <4>1. k < next
        BY <1>6, <2>1, <3>2 DEF Receivers
      <4> QED
        BY <1>1, <1>3, <2>1, <3>2, <4>1 DEF IInv, TypeOK, NobodyShortchanged
    <3> QED
      BY <3>1, <3>2
  <2> QED
    BY <1>3, <1>4, <2>1 DEF NobodyShortchanged
<1>11. AbortsForCause'
  BY <1>1, <1>3 DEF AbortsForCause
<1>12. DustIsBounded'
  <2>1. ASSUME NEW k \in Receivers
        PROVE  /\ paid'[k] < Portion(TotalAmount, shares[k]) + Len(shares)
               /\ shares[k] = 0 => paid'[k] = 0
    <3>1. CASE k = next
      <4>1. paid'[k] = a /\ shares[k] = s
        BY <1>3, <3>1, <2>1 DEF IInv, TypeOK, s
      <4>2. TotalAmount \in Nat
        BY <1>5 DEF IInv, TypeOK, TotalAmount
      <4>3. Portion(TotalAmount, s) \in Nat
        BY <1>2, <4>2, PortionNat
      <4> QED
        BY <1>2, <1>6, <4>1, <4>3
    <3>2. CASE k # next
      BY <1>3, <2>1, <3>2 DEF IInv, TypeOK, DustIsBounded
    <3> QED
      BY <3>1, <3>2
  <2> QED
    BY <1>3, <1>4, <2>1 DEF DustIsBounded
<1> QED
  BY <1>7, <1>8, <1>9, <1>10, <1>11, <1>12 DEF IInv

LEMMA CloseEscrowIInv ==
  ASSUME IInv, CloseEscrow
  PROVE  IInv'
<1> USE DEF IInv, CloseEscrow, inputs
<1>1. TypeOK'
  BY DEF TypeOK, Receivers
<1>2. EntryInv'
  BY DEF EntryInv, ValidShares
<1>3. LoopInv'
  BY DEF LoopInv, TotalAmount
<1>4. NobodyShortchanged' /\ AbortsForCause' /\ DustIsBounded'
  BY DEF NobodyShortchanged, AbortsForCause, DustIsBounded, Receivers,
         TotalAmount
<1> QED
  BY <1>1, <1>2, <1>3, <1>4

(* With every receiver paid the basis points are used up, and so is the    *)
(* money.                                                                  *)
LEMMA LoopEmptiesEscrow ==
  ASSUME IInv
  PROVE  NothingLeft
<1> SUFFICES ASSUME step = "distribute", next \notin Receivers
             PROVE  escrow = 0
  BY DEF NothingLeft
<1>1. Len(shares) \in Nat /\ next \in Nat \ {0}
  BY InputsAssumption DEF IInv, TypeOK
<1>2. next = Len(shares) + 1
  BY <1>1 DEF IInv, LoopInv, Receivers
<1>3. next - 1 = Len(shares)
  BY <1>1, <1>2
<1>4. remaining_share = 0
  BY <1>3 DEF IInv, LoopInv, EntryInv, ValidShares, BPS
<1> QED
  BY <1>4 DEF IInv, LoopInv

(* A product with at most 10000 that overflows is one the whole revenue    *)
(* times 10000 overflows too.                                              *)
LEMMA SmallerProductFits ==
  ASSUME NEW t \in Nat, NEW v \in Nat, NEW s \in Nat, NEW max \in Nat,
         s <= BPS, t <= v, v * BPS <= max
  PROVE  PortionFits(t, s, max)
<1> DEFINE x == t * s
<1>1. x <= t * BPS
  BY ProductMonotone DEF BPS
<1>2. x \in Nat
  BY ProductNat DEF BPS
<1> HIDE DEF x
<1>3. x <= max
  BY <1>1, <1>2, SMT DEF BPS
<1> QED
  BY <1>3 DEF PortionFits, x

LEMMA AbortIInv ==
  ASSUME IInv, Abort
  PROVE  IInv'
<1> USE DEF IInv
<1>1. /\ step' = "aborted" /\ escrow' = revenue /\ fee' = 0
      /\ paid' = [k \in Receivers |-> 0]
      /\ UNCHANGED <<revenue, fee_rate, shares, accounts_match,
                     remaining_revenue, remaining_share, next>>
  BY DEF Abort, inputs
<1>2. TypeOK'
  BY <1>1 DEF TypeOK, Receivers
<1>3. EntryInv' /\ LoopInv' /\ NobodyShortchanged'
  BY <1>1 DEF EntryInv, LoopInv, NobodyShortchanged
<1>4. ASSUME accounts_match, Prefix(shares, Len(shares)) = BPS, U16Max >= BPS,
             fee_rate <= BPS, revenue * BPS <= U64Max
      PROVE  FALSE
  <2>1. ValidShares
    BY <1>4 DEF ValidShares
  <2>2. revenue \in Nat /\ fee_rate \in Nat /\ fee_rate \in 0..BPS /\ U64Max \in Nat
    BY <1>4, InputsAssumption DEF TypeOK, BPS
  <2>3. FeeFits
    BY <1>4, <2>2, SmallerProductFits, PortionAtMost DEF FeeFits, FeeAmount
  <2>4. ASSUME step = "distribute", next \in Receivers
        PROVE  DistributionFits
    <3>1. /\ shares[next] \in Nat /\ shares[next] <= remaining_share
          /\ DistributeAmount <= remaining_revenue
      BY <2>4, TurnOfLoop
    <3>2. TotalAmount \in Nat /\ TotalAmount <= revenue
      BY <2>4 DEF LoopInv, TypeOK, TotalAmount
    <3>3. shares[next] <= BPS
      <4>1. remaining_share \in Nat /\ remaining_share <= BPS
        BY DEF TypeOK, BPS
      <4> QED
        BY <3>1, <4>1 DEF BPS
    <3>4. PortionFits(TotalAmount, shares[next], U64Max)
      BY <1>4, <2>2, <3>1, <3>2, <3>3, SmallerProductFits
    <3> QED
      BY <3>1, <3>4 DEF DistributionFits
  <2> QED
    BY <1>4, <2>1, <2>3, <2>4, LoopEmptiesEscrow DEF Abort, NothingLeft
<1>5. AbortsForCause'
  BY <1>1, <1>4, InputsAssumption DEF AbortsForCause, TypeOK, BPS
<1>6. DustIsBounded'
  <2>1. TotalAmount' \in Nat /\ shares' \in ShareConfigs
    BY <1>1 DEF TypeOK, TotalAmount
  <2>2. paid' = [k \in Receivers' |-> 0]
    BY <1>1 DEF Receivers
  <2> QED
    BY <2>1, <2>2, NothingIsWithinDust DEF DustIsBounded, Receivers
<1> QED
  BY <1>2, <1>3, <1>5, <1>6

LEMMA StepIInv ==
  ASSUME IInv, [Next]_vars
  PROVE  IInv'
<1>1. CASE Validate
  BY <1>1, ValidateIInv
<1>2. CASE CollectFees
  BY <1>2, CollectFeesIInv
<1>3. CASE MakeDistribution
  BY <1>3, MakeDistributionIInv
<1>4. CASE CloseEscrow
  BY <1>4, CloseEscrowIInv
<1>5. CASE Abort
  BY <1>5, AbortIInv
<1>6. CASE UNCHANGED vars
  BY <1>6 DEF vars, inputs, IInv, TypeOK, EntryInv, LoopInv, AbortsForCause,
              NobodyShortchanged, DustIsBounded, Receivers, TotalAmount,
              ValidShares
<1> QED
  BY <1>1, <1>2, <1>3, <1>4, <1>5, <1>6 DEF Next, Finished

(* The loop invariant holds for every revenue, rate and list of shares.    *)
THEOREM Invariance == Spec => []IInv
<1> QED
  BY InitIInv, StepIInv, PTL DEF Spec

(* No balance is ever negative and nothing remaining underflows.           *)
THEOREM TypeCorrect == Spec => []TypeOK
<1>1. IInv => TypeOK
  BY DEF IInv
<1> QED
  BY <1>1, Invariance, PTL

(* After the last receiver the escrow is empty, so that it can be closed.  *)
THEOREM EscrowIsEmptied == Spec => []NothingLeft
<1> QED
  BY LoopEmptiesEscrow, Invariance, PTL

(* Every receiver gets at least the rounded share, and less than a token   *)
(* per receiver more.                                                      *)
THEOREM SharesArePaid == Spec => []SharesAreFair
<1>1. IInv => SharesAreFair
  BY DEF IInv, SharesAreFair
<1> QED
  BY <1>1, Invariance, PTL

(* Well-formed inputs whose products fit are always distributed.           *)
THEOREM OnlyBadInputAborts == Spec => []AbortsForCause
<1>1. IInv => AbortsForCause
  BY DEF IInv
<1> QED
  BY <1>1, Invariance, PTL
=============================================================================
