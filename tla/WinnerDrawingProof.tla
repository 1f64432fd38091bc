------------------------ MODULE WinnerDrawingProof -------------------------
(***************************************************************************)
(* Theorems of WinnerDrawing, for any numbers of participants, tickets and *)
(* winners and any width of the integers. IInv is inductive: the stacks of *)
(* the alias method hold each column once, in the stack its threshold      *)
(* belongs to, so a column filled up by another stays above zero, and each *)
(* participant can win in the column of its own. JInv is inductive with    *)
(* it: the sums over the table are kept, so the odds are exact, and what   *)
(* fits 16 bits at the start fits them all along.                          *)
(***************************************************************************)
EXTENDS WinnerDrawing, ArithmeticProof, SequenceTheorems

Stacked == Range(small) \cup Range(large)

(* The first loop has filed the columns before the next one. *)
FiledInOrder ==
  pc = "classify" =>
    /\ Len(small) + Len(large) <= n
    /\ Stacked = 0..(Len(small) + Len(large) - 1)

(* No participant of a drawing that fits loses all of its own column. *)
OwnColumnOpen ==
  Fits /\ Total > 0 =>
    /\ \A c \in Stacked : prob[c] > 0
    /\ pc \in {"pair", "sample", "done"} => \A c \in Columns : prob[c] > 0

(* What is drawn from are the tickets sold, the columns filed so far did    *)
(* not overflow, and who samples has a total to sample below.               *)
Weighed ==
  /\ total_weight = SumFunctionOnSet(weights, 1..n)
  /\ \A c \in Stacked : IsI16(ScaledMass(c))
  /\ pc \in {"pair", "sample", "done"} => \A c \in Columns : IsI16(ScaledMass(c))
  /\ winner_set # {} => Total > 0
  /\ pc = "done" => winner_set # {}

(* What the columns still in a stack hold above or below the total.         *)
Surplus == [c \in Columns |-> IF c \in Stacked THEN prob[c] - Total ELSE 0]

(* What the finished columns hold of participant i above their thresholds.  *)
Given(i) ==
  [c \in Columns |->
     IF c \notin Stacked /\ alias[c] = i THEN Total - prob[c] ELSE 0]

(* Mass is moved, never made or lost: the surplus of the large columns is   *)
(* what the small ones lack, and a participant has n times its tickets, in  *)
(* its own column and in those it filled up.                                *)
MassIsKept ==
  Total > 0 /\ pc \in {"pair", "sample", "done"} =>
    /\ SumFunctionOnSet(Surplus, Columns) = 0
    /\ \A i \in Columns :
         prob[i] + SumFunctionOnSet(Given(i), Columns) = n * weights[i + 1]

(* When the table is made each column is finished.                          *)
TableFull ==
  pc \in {"sample", "done"} =>
    /\ small = <<>>
    /\ large = <<>>
    /\ Total > 0 => \A c \in Columns : prob[c] <= Total

IInv ==
  /\ TypeOK
  /\ StacksPartition
  /\ FiledInOrder
  /\ OwnColumnOpen

(* The first loop files a column by n times the tickets of its participant. *)
FiledByMass ==
  pc = "classify" => \A c \in Stacked : prob[c] = ScaledMass(c)

JInv ==
  /\ Weighed
  /\ FiledByMass
  /\ MassIsKept
  /\ TableFull
  /\ PanicsOnlyPastWidth
-----------------------------------------------------------------------------
(* What pushing a new element on a stack does.                             *)
LEMMA Pushed ==
  ASSUME NEW S, NEW q \in Seq(S), NEW x \in S, x \notin Range(q),
         IsInjective(q)
  PROVE  /\ Append(q, x) \in Seq(S)
         /\ Len(Append(q, x)) = Len(q) + 1
         /\ Range(Append(q, x)) = Range(q) \cup {x}
         /\ IsInjective(Append(q, x))
<1>1. /\ Append(q, x) \in Seq(S) /\ Len(q) \in Nat
      /\ DOMAIN q = 1..Len(q)
      /\ Len(Append(q, x)) = Len(q) + 1
      /\ DOMAIN Append(q, x) = 1..(Len(q) + 1)
      /\ \A i \in 1..Len(q) : Append(q, x)[i] = q[i]
      /\ Append(q, x)[Len(q) + 1] = x
  BY AppendProperties, LenProperties
<1> DEFINE r == Append(q, x)
<1> HIDE DEF r
<1>2. /\ r \in Seq(S) /\ Len(r) = Len(q) + 1 /\ DOMAIN r = 1..(Len(q) + 1)
      /\ \A i \in 1..Len(q) : r[i] = q[i]
      /\ r[Len(q) + 1] = x
  BY <1>1 DEF r
<1>3. \A i \in DOMAIN r : i \in DOMAIN q \/ i = Len(q) + 1
  BY <1>1, <1>2
<1>4. \A i \in DOMAIN q : i \in DOMAIN r /\ i # Len(q) + 1
  BY <1>1, <1>2
<1>5. Len(q) + 1 \in DOMAIN r
  BY <1>1, <1>2
<1>6. Range(r) = Range(q) \cup {x}
  BY <1>1, <1>2, <1>3, <1>4, <1>5 DEF Range
<1>7. ASSUME NEW i \in DOMAIN r, NEW j \in DOMAIN r, r[i] = r[j]
      PROVE  i = j
  <2>1. \A k \in DOMAIN q : r[k] \in Range(q) /\ r[k] = q[k]
    BY <1>1, <1>2 DEF Range
  <2> QED
    BY <1>2, <1>3, <1>7, <2>1 DEF IsInjective
<1> QED
  BY <1>1, <1>2, <1>6, <1>7 DEF r, IsInjective

(* What popping the top of a stack does.                                   *)
LEMMA PoppedOff ==
  ASSUME NEW S, NEW q \in Seq(S), q # <<>>, IsInjective(q)
  PROVE  /\ Popped(q) \in Seq(S)
         /\ Top(q) \in S
         /\ Top(q) \notin Range(Popped(q))
         /\ Range(q) = Range(Popped(q)) \cup {Top(q)}
         /\ IsInjective(Popped(q))
         /\ Len(Popped(q)) = Len(q) - 1
<1>1. /\ Len(q) \in Nat /\ Len(q) > 0 /\ DOMAIN q = 1..Len(q)
      /\ \A i \in 1..Len(q) : q[i] \in S
  BY LenProperties, EmptySeq
<1> DEFINE m == Len(q) - 1
           r == SubSeq(q, 1, m)
<1>2. m \in Nat /\ Len(q) = m + 1
  BY <1>1
<1> HIDE DEF m
<1>3. \A i \in 1..m : q[i] \in S
  BY <1>1, <1>2
<1>4. /\ r \in Seq(S) /\ Len(r) = m
      /\ \A i \in 1..m : r[i] = q[i]
  <2>1. /\ r \in Seq(S)
        /\ Len(r) = IF 1 <= m THEN m - 1 + 1 ELSE 0
        /\ \A i \in 1..(m - 1 + 1) : r[i] = q[1 + i - 1]
    BY <1>2, <1>3, SubSeqProperties
  <2> QED
    BY <1>2, <2>1
<1> HIDE DEF r
<1>5. DOMAIN r = 1..m
  BY <1>2, <1>4, LenProperties
<1>6. /\ \A i \in DOMAIN q : i \in DOMAIN r \/ i = m + 1
      /\ \A i \in DOMAIN r : i \in DOMAIN q /\ i # m + 1
      /\ m + 1 \in DOMAIN q
  BY <1>1, <1>2, <1>5
<1>7. Range(q) = Range(r) \cup {q[m + 1]}
  BY <1>4, <1>5, <1>6 DEF Range
<1>8. q[m + 1] \notin Range(r)
  BY <1>4, <1>5, <1>6 DEF Range, IsInjective
<1>9. IsInjective(r)
  BY <1>4, <1>5, <1>6 DEF IsInjective
<1>10. Popped(q) = r /\ Top(q) = q[m + 1]
  BY <1>2 DEF Popped, Top, r, m
<1> QED
  BY <1>1, <1>2, <1>4, <1>7, <1>8, <1>9, <1>10

(* Products that fit are those of factors that fit.                        *)
LEMMA FactorsFit ==
  ASSUME NEW a \in Nat \ {0}, NEW b \in Nat \ {0}, NEW m \in Nat, a * b <= m
  PROVE  a <= m /\ b <= m /\ a * b > 0
BY SMT

LEMMA TotalIsI16 ==
  ASSUME TypeOK
  PROVE  Total \in -(I16Max + 1)..I16Max
BY WeightingsAssumption DEF TypeOK, TicketTotals, Total, AsI16
-----------------------------------------------------------------------------
(* The promise is kept: only the last step shows, once, with the winners.  *)
LEMMA StepKeepsPromise ==
  ASSUME TypeOK, [Next]_vars
  PROVE  [Promise!Choose]_(Promise!vars)
<1>1. CASE Return
  <2>1. /\ pc = "sample" /\ pc' = "done" /\ winner_set' = winner_set
        /\ Cardinality(winner_set) = max_num_winners
        /\ weights' = weights /\ max_num_winners' = max_num_winners
    BY <1>1 DEF Return, Enough, inputs
  <2>2. winner_set \in SUBSET (0..(n - 1)) /\ n' = n
    BY <2>1 DEF TypeOK, Columns, n
  <2> QED
    BY <2>1, <2>2 DEF Promise!Choose, Cardinality, Promise!Cardinality
<1>2. CASE ~Return
  <2>1. /\ weights' = weights /\ max_num_winners' = max_num_winners
        /\ pc' = "done" <=> pc = "done"
        /\ pc = "done" => winner_set' = winner_set
    BY <1>2 DEF Next, Classify, StartPairing, Pair, FillUp, Sample, Panic,
                vars, inputs
  <2> QED
    BY <2>1 DEF Promise!vars, n
<1> QED
  BY <1>1, <1>2
-----------------------------------------------------------------------------
LEMMA InitIInv == Init => IInv
<1> SUFFICES ASSUME Init PROVE IInv
  OBVIOUS
<1>0. /\ pc = "classify" /\ weights \in Weightings
      /\ total_weight \in TicketTotals /\ max_num_winners \in Wanted
      /\ prob = [c \in Columns |-> 0] /\ alias = [c \in Columns |-> 0]
      /\ small = <<>> /\ large = <<>> /\ winner_set = {}
  BY Zenon DEF Init
<1>1. /\ weights \in Seq(Nat \ {0}) /\ n \in Nat
  BY <1>0, WeightingsAssumption, LenProperties DEF n
<1>2. /\ Range(small) = {} /\ Range(large) = {}
      /\ Len(small) = 0 /\ Len(large) = 0
      /\ DOMAIN small = {} /\ DOMAIN large = {}
  BY <1>0 DEF Range
<1>3. TypeOK
  <2>1. small \in Seq(Columns) /\ large \in Seq(Columns)
    BY <1>0
  <2>2. 0 \in -(I16Max + 1)..I16Max /\ \A c \in Columns : 0 \in Columns
    BY <1>1, WeightingsAssumption DEF Columns
  <2>3. /\ prob \in [Columns -> -(I16Max + 1)..I16Max]
        /\ alias \in [Columns -> Columns]
    BY <1>0, <2>2
  <2> QED
    BY <1>0, <1>1, <2>1, <2>3, WeightingsAssumption DEF TypeOK
<1>4. StacksPartition
  BY <1>0, <1>2 DEF StacksPartition, IsInjective
<1>5. FiledInOrder /\ OwnColumnOpen
  BY <1>0, <1>1, <1>2 DEF FiledInOrder, OwnColumnOpen, Stacked
<1> QED
  BY <1>3, <1>4, <1>5 DEF IInv

LEMMA ClassifyIInv ==
  ASSUME IInv, Classify
  PROVE  IInv'
<1> DEFINE c == Len(small) + Len(large)
           m == ScaledMass(c)
<1>1. /\ pc = "classify" /\ pc' = pc /\ c < n /\ IsI16(m)
      /\ prob' = [prob EXCEPT ![c] = m]
      /\ Filed(c, m, small, large)
      /\ UNCHANGED <<weights, total_weight, max_num_winners, alias,
                     winner_set>>
  BY DEF Classify, inputs
<1>2. /\ small \in Seq(Columns) /\ large \in Seq(Columns)
      /\ Len(small) \in Nat /\ Len(large) \in Nat /\ n \in Nat
      /\ prob \in [Columns -> -(I16Max + 1)..I16Max]
      /\ weights \in Seq(Nat \ {0})
  BY LenProperties DEF IInv, TypeOK, n
<1>3. /\ n' = n /\ Columns' = Columns /\ Total' = Total /\ (Fits' <=> Fits)
  BY <1>1 DEF n, Columns, Total, Fits
<1>4. c \in Nat /\ c \in Columns
  BY <1>1, <1>2 DEF Columns
<1>5. /\ c \notin Range(small) /\ c \notin Range(large)
      /\ Stacked = 0..(c - 1)
  BY <1>1, <1>2 DEF IInv, FiledInOrder, Stacked
<1>6. m \in -(I16Max + 1)..I16Max
  <2>1. weights[c + 1] \in Nat
    BY <1>2, <1>4 DEF Columns, n
  <2>2. AsI16(n) \in Int /\ AsI16(weights[c + 1]) \in Int
    BY <1>2, <2>1, WeightingsAssumption DEF AsI16
  <2>3. ScaledMass(c) \in Int
    BY <2>2 DEF ScaledMass
  <2> QED
    BY <1>1, <2>3, WeightingsAssumption DEF IsI16
<1>7. Fits => m > 0
  <2> SUFFICES ASSUME Fits PROVE m > 0
    OBVIOUS
  <2>1. weights[c + 1] \in Nat \ {0} /\ n \in Nat \ {0}
    BY <1>1, <1>2, <1>4 DEF Columns, n
  <2>2. n * weights[c + 1] <= I16Max
    BY <1>4 DEF Fits
  <2>3. /\ n <= I16Max /\ weights[c + 1] <= I16Max
        /\ n * weights[c + 1] > 0
    BY <2>1, <2>2, FactorsFit, WeightingsAssumption
  <2>4. AsI16(n) = n /\ AsI16(weights[c + 1]) = weights[c + 1]
    BY <2>3 DEF AsI16
  <2> QED
    BY <2>3, <2>4 DEF ScaledMass
<1> HIDE DEF c, m
<1>8. /\ prob' \in [Columns -> -(I16Max + 1)..I16Max]
      /\ prob'[c] = m
      /\ \A d \in Columns : d # c => prob'[d] = prob[d]
  BY <1>1, <1>2, <1>4, <1>6
<1>9. \A d \in Stacked : d \in Columns /\ d # c
  BY <1>1, <1>2, <1>4, <1>5 DEF Columns
<1>10. /\ IsInjective(small) /\ IsInjective(large)
       /\ \A d \in Range(small) : prob'[d] < Total
       /\ \A d \in Range(large) : prob'[d] >= Total
  BY <1>8, <1>9 DEF IInv, StacksPartition, Stacked
<1>11. /\ small' \in Seq(Columns) /\ large' \in Seq(Columns)
       /\ Len(small') + Len(large') = c + 1
       /\ Range(small') \cup Range(large') = Stacked \cup {c}
       /\ IsInjective(small') /\ IsInjective(large')
       /\ \A d \in Range(small') : prob'[d] < Total
       /\ \A d \in Range(large') : prob'[d] >= Total
  <2>0. c = Len(small) + Len(large)
    BY DEF c
  <2>1. CASE m < Total
    <3>1. small' = Append(small, c) /\ large' = large
      BY <1>1, <2>1 DEF Filed
    <3>2. /\ Append(small, c) \in Seq(Columns)
          /\ Len(Append(small, c)) = Len(small) + 1
          /\ Range(Append(small, c)) = Range(small) \cup {c}
          /\ IsInjective(Append(small, c))
      BY <1>2, <1>4, <1>5, <1>10, Pushed
    <3>3. Len(small') + Len(large') = c + 1
      BY <1>2, <2>0, <3>1, <3>2
    <3> QED
      BY <1>2, <1>8, <1>10, <2>1, <3>1, <3>2, <3>3 DEF Stacked
  <2>2. CASE ~(m < Total)
    <3>1. small' = small /\ large' = Append(large, c)
      BY <1>1, <2>2 DEF Filed
    <3>2. /\ Append(large, c) \in Seq(Columns)
          /\ Len(Append(large, c)) = Len(large) + 1
          /\ Range(Append(large, c)) = Range(large) \cup {c}
          /\ IsInjective(Append(large, c))
      BY <1>2, <1>4, <1>5, <1>10, Pushed
    <3>3. Len(small') + Len(large') = c + 1
      BY <1>2, <2>0, <3>1, <3>2
    <3>4. prob'[c] >= Total
      BY <1>6, <1>8, <2>2, TotalIsI16, WeightingsAssumption DEF IInv
    <3> QED
      BY <1>2, <1>8, <1>10, <3>1, <3>2, <3>3, <3>4 DEF Stacked
  <2> QED
    BY <2>1, <2>2
<1>12. TypeOK'
  BY <1>1, <1>3, <1>8, <1>11 DEF IInv, TypeOK
<1>13. StacksPartition'
  BY <1>1, <1>3, <1>11 DEF StacksPartition
<1>14. FiledInOrder'
  <2>1. Stacked \cup {c} = 0..(c + 1 - 1)
    BY <1>4, <1>5
  <2>2. c + 1 <= n
    BY <1>1, <1>2, <1>4
  <2> QED
    <3>1. Stacked' = 0..(c + 1 - 1)
      BY <1>11, <2>1 DEF Stacked
    <3>2. Len(small') + Len(large') <= n'
      BY <1>3, <1>11, <2>2
    <3>3. Stacked' = 0..(Len(small') + Len(large') - 1)
      <4>1. c + 1 - 1 = Len(small') + Len(large') - 1
        <5>1. /\ Len(small') \in Nat /\ Len(large') \in Nat
              /\ Len(small') + Len(large') = c + 1
          BY <1>11, LenProperties
        <5> QED
          BY <1>4, <5>1
      <4> QED
        BY <3>1, <4>1, Zenon
    <3> QED
      BY <3>2, <3>3, Zenon DEF FiledInOrder
<1>15. OwnColumnOpen'
  <2>1. ASSUME Fits, Total > 0, NEW d \in Stacked \cup {c}
        PROVE  prob'[d] > 0
    BY <1>7, <1>8, <1>9, <2>1 DEF IInv, OwnColumnOpen
  <2> QED
    BY <1>1, <1>3, <1>11, <2>1 DEF OwnColumnOpen, Stacked
<1> QED
  BY <1>12, <1>13, <1>14, <1>15 DEF IInv

LEMMA StartPairingIInv ==
  ASSUME IInv, StartPairing
  PROVE  IInv'
<1>1. /\ pc = "classify" /\ pc' = "pair" /\ Len(small) + Len(large) = n
      /\ UNCHANGED <<weights, total_weight, max_num_winners, prob, alias,
                     small, large, winner_set>>
  BY DEF StartPairing, inputs, table
<1>2. /\ n' = n /\ Columns' = Columns /\ Total' = Total /\ (Fits' <=> Fits)
      /\ Stacked' = Stacked
  BY <1>1 DEF n, Columns, Total, Fits, Stacked
<1>3. Stacked = Columns
  BY <1>1 DEF IInv, FiledInOrder, Columns
<1>4. TypeOK' /\ FiledInOrder'
  BY <1>1, <1>2 DEF IInv, TypeOK, FiledInOrder
<1>5. StacksPartition'
  BY <1>1, <1>2, <1>3 DEF IInv, StacksPartition, Stacked
<1>6. OwnColumnOpen'
  BY <1>1, <1>2, <1>3 DEF IInv, OwnColumnOpen
<1> QED
  BY <1>4, <1>5, <1>6 DEF IInv

LEMMA PairIInv ==
  ASSUME IInv, Pair
  PROVE  IInv'
<1> DEFINE l == Top(small)
           g == Top(large)
           m == MassLeft(g, l)
<1>1. /\ pc = "pair" /\ pc' = pc /\ small # <<>> /\ large # <<>>
      /\ IsI16(m)
      /\ alias' = [alias EXCEPT ![l] = g]
      /\ prob' = [prob EXCEPT ![g] = m]
      /\ Filed(g, m, Popped(small), Popped(large))
      /\ UNCHANGED <<weights, total_weight, max_num_winners, winner_set>>
  BY DEF Pair, inputs
<1>2. /\ small \in Seq(Columns) /\ large \in Seq(Columns) /\ n \in Nat
      /\ prob \in [Columns -> -(I16Max + 1)..I16Max]
      /\ alias \in [Columns -> Columns]
      /\ Total \in -(I16Max + 1)..I16Max
  BY LenProperties, TotalIsI16 DEF IInv, TypeOK, n
<1>3. /\ n' = n /\ Columns' = Columns /\ Total' = Total /\ (Fits' <=> Fits)
  BY <1>1 DEF n, Columns, Total, Fits
<1>4. IsInjective(small) /\ IsInjective(large)
  BY DEF IInv, StacksPartition
<1>5. /\ Popped(small) \in Seq(Columns) /\ l \in Columns
      /\ l \notin Range(Popped(small))
      /\ Range(small) = Range(Popped(small)) \cup {l}
      /\ IsInjective(Popped(small))
  BY <1>1, <1>2, <1>4, PoppedOff
<1>6. /\ Popped(large) \in Seq(Columns) /\ g \in Columns
      /\ g \notin Range(Popped(large))
      /\ Range(large) = Range(Popped(large)) \cup {g}
      /\ IsInjective(Popped(large))
  BY <1>1, <1>2, <1>4, PoppedOff
<1>7. /\ prob[l] < Total /\ prob[g] >= Total
      /\ prob[l] \in Int /\ prob[g] \in Int /\ Total \in Int
  BY <1>2, <1>5, <1>6 DEF IInv, StacksPartition
<1>8. /\ \A d \in Range(small) : d \in Columns /\ prob[d] < Total
      /\ \A d \in Range(large) :
           d \in Columns /\ prob[d] >= Total /\ ~(prob[d] < Total)
  <2>1. \A d \in Range(small) : d \in Columns
    BY <1>2 DEF Range
  <2>2. \A d \in Range(large) : d \in Columns /\ prob[d] \in Int
    BY <1>2 DEF Range
  <2>3. /\ \A d \in Range(small) : prob[d] < Total
        /\ \A d \in Range(large) : prob[d] >= Total
    BY DEF IInv, StacksPartition
  <2> QED
    BY <1>7, <2>1, <2>2, <2>3
<1>8a. l # g /\ g \notin Range(Popped(small)) /\ l \notin Range(Popped(large))
  BY <1>5, <1>6, <1>8
<1>9. m = prob[g] - (Total - prob[l]) /\ m \in -(I16Max + 1)..I16Max
  <2>1. m = prob[g] - (Total - prob[l])
    BY DEF MassLeft
  <2>2. m \in Int
    BY <1>7, <2>1
  <2> QED
    BY <1>1, <2>1, <2>2, WeightingsAssumption DEF IsI16
<1> HIDE DEF l, g, m
<1>10. /\ prob' \in [Columns -> -(I16Max + 1)..I16Max]
       /\ prob'[g] = m
       /\ \A d \in Columns : d # g => prob'[d] = prob[d]
       /\ alias' \in [Columns -> Columns]
       /\ alias'[l] = g
       /\ \A d \in Columns : d # l => alias'[d] = alias[d]
  BY <1>1, <1>2, <1>5, <1>6, <1>9
<1>11. /\ \A d \in Range(Popped(small)) : d \in Columns /\ prob'[d] < Total
       /\ \A d \in Range(Popped(large)) : d \in Columns /\ prob'[d] >= Total
  <2>1. \A d \in Range(Popped(small)) :
          d \in Columns /\ d # g /\ prob[d] < Total
    BY <1>5, <1>8, <1>8a
  <2>2. \A d \in Range(Popped(large)) :
          d \in Columns /\ d # g /\ prob[d] >= Total
    BY <1>6, <1>8
  <2> QED
    BY <1>10, <2>1, <2>2
<1>12. /\ small' \in Seq(Columns) /\ large' \in Seq(Columns)
       /\ Range(small') \cup Range(large') =
            Range(Popped(small)) \cup Range(Popped(large)) \cup {g}
       /\ IsInjective(small') /\ IsInjective(large')
       /\ \A d \in Range(small') : prob'[d] < Total
       /\ \A d \in Range(large') : prob'[d] >= Total
  <2>1. CASE m < Total
    <3>1. small' = Append(Popped(small), g) /\ large' = Popped(large)
      BY <1>1, <2>1 DEF Filed
    <3>2. /\ Append(Popped(small), g) \in Seq(Columns)
          /\ Range(Append(Popped(small), g)) = Range(Popped(small)) \cup {g}
          /\ IsInjective(Append(Popped(small), g))
      BY <1>5, <1>6, <1>8a, Pushed
    <3> QED
      BY <1>6, <1>10, <1>11, <2>1, <3>1, <3>2
  <2>2. CASE ~(m < Total)
    <3>1. small' = Popped(small) /\ large' = Append(Popped(large), g)
      BY <1>1, <2>2 DEF Filed
    <3>2. /\ Append(Popped(large), g) \in Seq(Columns)
          /\ Range(Append(Popped(large), g)) = Range(Popped(large)) \cup {g}
          /\ IsInjective(Append(Popped(large), g))
      BY <1>6, Pushed
    <3>3. prob'[g] >= Total
      BY <1>7, <1>9, <1>10, <2>2, WeightingsAssumption
    <3> QED
      BY <1>5, <1>10, <1>11, <3>1, <3>2, <3>3
  <2> QED
    BY <2>1, <2>2
<1>13. TypeOK'
  BY <1>1, <1>3, <1>10, <1>12 DEF IInv, TypeOK
<1>14. StacksPartition'
  <2>1. ASSUME NEW d \in Columns, d \notin Range(small'), d \notin Range(large')
        PROVE  prob'[d] < Total /\ alias'[d] # d
    <3>1. d # g /\ d \notin Range(Popped(small))
          /\ d \notin Range(Popped(large))
      BY <1>12, <2>1
    <3>2. CASE d = l
      BY <1>5, <1>7, <1>8a, <1>10, <3>2
    <3>3. CASE d # l
      <4>1. d \notin Range(small) /\ d \notin Range(large)
        BY <1>5, <1>6, <3>1, <3>3
      <4>2. prob[d] < Total /\ alias[d] # d
        BY <1>1, <2>1, <4>1 DEF IInv, StacksPartition
      <4> QED
        BY <1>10, <2>1, <3>1, <3>3, <4>2
    <3> QED
      BY <3>2, <3>3
  <2> QED
    BY <1>3, <1>12, <2>1 DEF StacksPartition
<1>15. FiledInOrder'
  BY <1>1 DEF FiledInOrder
<1>16. OwnColumnOpen'
  <2>1. ASSUME Fits, Total > 0
        PROVE  \A d \in Columns : prob'[d] > 0
    <3>1. \A d \in Columns : prob[d] > 0
      BY <1>1, <2>1 DEF IInv, OwnColumnOpen
    <3>2. prob'[g] > 0
      <4>1. prob[l] > 0
        BY <1>5, <3>1
      <4> QED
        BY <1>7, <1>9, <1>10, <4>1
    <3> QED
      BY <1>10, <3>1, <3>2
  <2>2. \A d \in Stacked' : d \in Columns
    BY <1>6, <1>11, <1>12 DEF Stacked
  <2> QED
    BY <1>3, <2>1, <2>2 DEF OwnColumnOpen
<1> QED
  BY <1>13, <1>14, <1>15, <1>16 DEF IInv

(* Filling up empties the stacks; a total weight is a threshold too.       *)
LEMMA FillUpIInv ==
  ASSUME IInv, FillUp
  PROVE  IInv'
<1>1. /\ pc = "pair" /\ pc' = "sample" /\ small' = <<>> /\ large' = <<>>
      /\ prob' = [c \in Columns |->
                    IF c \in Range(small) \cup Range(large)
                    THEN Total ELSE prob[c]]
      /\ UNCHANGED <<weights, total_weight, max_num_winners, alias,
                     winner_set>>
  BY DEF FillUp, inputs
<1>2. /\ n' = n /\ Columns' = Columns /\ Total' = Total /\ (Fits' <=> Fits)
  BY <1>1 DEF n, Columns, Total, Fits
<1>3. DOMAIN small' = {} /\ DOMAIN large' = {}
      /\ Range(small') = {} /\ Range(large') = {}
  BY <1>1 DEF Range
<1>4. TypeOK'
  <2>1. small' \in Seq(Columns) /\ large' \in Seq(Columns)
    BY <1>1
  <2>2. prob' \in [Columns -> -(I16Max + 1)..I16Max]
    BY <1>1, TotalIsI16 DEF IInv, TypeOK
  <2> QED
    BY <1>1, <1>2, <2>1, <2>2 DEF IInv, TypeOK
<1>5. StacksPartition' /\ FiledInOrder'
  BY <1>1, <1>3 DEF StacksPartition, FiledInOrder, IsInjective
<1>6. OwnColumnOpen'
  <2>1. ASSUME Fits, Total > 0, NEW c \in Columns
        PROVE  prob'[c] > 0
    BY <1>1, <2>1 DEF IInv, OwnColumnOpen
  <2> QED
    BY <1>2, <1>3, <2>1 DEF OwnColumnOpen, Stacked
<1> QED
  BY <1>4, <1>5, <1>6 DEF IInv

(* Sampling, returning and panicking leave the table alone.                *)
LEMMA TableDoneIInv ==
  ASSUME IInv,
         \/ \E c \in Columns, p \in 0..I16Max : Sample(c, p)
         \/ Return
         \/ Panic
         \/ UNCHANGED vars
  PROVE  IInv'
<1>1. /\ UNCHANGED <<weights, total_weight, max_num_winners, prob, alias,
                     small, large>>
      /\ pc' # pc => pc' = "panicked" \/ (pc' = "done" /\ pc = "sample")
      /\ pc' \in {"classify", "pair", "sample", "done", "panicked"}
  BY DEF Sample, Return, Panic, vars, inputs, table, IInv, TypeOK
<1>2. /\ n' = n /\ Columns' = Columns /\ Total' = Total /\ (Fits' <=> Fits)
      /\ Stacked' = Stacked
  BY <1>1 DEF n, Columns, Total, Fits, Stacked
<1>3. winner_set' \subseteq Columns
  <2>1. CASE \E c \in Columns, p \in 0..I16Max : Sample(c, p)
    <3>1. PICK c \in Columns, p \in 0..I16Max : Sample(c, p)
      BY <2>1
    <3>2. pc = "sample"
      BY <3>1 DEF Sample
    <3>3. WinnerOf(c, p) \in Columns
      BY <3>1 DEF WinnerOf, IInv, TypeOK
    <3> QED
      BY <3>1, <3>3 DEF Sample, IInv, TypeOK
  <2>2. CASE Return \/ Panic \/ UNCHANGED vars
    BY <2>2 DEF Return, Panic, vars, IInv, TypeOK
  <2> QED
    BY <2>1, <2>2
<1>4. TypeOK'
  BY <1>1, <1>2, <1>3 DEF IInv, TypeOK
<1>5. StacksPartition' /\ FiledInOrder' /\ OwnColumnOpen'
  BY <1>1, <1>2 DEF IInv, StacksPartition, FiledInOrder, OwnColumnOpen
<1> QED
  BY <1>4, <1>5 DEF IInv

LEMMA StepIInv == IInv /\ [Next]_vars => IInv'
BY ClassifyIInv, StartPairingIInv, PairIInv, FillUpIInv, TableDoneIInv
   DEF Next
-----------------------------------------------------------------------------
(* The columns are finitely many, as the tickets are, and stacked columns   *)
(* are some of them.                                                        *)
LEMMA ColumnsFinite ==
  ASSUME TypeOK
  PROVE  /\ n \in Nat
         /\ IsFiniteSet(Columns) /\ Cardinality(Columns) = n
         /\ IsFiniteSet(1..n) /\ Cardinality(1..n) = n
         /\ \A c \in Columns : c + 1 \in 1..n
         /\ \A j \in 1..n : weights[j] \in Nat \ {0}
         /\ Stacked \subseteq Columns
<1>1. n \in Nat /\ \A j \in 1..n : weights[j] \in Nat \ {0}
  BY LenProperties DEF TypeOK, n
<1>2. IsFiniteSet(0..(n - 1)) /\ Cardinality(0..(n - 1)) = n
  <2>1. 0 \in Int /\ n - 1 \in Int
    BY <1>1
  <2>2. /\ IsFiniteSet(0..(n - 1))
        /\ Cardinality(0..(n - 1)) = IF 0 > n - 1 THEN 0 ELSE n - 1 - 0 + 1
    BY <2>1, FS_Interval
  <2> QED BY <1>1, <2>2
<1>3. IsFiniteSet(1..n) /\ Cardinality(1..n) = n
  <2>1. 1 \in Int /\ n \in Int
    BY <1>1
  <2>2. /\ IsFiniteSet(1..n)
        /\ Cardinality(1..n) = IF 1 > n THEN 0 ELSE n - 1 + 1
    BY <2>1, FS_Interval
  <2> QED BY <1>1, <2>2
<1>4. \A c \in Columns : c + 1 \in 1..n
  BY <1>1 DEF Columns
<1>5. Stacked \subseteq Columns
  BY DEF Stacked, Range, TypeOK
<1> QED BY <1>1, <1>2, <1>3, <1>4, <1>5 DEF Columns

(* When the total is positive as a 16-bit integer, it is the tickets sold,  *)
(* and neither the participants nor the tickets of one are more.            *)
LEMMA PositiveTotal ==
  ASSUME TypeOK, total_weight = SumFunctionOnSet(weights, 1..n), Total > 0
  PROVE  /\ Total = SumFunctionOnSet(weights, 1..n)
         /\ Total \in Nat /\ Total <= I16Max
         /\ \A c \in Columns : /\ weights[c + 1] \in Nat \ {0}
                               /\ ScaledMass(c) = n * weights[c + 1]
<1> DEFINE s == SumFunctionOnSet(weights, 1..n)
<1>1. /\ I16Max \in Nat /\ total_weight \in Nat
      /\ total_weight <= 2 * I16Max + 1
  BY WeightingsAssumption DEF TypeOK, TicketTotals
<1>2. Total = s /\ s \in Nat /\ s <= I16Max
  BY <1>1 DEF Total, AsI16
<1>3. /\ n \in Nat /\ IsFiniteSet(1..n) /\ Cardinality(1..n) = n
      /\ \A c \in Columns : c + 1 \in 1..n
      /\ \A j \in 1..n : weights[j] \in Nat \ {0}
  BY ColumnsFinite
<1>4. \A j \in 1..n : weights[j] <= s
  BY <1>3, SumNat
<1>5. n <= s
  <2> DEFINE low == 1  k == 1
  <2>1. /\ low \in Int /\ k \in Nat /\ s \in Int
        /\ \A j \in 1..n : /\ weights[j] \in Int
                           /\ low <= k * weights[j] /\ k * weights[j] <= s
    BY <1>2, <1>3, <1>4
  <2>2. low * Cardinality(1..n) <= k * SumFunctionOnSet(weights, 1..n)
    <3> HIDE DEF low, k, s
    <3> QED BY <1>3, <2>1, SumBetween
  <2> QED BY <1>2, <1>3, <2>2
<1> HIDE DEF s
<1>6. ASSUME NEW c \in Columns
      PROVE  weights[c + 1] \in Nat \ {0} /\ ScaledMass(c) = n * weights[c + 1]
  <2> DEFINE w == weights[c + 1]
  <2>1. w \in Nat \ {0} /\ w <= s
    BY <1>3, <1>4
  <2> HIDE DEF w
  <2>2. AsI16(n) = n /\ AsI16(w) = w
    BY <1>1, <1>2, <1>3, <1>5, <2>1 DEF AsI16
  <2> QED BY <2>1, <2>2 DEF ScaledMass, w
<1> QED BY <1>2, <1>6 DEF s

(* What fits by column fits in all: n times the total is at most n times    *)
(* the largest 16-bit integer.                                              *)
LEMMA FittingTotal ==
  ASSUME TypeOK, total_weight = SumFunctionOnSet(weights, 1..n), Fits, n # 0
  PROVE  Total > 0
<1> DEFINE s == SumFunctionOnSet(weights, 1..n)
<1>1. /\ n \in Nat /\ IsFiniteSet(1..n) /\ Cardinality(1..n) = n
      /\ \A j \in 1..n : weights[j] \in Nat \ {0}
  BY ColumnsFinite
<1>2. s \in Nat /\ \A j \in 1..n : weights[j] <= s
  BY <1>1, SumNat
<1>3. 1 <= s
  <2>1. 1 \in 1..n
    BY <1>1
  <2> HIDE DEF s
  <2>2. weights[1] \in Nat \ {0} /\ weights[1] <= s
    BY <1>1, <1>2, <2>1
  <2> QED BY <1>2, <2>2
<1>4. n * s <= I16Max * n
  <2> DEFINE low == 0
  <2>1. /\ low \in Int /\ I16Max \in Int
        /\ \A j \in 1..n : /\ weights[j] \in Int
                           /\ low <= n * weights[j] /\ n * weights[j] <= I16Max
    <3>1. I16Max \in Int
      BY WeightingsAssumption
    <3>2. ASSUME NEW j \in 1..n
          PROVE  /\ weights[j] \in Int
                 /\ low <= n * weights[j] /\ n * weights[j] <= I16Max
      <4>1. j - 1 \in Columns /\ (j - 1) + 1 = j
        BY <1>1 DEF Columns
      <4>2. n * weights[j] <= I16Max
        BY <4>1 DEF Fits
      <4>3. weights[j] \in Nat
        BY <1>1
      <4>4. n * weights[j] \in Nat
        BY <1>1, <4>3, ProductNat
      <4> QED BY <4>2, <4>3, <4>4
    <3> QED BY <3>1, <3>2
  <2> HIDE DEF low
  <2>2. n * SumFunctionOnSet(weights, 1..n) <= I16Max * Cardinality(1..n)
    BY <1>1, <2>1, SumBetween
  <2> QED BY <1>1, <2>2
<1>5. s <= I16Max
  <2> HIDE DEF s
  <2> SUFFICES ASSUME s >= I16Max + 1 PROVE FALSE
    BY <1>2, WeightingsAssumption
  <2>1. PICK d \in Nat : s = I16Max + 1 + d
    <3>1. s - (I16Max + 1) \in Nat /\ s = I16Max + 1 + (s - (I16Max + 1))
      BY <1>2, WeightingsAssumption
    <3> QED BY <3>1
  <2>2. n * d \in Nat /\ n * s = I16Max * n + n + n * d /\ I16Max * n \in Nat
    BY <1>1, <2>1, WeightingsAssumption
  <2> QED BY <1>1, <1>4, <2>2
<1> HIDE DEF s
<1>6. Total = s
  BY <1>2, <1>5 DEF Total, AsI16, s
<1> QED BY <1>2, <1>3, <1>6

(* Columns filed without an overflow are those of a drawing that fits.      *)
LEMMA FiledFits ==
  ASSUME TypeOK, total_weight = SumFunctionOnSet(weights, 1..n), Total > 0,
         \A c \in Columns : IsI16(ScaledMass(c))
  PROVE  Fits
<1> SUFFICES ASSUME NEW c \in Columns PROVE n * weights[c + 1] <= I16Max
  BY DEF Fits
<1>1. ScaledMass(c) = n * weights[c + 1]
  BY PositiveTotal
<1> QED BY <1>1 DEF IsI16
-----------------------------------------------------------------------------
LEMMA InitJInv == Init => JInv
<1> SUFFICES ASSUME Init PROVE JInv
  OBVIOUS
<1>1. /\ pc = "classify" /\ weights \in Weightings
      /\ total_weight = SumFunction(weights)
      /\ small = <<>> /\ large = <<>> /\ winner_set = {}
  BY Zenon DEF Init
<1>2. Range(small) = {} /\ Range(large) = {}
  BY <1>1 DEF Range
<1>3. DOMAIN weights = 1..n
  BY <1>1, WeightingsAssumption, LenProperties DEF n
<1>4. total_weight = SumFunctionOnSet(weights, 1..n)
  BY <1>1, <1>3 DEF SumFunction, SumFunctionOnSet
<1>5. Weighed /\ FiledByMass
  BY <1>1, <1>2, <1>4 DEF Weighed, FiledByMass, Stacked
<1>6. MassIsKept /\ TableFull /\ PanicsOnlyPastWidth
  BY <1>1 DEF MassIsKept, TableFull, PanicsOnlyPastWidth
<1> QED
  BY <1>5, <1>6 DEF JInv

LEMMA ClassifyJInv ==
  ASSUME IInv, JInv, Classify
  PROVE  JInv'
<1> DEFINE c == Len(small) + Len(large)
           m == ScaledMass(c)
<1>1. /\ pc = "classify" /\ pc' = pc /\ c < n /\ IsI16(m)
      /\ prob' = [prob EXCEPT ![c] = m]
      /\ Filed(c, m, small, large)
      /\ weights' = weights /\ total_weight' = total_weight
      /\ winner_set' = winner_set
  BY DEF Classify, inputs
<1>2. /\ n' = n /\ Columns' = Columns /\ Total' = Total
      /\ \A d : ScaledMass(d)' = ScaledMass(d)
  BY <1>1 DEF n, Columns, Total, ScaledMass
<1>3. /\ small \in Seq(Columns) /\ large \in Seq(Columns)
      /\ Len(small) \in Nat /\ Len(large) \in Nat /\ n \in Nat
      /\ prob \in [Columns -> -(I16Max + 1)..I16Max]
  BY LenProperties DEF IInv, TypeOK, n
<1>4. c \in Columns /\ c \notin Stacked /\ Stacked \subseteq Columns
  <2>1. Stacked = 0..(c - 1)
    BY <1>1 DEF IInv, FiledInOrder
  <2> QED
    BY <1>1, <1>3, <2>1 DEF Columns
<1> HIDE DEF c, m
<1>5. \A d \in Stacked' : d \in Stacked \/ d = c
  <2>1. CASE m < Total
    <3>1. small' = Append(small, c) /\ large' = large
      BY <1>1, <2>1 DEF Filed
    <3>2. Range(Append(small, c)) = Range(small) \cup {c}
      BY <1>3, <1>4, Pushed DEF IInv, StacksPartition, Stacked
    <3> QED
      BY <3>1, <3>2 DEF Stacked
  <2>2. CASE ~(m < Total)
    <3>1. small' = small /\ large' = Append(large, c)
      BY <1>1, <2>2 DEF Filed
    <3>2. Range(Append(large, c)) = Range(large) \cup {c}
      BY <1>3, <1>4, Pushed DEF IInv, StacksPartition, Stacked
    <3> QED
      BY <3>1, <3>2 DEF Stacked
  <2> QED
    BY <2>1, <2>2
<1>6. prob'[c] = m /\ \A d \in Stacked : prob'[d] = prob[d]
  BY <1>1, <1>3, <1>4
<1>7. Weighed'
  <2>1. \A d \in Stacked' : IsI16(ScaledMass(d))
    BY <1>1, <1>5 DEF JInv, Weighed, m
  <2> QED
    BY <1>1, <1>2, <2>1 DEF JInv, Weighed
<1>8. FiledByMass'
  <2>1. \A d \in Stacked' : prob'[d] = ScaledMass(d)
    BY <1>1, <1>5, <1>6 DEF JInv, FiledByMass, m
  <2> QED
    BY <1>2, <2>1 DEF FiledByMass
<1>9. MassIsKept' /\ TableFull' /\ PanicsOnlyPastWidth'
  BY <1>1 DEF MassIsKept, TableFull, PanicsOnlyPastWidth
<1> QED
  BY <1>7, <1>8, <1>9 DEF JInv

(* Filed columns hold n times the tickets, so above and below the total is  *)
(* the same: n times the sum of the tickets is n times the total.           *)
LEMMA StartPairingJInv ==
  ASSUME IInv, JInv, StartPairing
  PROVE  JInv'
<1>1. /\ pc = "classify" /\ pc' = "pair" /\ Len(small) + Len(large) = n
      /\ weights' = weights /\ total_weight' = total_weight
      /\ prob' = prob /\ alias' = alias /\ small' = small /\ large' = large
      /\ winner_set' = winner_set
  BY DEF StartPairing, inputs, table
<1>2. /\ n' = n /\ Columns' = Columns /\ Total' = Total /\ Stacked' = Stacked
      /\ \A d : ScaledMass(d)' = ScaledMass(d)
  BY <1>1 DEF n, Columns, Total, Stacked, ScaledMass
<1>3. Stacked = Columns
  BY <1>1 DEF IInv, FiledInOrder, Columns
<1>4. Weighed'
  BY <1>1, <1>2, <1>3 DEF JInv, Weighed
<1>5. FiledByMass' /\ TableFull' /\ PanicsOnlyPastWidth'
  BY <1>1 DEF FiledByMass, TableFull, PanicsOnlyPastWidth
<1>6. MassIsKept'
  <2> SUFFICES ASSUME Total > 0
               PROVE  /\ SumFunctionOnSet(Surplus, Columns) = 0
                      /\ \A i \in Columns :
                           prob[i] + SumFunctionOnSet(Given(i), Columns)
                             = n * weights[i + 1]
    <3>1. Surplus' = Surplus /\ \A i : Given(i)' = Given(i)
      BY <1>1, <1>2 DEF Surplus, Given
    <3> QED
      BY <1>1, <1>2, <3>1 DEF MassIsKept
  <2>1. /\ n \in Nat /\ IsFiniteSet(Columns) /\ Cardinality(Columns) = n
        /\ \A c \in Columns : c + 1 \in 1..n
        /\ TypeOK /\ total_weight = SumFunctionOnSet(weights, 1..n)
    BY ColumnsFinite DEF IInv, JInv, Weighed
  <2>2. /\ Total \in Nat /\ Total = SumFunctionOnSet(weights, 1..n)
        /\ \A c \in Columns : /\ weights[c + 1] \in Nat
                              /\ prob[c] = n * weights[c + 1]
    BY <1>1, <1>3, <2>1, PositiveTotal DEF JInv, FiledByMass
  <2>3. SumFunctionOnSet(Surplus, Columns) = 0
    <3> DEFINE f == Surplus
               m == [c \in Columns |-> c + 1]
               d == -Total
               J == 1..n
    <3>1. /\ \A x, y \in Columns : m[x] = m[y] => x = y
          /\ \A x \in Columns : m[x] \in J
      BY <2>1 DEF Columns
    <3>2. \A z \in J : \E x \in Columns : z = m[x]
      <4> SUFFICES ASSUME NEW j \in J PROVE \E x \in Columns : j = m[x]
        OBVIOUS
      <4>1. j - 1 \in Columns /\ (j - 1) + 1 = j
        BY <2>1 DEF Columns
      <4> QED BY <4>1
    <3>3. \A x \in Columns : /\ weights[m[x]] \in Int
                             /\ f[x] = n * weights[m[x]] + d
      BY <1>3, <2>1, <2>2 DEF Surplus
    <3>4. SumFunctionOnSet(f, Columns)
            = n * SumFunctionOnSet(weights, J) + d * Cardinality(Columns)
      <4>1. n \in Int /\ d \in Int
        BY <2>1, <2>2
      <4> HIDE DEF f, m, d, J
      <4>2. Renamed(f, Columns, weights, J, m, n, d)
        BY <3>1, <3>2, <3>3, <4>1 DEF Renamed
      <4> QED BY <2>1, <4>2, SumRenamed
    <3>5. n * Total + (-Total) * n = 0
      BY <2>1, <2>2
    <3> HIDE DEF f
    <3> QED BY <2>1, <2>2, <3>4, <3>5 DEF f
  <2>4. ASSUME NEW i \in Columns
        PROVE  prob[i] + SumFunctionOnSet(Given(i), Columns)
                 = n * weights[i + 1]
    <3>1. \A c \in Columns : Given(i)[c] = 0
      BY <1>3 DEF Given
    <3>2. SumFunctionOnSet(Given(i), Columns) = 0
      BY <2>1, <3>1, SumOfZeros
    <3>3. n * weights[i + 1] \in Nat
      BY <2>1, <2>2, ProductNat
    <3> QED
      BY <2>2, <3>2, <3>3
  <2> QED
    BY <2>3, <2>4
<1> QED
  BY <1>4, <1>5, <1>6 DEF JInv

(* The large column g gives up what the small column l lacks: l is finished *)
(* with no surplus, g has less by as much, and the participant of g has in  *)
(* column l what it lost in its own.                                        *)
LEMMA PairMass ==
  ASSUME IInv, MassIsKept, Total > 0, Pair
  PROVE  MassIsKept'
<1> DEFINE l == Top(small)
           g == Top(large)
           moved == Total - prob[l]
<1>1. /\ pc = "pair" /\ small # <<>> /\ large # <<>>
      /\ alias' = [alias EXCEPT ![l] = g]
      /\ prob' = [prob EXCEPT ![g] = prob[g] - moved]
      /\ Filed(g, MassLeft(g, l), Popped(small), Popped(large))
      /\ weights' = weights /\ total_weight' = total_weight
  BY DEF Pair, inputs, MassLeft
<1>2. /\ small \in Seq(Columns) /\ large \in Seq(Columns)
      /\ prob \in [Columns -> -(I16Max + 1)..I16Max]
      /\ alias \in [Columns -> Columns]
      /\ \A c \in Columns : prob[c] \in Int
      /\ Total \in Int
      /\ IsInjective(small) /\ IsInjective(large)
  <2>1. -(I16Max + 1)..I16Max \subseteq Int
    BY WeightingsAssumption
  <2> QED
    BY <2>1, TotalIsI16 DEF IInv, TypeOK, StacksPartition
<1>3. /\ n' = n /\ Columns' = Columns /\ Total' = Total
  BY <1>1 DEF n, Columns, Total
<1>4. /\ Popped(small) \in Seq(Columns) /\ l \in Columns
      /\ l \notin Range(Popped(small)) /\ l \in Range(small)
      /\ Range(small) = Range(Popped(small)) \cup {l}
      /\ IsInjective(Popped(small))
  BY <1>1, <1>2, PoppedOff
<1>5. /\ Popped(large) \in Seq(Columns) /\ g \in Columns
      /\ g \notin Range(Popped(large)) /\ g \in Range(large)
      /\ Range(large) = Range(Popped(large)) \cup {g}
      /\ IsInjective(Popped(large))
  <2>1. /\ Popped(large) \in Seq(Columns) /\ g \in Columns
        /\ g \notin Range(Popped(large))
        /\ Range(large) = Range(Popped(large)) \cup {g}
        /\ IsInjective(Popped(large))
    BY <1>1, <1>2, PoppedOff
  <2> QED
    BY <2>1
<1>6. \A c \in Columns : c \in Range(small) => c \notin Range(large)
  <2> SUFFICES ASSUME NEW c \in Columns, c \in Range(small), c \in Range(large)
               PROVE  FALSE
    OBVIOUS
  <2>1. prob[c] < Total /\ prob[c] >= Total
    BY DEF IInv, StacksPartition
  <2> QED
    BY <1>2, <2>1
<1> HIDE DEF l, g
<1>7. l # g /\ l \in Stacked /\ g \in Stacked
  BY <1>4, <1>5, <1>6 DEF Stacked
<1>8. Stacked' = Stacked \ {l}
  <2>1. Range(small') \cup Range(large') =
          Range(Popped(small)) \cup Range(Popped(large)) \cup {g}
    <3>1. CASE MassLeft(g, l) < Total
      <4>1. small' = Append(Popped(small), g) /\ large' = Popped(large)
        BY <1>1, <3>1 DEF Filed
      <4>2. Range(Append(Popped(small), g)) = Range(Popped(small)) \cup {g}
        BY <1>4, <1>5, <1>6, Pushed
      <4> QED
        BY <4>1, <4>2
    <3>2. CASE ~(MassLeft(g, l) < Total)
      <4>1. small' = Popped(small) /\ large' = Append(Popped(large), g)
        BY <1>1, <3>2 DEF Filed
      <4>2. Range(Append(Popped(large), g)) = Range(Popped(large)) \cup {g}
        BY <1>5, Pushed
      <4> QED
        BY <4>1, <4>2
    <3> QED
      BY <3>1, <3>2
  <2>2. l \notin Range(Popped(large))
    BY <1>4, <1>5, <1>6
  <2> QED
    BY <1>4, <1>5, <1>7, <2>1, <2>2 DEF Stacked
<1>9. /\ moved \in Int /\ moved = Total - prob[l]
      /\ prob'[g] = prob[g] - moved
      /\ \A c \in Columns : c # g => prob'[c] = prob[c]
      /\ alias'[l] = g
      /\ \A c \in Columns : c # l => alias'[c] = alias[c]
      /\ \A c \in Columns : prob'[c] \in Int
  BY <1>1, <1>2, <1>4, <1>5
<1> HIDE DEF moved
<1>10. IsFiniteSet(Columns)
  BY ColumnsFinite DEF IInv
<1>11. SumFunctionOnSet(Surplus', Columns) = 0
  <2> DEFINE s == Surplus
             t == Surplus'
             h == [c \in Columns |-> IF c = l THEN 0 ELSE s[c]]
  <2>1. /\ s[l] = prob[l] - Total /\ s[g] = prob[g] - Total
        /\ \A c \in Columns : s[c] \in Int
    BY <1>2, <1>4, <1>5, <1>7 DEF Surplus
  <2>2. /\ t[l] = 0 /\ t[g] = prob'[g] - Total
        /\ \A c \in Columns : t[c] \in Int /\ (c \notin {l, g} => t[c] = s[c])
    <3>1. \A c \in Columns :
            t[c] = IF c \in Stacked \ {l} THEN prob'[c] - Total ELSE 0
      BY <1>3, <1>8 DEF Surplus
    <3>2. \A c \in Columns :
            s[c] = IF c \in Stacked THEN prob[c] - Total ELSE 0
      BY DEF Surplus
    <3> HIDE DEF s, t
    <3>3. t[l] = 0 /\ t[g] = prob'[g] - Total
      BY <1>4, <1>5, <1>7, <3>1
    <3>4. ASSUME NEW c \in Columns
          PROVE  t[c] \in Int /\ (c \notin {l, g} => t[c] = s[c])
      <4>1. prob'[c] \in Int /\ (c # g => prob'[c] = prob[c])
        BY <1>9
      <4> QED
        BY <1>2, <3>1, <3>2, <4>1
    <3> QED
      BY <3>3, <3>4
  <2> HIDE DEF s, t
  <2>3. /\ h[l] = 0 /\ h[g] = s[g]
        /\ \A c \in Columns : h[c] \in Int /\ (c # l => h[c] = s[c])
    BY <1>4, <1>5, <1>7, <2>1
  <2> HIDE DEF h
  <2>4. SumFunctionOnSet(h, Columns) = SumFunctionOnSet(s, Columns) + (0 - s[l])
    BY <1>4, <1>10, <2>1, <2>3, SumChange
  <2>5. SumFunctionOnSet(t, Columns)
          = SumFunctionOnSet(h, Columns) + (t[g] - h[g])
    <3>1. \A c \in Columns \ {g} : t[c] = h[c]
      BY <2>2, <2>3
    <3> QED
      BY <1>5, <1>10, <2>2, <2>3, <3>1, SumChange
  <2>6. SumFunctionOnSet(s, Columns) = 0
    BY <1>1 DEF MassIsKept, s
  <2>7. SumFunctionOnSet(t, Columns) = 0
    BY <1>2, <1>4, <1>5, <1>9, <2>1, <2>2, <2>3, <2>4, <2>5, <2>6
  <2> QED
    BY <2>7 DEF t
<1>12. ASSUME NEW i \in Columns
       PROVE  prob'[i] + SumFunctionOnSet(Given(i)', Columns)
                = n * weights[i + 1]
  <2> DEFINE s == Given(i)
             t == Given(i)'
  <2>1. s[l] = 0 /\ \A c \in Columns : s[c] \in Int
    BY <1>2, <1>4, <1>7 DEF Given
  <2>2. /\ t[l] = IF g = i THEN moved ELSE 0
        /\ \A c \in Columns : t[c] \in Int
    BY <1>2, <1>3, <1>4, <1>7, <1>8, <1>9 DEF Given
  <2>3. \A c \in Columns \ {l} : t[c] = s[c]
    BY <1>3, <1>7, <1>8, <1>9 DEF Given
  <2>4. prob[i] + SumFunctionOnSet(s, Columns) = n * weights[i + 1]
    BY <1>1 DEF MassIsKept
  <2> HIDE DEF s, t
  <2>5. SumFunctionOnSet(t, Columns)
          = SumFunctionOnSet(s, Columns) + (t[l] - s[l])
    BY <1>4, <1>10, <2>1, <2>2, <2>3, SumChange
  <2>6. SumFunctionOnSet(s, Columns) \in Int
    BY <1>10, <2>1, SumInt
  <2>7. prob'[i] + SumFunctionOnSet(t, Columns) = n * weights[i + 1]
    <3>1. CASE g = i
      <4>1. prob'[i] = prob[i] - moved /\ t[l] = moved /\ prob[i] \in Int
        BY <1>2, <1>9, <2>2, <3>1
      <4> QED
        BY <1>9, <2>1, <2>4, <2>5, <2>6, <4>1
    <3>2. CASE g # i
      <4>1. prob'[i] = prob[i] /\ t[l] = 0
        BY <1>9, <2>2, <3>2
      <4> QED
        BY <2>1, <2>4, <2>5, <2>6, <4>1
    <3> QED
      BY <3>1, <3>2
  <2> QED
    BY <2>7 DEF t
<1> QED
  BY <1>1, <1>3, <1>11, <1>12 DEF MassIsKept

LEMMA PairJInv ==
  ASSUME IInv, JInv, Pair
  PROVE  JInv'
<1>1. /\ pc = "pair" /\ pc' = pc
      /\ weights' = weights /\ total_weight' = total_weight
      /\ winner_set' = winner_set
  BY DEF Pair, inputs
<1>2. /\ n' = n /\ Columns' = Columns /\ Total' = Total
      /\ \A c : ScaledMass(c)' = ScaledMass(c)
  BY <1>1 DEF n, Columns, Total, ScaledMass
<1>3. IInv' /\ Stacked' \subseteq Columns
  <2>1. IInv'
    BY PairIInv
  <2> QED
    BY <1>2, <2>1 DEF IInv, TypeOK, Stacked, Range
<1>4. Weighed'
  BY <1>1, <1>2, <1>3 DEF JInv, Weighed
<1>5. FiledByMass' /\ TableFull' /\ PanicsOnlyPastWidth'
  BY <1>1 DEF FiledByMass, TableFull, PanicsOnlyPastWidth
<1>6. MassIsKept'
  <2>1. CASE Total > 0
    BY <2>1, PairMass DEF JInv
  <2>2. CASE ~(Total > 0)
    BY <1>2, <2>2 DEF MassIsKept
  <2> QED
    BY <2>1, <2>2
<1> QED
  BY <1>4, <1>5, <1>6 DEF JInv

(* With one stack empty the surpluses left have one sign, so they are 0:    *)
(* what is left over is full already, up to nothing, not up to rounding.    *)
LEMMA LeftoversFull ==
  ASSUME IInv, MassIsKept, Total > 0, pc = "pair", small = <<>> \/ large = <<>>
  PROVE  \A c \in Stacked : prob[c] = Total
<1>1. /\ \A c \in Columns : prob[c] \in Int
      /\ Total \in Int
      /\ Stacked \subseteq Columns /\ IsFiniteSet(Columns)
  <2>1. -(I16Max + 1)..I16Max \subseteq Int
    BY WeightingsAssumption
  <2> QED
    BY <2>1, TotalIsI16, ColumnsFinite DEF IInv, TypeOK
<1>2. \A c \in Columns :
        Surplus[c] = IF c \in Stacked THEN prob[c] - Total ELSE 0
  BY DEF Surplus
<1>3. SumFunctionOnSet(Surplus, Columns) = 0
  BY DEF MassIsKept
<1>4. \/ \A c \in Stacked : prob[c] >= Total
      \/ \A c \in Stacked : prob[c] <= Total
  <2>1. CASE small = <<>>
    <3>1. Range(small) = {}
      BY <2>1 DEF Range
    <3> QED
      BY <3>1 DEF IInv, StacksPartition, Stacked
  <2>2. CASE large = <<>>
    <3>1. Range(large) = {}
      BY <2>2 DEF Range
    <3>2. \A c \in Stacked : prob[c] < Total /\ prob[c] \in Int
      BY <1>1, <3>1 DEF IInv, StacksPartition, Stacked
    <3> QED
      BY <1>1, <3>2
  <2> QED
    BY <2>1, <2>2
<1> DEFINE s == Surplus
<1> HIDE DEF s
<1>5. \A c \in Columns : s[c] \in Int
  BY <1>1, <1>2 DEF s
<1>6. (\A c \in Columns : s[c] >= 0) \/ (\A c \in Columns : s[c] <= 0)
  <2>1. CASE \A c \in Stacked : prob[c] >= Total
    BY <1>1, <1>2, <2>1 DEF s
  <2>2. CASE \A c \in Stacked : prob[c] <= Total
    BY <1>1, <1>2, <2>2 DEF s
  <2> QED
    BY <1>4, <2>1, <2>2
<1>7. \A c \in Columns : s[c] = 0
  BY <1>1, <1>3, <1>5, <1>6, SumIsZero DEF s
<1> QED
  BY <1>1, <1>2, <1>7 DEF s

LEMMA FillUpJInv ==
  ASSUME IInv, JInv, FillUp
  PROVE  JInv'
<1>1. /\ pc = "pair" /\ pc' = "sample" /\ small' = <<>> /\ large' = <<>>
      /\ small = <<>> \/ large = <<>>
      /\ prob' = [c \in Columns |-> IF c \in Stacked THEN Total ELSE prob[c]]
      /\ weights' = weights /\ total_weight' = total_weight
      /\ alias' = alias /\ winner_set' = winner_set
  BY DEF FillUp, inputs, Stacked
<1>2. /\ n' = n /\ Columns' = Columns /\ Total' = Total
      /\ \A c : ScaledMass(c)' = ScaledMass(c)
  BY <1>1 DEF n, Columns, Total, ScaledMass
<1>3. Stacked' = {}
  BY <1>1 DEF Stacked, Range
<1>4. Weighed'
  BY <1>1, <1>2, <1>3 DEF JInv, Weighed
<1>5. FiledByMass' /\ PanicsOnlyPastWidth'
  BY <1>1 DEF FiledByMass, PanicsOnlyPastWidth
<1>6. TableFull'
  <2>1. ASSUME NEW c \in Columns
        PROVE  prob'[c] <= Total
    <3>1. /\ prob[c] \in -(I16Max + 1)..I16Max
          /\ Total \in -(I16Max + 1)..I16Max
      BY TotalIsI16 DEF IInv, TypeOK
    <3>2. c \notin Stacked => prob[c] < Total
      BY <1>1 DEF IInv, StacksPartition, Stacked
    <3> QED
      BY <1>1, <3>1, <3>2, WeightingsAssumption
  <2> QED
    BY <1>1, <1>2, <2>1 DEF TableFull
<1>7. MassIsKept'
  <2>1. CASE Total > 0
    <3>1. IsFiniteSet(Columns) /\ Total \in Int
          /\ \A c \in Columns : prob[c] \in Int
      <4>1. -(I16Max + 1)..I16Max \subseteq Int
        BY WeightingsAssumption
      <4> QED
        BY <4>1, TotalIsI16, ColumnsFinite DEF IInv, TypeOK
    <3>2. \A c \in Columns :
            prob'[c] = prob[c] /\ (c \in Stacked => prob[c] = Total)
      BY <1>1, <2>1, LeftoversFull DEF JInv
    <3>3. SumFunctionOnSet(Surplus', Columns) = 0
      <4>1. \A c \in Columns : Surplus'[c] = 0
        BY <1>2, <1>3 DEF Surplus
      <4> QED
        BY <3>1, <4>1, SumOfZeros
    <3>4. ASSUME NEW i \in Columns
          PROVE  prob'[i] + SumFunctionOnSet(Given(i)', Columns)
                   = n * weights[i + 1]
      <4> DEFINE s == Given(i)
                 t == Given(i)'
      <4>1. \A c \in Columns :
              s[c] = IF c \notin Stacked /\ alias[c] = i
                     THEN Total - prob[c] ELSE 0
        BY DEF Given
      <4>2. \A c \in Columns :
              t[c] = IF alias[c] = i THEN Total - prob'[c] ELSE 0
        BY <1>1, <1>2, <1>3 DEF Given
      <4>3. prob[i] + SumFunctionOnSet(s, Columns) = n * weights[i + 1]
        BY <1>1, <2>1 DEF JInv, MassIsKept
      <4> HIDE DEF s, t
      <4>4. \A c \in Columns : s[c] \in Int /\ t[c] = s[c]
        BY <3>1, <3>2, <4>1, <4>2
      <4>5. SumFunctionOnSet(t, Columns) = SumFunctionOnSet(s, Columns)
        BY <3>1, <4>4, SumSame
      <4>6. prob'[i] + SumFunctionOnSet(t, Columns) = n * weights[i + 1]
        BY <3>2, <4>3, <4>5
      <4> QED
        BY <4>6 DEF t
    <3> QED
      BY <1>1, <1>2, <3>3, <3>4 DEF MassIsKept
  <2>2. CASE ~(Total > 0)
    BY <1>2, <2>2 DEF MassIsKept
  <2> QED
    BY <2>1, <2>2
<1> QED
  BY <1>4, <1>5, <1>6, <1>7 DEF JInv

(* A drawing that fits does not panic: its products, sums and differences   *)
(* stay within 16 bits, and it samples below a positive total.              *)
LEMMA FittingGoesOn ==
  ASSUME IInv, JInv, Fits, n # 0
  PROVE  ~Panic
<1>1. /\ TypeOK /\ total_weight = SumFunctionOnSet(weights, 1..n)
      /\ I16Max \in Nat /\ n \in Nat
  BY ColumnsFinite, WeightingsAssumption DEF IInv, JInv, Weighed
<1>2. Total > 0
  BY <1>1, FittingTotal
<1>3. /\ Total \in Nat /\ Total <= I16Max
      /\ \A c \in Columns : /\ weights[c + 1] \in Nat
                            /\ ScaledMass(c) = n * weights[c + 1]
  BY <1>1, <1>2, PositiveTotal
<1>4. ASSUME pc = "classify", Len(small) + Len(large) < n
      PROVE  IsI16(ScaledMass(Len(small) + Len(large)))
  <2> DEFINE c == Len(small) + Len(large)
  <2>1. c \in Columns
    <3>1. Len(small) \in Nat /\ Len(large) \in Nat
      BY <1>1, LenProperties DEF TypeOK
    <3> QED
      BY <1>1, <1>4, <3>1 DEF Columns
  <2> HIDE DEF c
  <2>2. n * weights[c + 1] <= I16Max /\ n * weights[c + 1] \in Nat
    BY <1>1, <1>3, <2>1, ProductNat DEF Fits
  <2>3. IsI16(ScaledMass(c))
    BY <1>1, <1>3, <2>1, <2>2 DEF IsI16
  <2> QED
    BY <2>3 DEF c
<1>5. ASSUME pc = "pair", small # <<>>, large # <<>>
      PROVE  IsI16(Total - prob[Top(small)])
             /\ IsI16(MassLeft(Top(large), Top(small)))
  <2> DEFINE l == Top(small)
             g == Top(large)
  <2>1. /\ l \in Range(small) /\ l \in Columns
        /\ g \in Range(large) /\ g \in Columns
    <3>1. /\ small \in Seq(Columns) /\ large \in Seq(Columns)
          /\ IsInjective(small) /\ IsInjective(large)
      BY DEF IInv, TypeOK, StacksPartition
    <3>2. l \in Columns /\ Range(small) = Range(Popped(small)) \cup {l}
      BY <1>5, <3>1, PoppedOff
    <3>3. g \in Columns /\ Range(large) = Range(Popped(large)) \cup {g}
      BY <1>5, <3>1, PoppedOff
    <3> QED
      BY <3>2, <3>3
  <2> HIDE DEF l, g
  <2>2. prob[l] < Total /\ prob[g] >= Total
    BY <2>1 DEF IInv, StacksPartition
  <2>3. prob[l] > 0
    BY <1>2, <1>5, <2>1 DEF IInv, OwnColumnOpen
  <2>4. prob[l] \in -(I16Max + 1)..I16Max /\ prob[g] \in -(I16Max + 1)..I16Max
    BY <2>1 DEF IInv, TypeOK
  <2>5. IsI16(Total - prob[l]) /\ IsI16(MassLeft(g, l))
    BY <1>1, <1>3, <2>2, <2>3, <2>4 DEF IsI16, MassLeft
  <2> QED
    BY <2>5 DEF l, g
<1> QED
  BY <1>2, <1>3, <1>4, <1>5 DEF Panic

LEMMA PanicJInv ==
  ASSUME IInv, JInv, Panic
  PROVE  JInv'
<1>1. /\ pc' = "panicked"
      /\ pc \in {"classify", "pair", "sample"}
      /\ weights' = weights /\ total_weight' = total_weight
      /\ prob' = prob /\ alias' = alias /\ small' = small /\ large' = large
      /\ winner_set' = winner_set
  BY DEF Panic, inputs, table
<1>2. /\ n' = n /\ Columns' = Columns /\ Total' = Total /\ Stacked' = Stacked
      /\ (Fits' <=> Fits)
      /\ \A c : ScaledMass(c)' = ScaledMass(c)
  BY <1>1 DEF n, Columns, Total, Stacked, ScaledMass, Fits
<1>3. Weighed'
  BY <1>1, <1>2 DEF JInv, Weighed
<1>4. FiledByMass' /\ TableFull' /\ MassIsKept'
  BY <1>1 DEF FiledByMass, TableFull, MassIsKept
<1>5. ~Fits \/ n = 0
  BY FittingGoesOn
<1>6. PanicsOnlyPastWidth'
  BY <1>1, <1>2, <1>5 DEF PanicsOnlyPastWidth
<1> QED
  BY <1>3, <1>4, <1>6 DEF JInv

(* Sampling and returning leave the table alone.                            *)
LEMMA SamplingJInv ==
  ASSUME IInv, JInv,
         \/ \E c \in Columns, p \in 0..I16Max : Sample(c, p)
         \/ Return
         \/ UNCHANGED vars
  PROVE  JInv'
<1>1. /\ weights' = weights /\ total_weight' = total_weight
      /\ prob' = prob /\ alias' = alias /\ small' = small /\ large' = large
      /\ pc' = pc \/ (pc = "sample" /\ pc' = "done")
  BY DEF Sample, Return, vars, inputs, table
<1>2. /\ n' = n /\ Columns' = Columns /\ Total' = Total /\ Stacked' = Stacked
      /\ (Fits' <=> Fits)
      /\ \A c : ScaledMass(c)' = ScaledMass(c)
  BY <1>1 DEF n, Columns, Total, Stacked, ScaledMass, Fits
<1>3. /\ winner_set' # {} => Total > 0
      /\ pc' = "done" => winner_set' # {}
  <2>1. CASE \E c \in Columns, p \in 0..I16Max : Sample(c, p)
    <3>1. PICK c \in Columns, p \in 0..I16Max : Sample(c, p)
      BY <2>1
    <3>2. p \in 0..(Total - 1) /\ pc' = "sample" /\ Total \in Int
      BY <3>1, TotalIsI16, WeightingsAssumption DEF Sample, IInv
    <3> QED
      BY <3>2
  <2>2. CASE Return
    <3>1. /\ winner_set' = winner_set
          /\ Cardinality(winner_set) = max_num_winners
          /\ max_num_winners # 0
      BY <2>2 DEF Return, Enough, IInv, TypeOK
    <3>2. winner_set # {}
      BY <3>1, FS_EmptySet
    <3> QED
      BY <3>1, <3>2 DEF JInv, Weighed
  <2>3. CASE UNCHANGED vars
    BY <2>3 DEF vars, JInv, Weighed
  <2> QED
    BY <2>1, <2>2, <2>3
<1>4. Weighed'
  BY <1>1, <1>2, <1>3 DEF JInv, Weighed
<1>5. FiledByMass' /\ TableFull'
  BY <1>1, <1>2 DEF JInv, FiledByMass, TableFull
<1>6. MassIsKept'
  <2>1. Surplus' = Surplus /\ \A i : Given(i)' = Given(i)
    BY <1>1, <1>2 DEF Surplus, Given
  <2> QED
    BY <1>1, <1>2, <2>1 DEF JInv, MassIsKept
<1>7. PanicsOnlyPastWidth'
  <2>1. pc' = "done" => Fits
    <3> SUFFICES ASSUME pc' = "done" PROVE Fits
      OBVIOUS
    <3>1. Total > 0
      BY <1>3
    <3>2. /\ TypeOK /\ total_weight = SumFunctionOnSet(weights, 1..n)
          /\ \A c \in Columns : IsI16(ScaledMass(c))
      BY <1>1 DEF IInv, JInv, Weighed
    <3> QED
      BY <3>1, <3>2, FiledFits
  <2> QED
    BY <1>1, <1>2, <2>1 DEF JInv, PanicsOnlyPastWidth
<1> QED
  BY <1>4, <1>5, <1>6, <1>7 DEF JInv

LEMMA StepJInv == IInv /\ JInv /\ [Next]_vars => JInv'
BY ClassifyJInv, StartPairingJInv, PairJInv, FillUpJInv, PanicJInv,
   SamplingJInv
   DEF Next
-----------------------------------------------------------------------------
(* What a participant wins by is its own column up to the threshold and the *)
(* rest of the columns it filled up: as many outcomes as it has mass.       *)
LEMMA OddsFromMass ==
  ASSUME IInv, JInv
  PROVE  OddsAreTickets
<1> SUFFICES ASSUME pc \in {"sample", "done"}, Total > 0, NEW i \in Columns
             PROVE  Cardinality({o \in Columns \X (0..(Total - 1)) :
                                   WinnerOf(o[1], o[2]) = i})
                      = n * weights[i + 1]
  BY DEF OddsAreTickets
<1> DEFINE P == 0..(Total - 1)
           R == {o \in Columns \X P : WinnerOf(o[1], o[2]) = i}
           s == Given(i)
           k == [c \in Columns |-> s[c] + IF c = i THEN prob[c] ELSE 0]
<1>1. /\ TypeOK /\ total_weight = SumFunctionOnSet(weights, 1..n)
      /\ IsFiniteSet(Columns)
  BY ColumnsFinite DEF IInv, JInv, Weighed
<1>2. Total \in Nat /\ Total <= I16Max
  BY <1>1, PositiveTotal
<1>3. Fits
  <2>1. \A c \in Columns : IsI16(ScaledMass(c))
    BY DEF JInv, Weighed
  <2> QED
    BY <1>1, <2>1, FiledFits
<1>4. Stacked = {} /\ \A c \in Columns : prob[c] <= Total
  BY DEF JInv, TableFull, Stacked, Range
<1>5. \A c \in Columns : prob[c] \in Int /\ 0 < prob[c] /\ prob[c] <= Total
  <2>1. -(I16Max + 1)..I16Max \subseteq Int
    BY WeightingsAssumption
  <2>2. \A c \in Columns : prob[c] > 0 /\ prob[c] \in Int
    BY <1>1, <1>3, <2>1 DEF IInv, OwnColumnOpen, TypeOK
  <2> QED
    BY <1>4, <2>2
<1>6. \A c \in Columns :
        s[c] = IF alias[c] = i THEN Total - prob[c] ELSE 0
  BY <1>4 DEF Given
<1>7. prob[i] + SumFunctionOnSet(s, Columns) = n * weights[i + 1]
  BY DEF JInv, MassIsKept
<1> HIDE DEF s
<1>8. IsFiniteSet(P)
  BY <1>2, FS_Interval
<1>9. ASSUME NEW c \in Columns
      PROVE  k[c] = Cardinality(Fibre(R, P, c))
  <2> DEFINE W == {p \in P : WinnerOf(c, p) = i}
  <2>1. Fibre(R, P, c) = W
    BY DEF Fibre
  <2>2. prob[c] \in Int /\ 0 < prob[c] /\ prob[c] <= Total /\ Total \in Int
    BY <1>2, <1>5
  <2>3. \A p \in P : WinnerOf(c, p) = IF p < prob[c] THEN c ELSE alias[c]
    BY DEF WinnerOf
  <2>4. CASE c = i /\ alias[c] = i
    <3>1. W = 0..(Total - 1)
      BY <2>3, <2>4
    <3>2. Cardinality(0..(Total - 1)) = Total
      BY <2>2, FS_Interval
    <3>3. k[c] = Total
      BY <1>6, <2>2, <2>4
    <3> QED
      BY <2>1, <3>1, <3>2, <3>3
  <2>5. CASE c = i /\ alias[c] # i
    <3>1. W = 0..(prob[c] - 1)
      BY <2>2, <2>3, <2>5
    <3>2. Cardinality(0..(prob[c] - 1)) = prob[c]
      BY <2>2, FS_Interval
    <3>3. k[c] = prob[c]
      BY <1>6, <2>2, <2>5
    <3> QED
      BY <2>1, <3>1, <3>2, <3>3
  <2>6. CASE c # i /\ alias[c] = i
    <3>1. W = prob[c]..(Total - 1)
      BY <2>2, <2>3, <2>6
    <3>2. Cardinality(prob[c]..(Total - 1)) = Total - prob[c]
      BY <2>2, FS_Interval
    <3>3. k[c] = Total - prob[c]
      BY <1>6, <2>2, <2>6
    <3> QED
      BY <2>1, <3>1, <3>2, <3>3
  <2>7. CASE c # i /\ alias[c] # i
    <3>1. W = {}
      BY <2>3, <2>7
    <3>2. k[c] = 0
      BY <1>6, <2>2, <2>7
    <3> QED
      BY <2>1, <3>1, <3>2, FS_EmptySet
  <2> QED
    BY <2>4, <2>5, <2>6, <2>7
<1>10. Cardinality(R) = SumFunctionOnSet(k, Columns)
  <2>1. R \subseteq Columns \X P
    OBVIOUS
  <2> HIDE DEF R, P, k
  <2> QED
    BY <1>1, <1>8, <1>9, <2>1, SumOfFibres
<1>11. SumFunctionOnSet(k, Columns)
         = SumFunctionOnSet(s, Columns) + (k[i] - s[i])
  <2>1. \A c \in Columns : s[c] \in Int /\ k[c] \in Int
    BY <1>2, <1>5, <1>6
  <2>2. \A c \in Columns \ {i} : k[c] = s[c]
    BY <1>2, <1>5, <1>6
  <2> HIDE DEF k
  <2> QED
    BY <1>1, <2>1, <2>2, SumChange
<1>12. k[i] = s[i] + prob[i] /\ s[i] \in Int /\ prob[i] \in Int
  BY <1>2, <1>5, <1>6
<1>13. SumFunctionOnSet(s, Columns) \in Int
  <2>1. \A c \in Columns : s[c] \in Int
    BY <1>2, <1>5, <1>6
  <2> QED
    BY <1>1, <2>1, SumInt
<1>14. Cardinality(R) = n * weights[i + 1]
  <2> HIDE DEF R, k, P
  <2> QED
    BY <1>7, <1>10, <1>11, <1>12, <1>13
<1> QED
  BY <1>14
-----------------------------------------------------------------------------
(* The strengthened invariant holds in every reachable state.              *)
THEOREM Invariance == Spec => []IInv
BY InitIInv, StepIInv, PTL DEF Spec

(* Thresholds are 16-bit integers and winners are participants.            *)
THEOREM TypeCorrect == Spec => []TypeOK
<1>1. IInv => TypeOK
  BY DEF IInv
<1> QED
  BY <1>1, Invariance, PTL

(* The stacks of the alias method hold each column once, where it belongs. *)
THEOREM StacksArePartition == Spec => []StacksPartition
<1>1. IInv => StacksPartition
  BY DEF IInv
<1> QED
  BY <1>1, Invariance, PTL

(* Whoever has not won can still win, in the column of its own.            *)
THEOREM AnotherCanAlwaysWin == Spec => []AnotherCanWin
<1>1. ASSUME IInv
      PROVE  AnotherCanWin
  <2> SUFFICES ASSUME pc = "sample", Fits, Total > 0, NEW i \in Columns
               PROVE  \E c \in Columns, p \in 0..(Total - 1) :
                        WinnerOf(c, p) = i
    BY DEF AnotherCanWin
  <2>1. prob[i] > 0
    BY <1>1 DEF IInv, OwnColumnOpen
  <2>2. 0 \in 0..(Total - 1)
    BY <1>1, TotalIsI16 DEF IInv
  <2>3. WinnerOf(i, 0) = i
    BY <2>1 DEF WinnerOf
  <2> QED
    BY <2>2, <2>3
<1> QED
  BY <1>1, Invariance, PTL

(* What the table holds is kept as long as the stacks are.                  *)
THEOREM MassInvariance == Spec => [](IInv /\ JInv)
BY InitIInv, InitJInv, StepIInv, StepJInv, PTL DEF Spec

(* The drawing panics only when a product of the participants and the       *)
(* tickets of one does not fit 16 bits, and it ends only when all do.       *)
THEOREM PanicIsPastWidth == Spec => []PanicsOnlyPastWidth
<1>1. IInv /\ JInv => PanicsOnlyPastWidth
  BY DEF JInv
<1> QED
  BY <1>1, MassInvariance, PTL

(* The odds of the drawing are exactly the tickets.                         *)
THEOREM OddsAreExact == Spec => []OddsAreTickets
<1>1. IInv /\ JInv => OddsAreTickets
  BY OddsFromMass
<1> QED
  BY <1>1, MassInvariance, PTL

(* The drawing implements DrawPromise: as many different participants as   *)
(* there are rewards, handed over in one step, once.                       *)
THEOREM DrawingKeepsPromise == Spec => KeepsPromise
<1>1. Init => Promise!Init
  <2> SUFFICES ASSUME Init PROVE Promise!Init
    OBVIOUS
  <2>1. pc = "classify" /\ TypeOK
    BY InitIInv, Zenon DEF Init, IInv
  <2>2. n \in Nat
    BY <2>1, LenProperties DEF TypeOK, n
  <2> QED
    BY <2>1, <2>2 DEF Promise!Init, TypeOK
<1>2. TypeOK /\ [Next]_vars => [Promise!Choose]_(Promise!vars)
  BY StepKeepsPromise
<1> QED
  BY <1>1, <1>2, TypeCorrect, PTL DEF Spec, KeepsPromise, Promise!Spec
=============================================================================
