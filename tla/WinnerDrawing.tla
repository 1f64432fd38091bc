--------------------------- MODULE WinnerDrawing ---------------------------
(***************************************************************************)
(* The weighted drawing of make_raffle: create_alias_table's alias method  *)
(* in 16-bit integers, one action per turn of a loop, and pick_winners,    *)
(* which samples the table into a bit set until it holds as many winners   *)
(* as there are rewards. An arithmetic overflow panics, and the random     *)
(* numbers are any in the range that is asked for.                         *)
(***************************************************************************)
EXTENDS Integers, Sequences, FiniteSets, Functions

CONSTANTS
  Weightings,     \* the ticket_positions a raffle may have
  Wanted,         \* the numbers of winners a raffle may want
  I16Max          \* 2^15 - 1 in the code

ASSUME WeightingsAssumption ==
  /\ Weightings \subseteq Seq(Nat \ {0})     \* a position holds tickets
  /\ Wanted \subseteq Nat \ {0}
  /\ I16Max \in Nat \ {0}

VARIABLES
  pc,                \* the loop the code is in
  weights,           \* tickets of each participant, by id from 0
  total_weight,      \* Raffle.ticket_sold
  max_num_winners,   \* Raffle.num_raffled_nfts
  prob,              \* threshold of each column of the table
  alias,             \* who wins a column above the threshold
  small,             \* stack of columns below the total weight
  large,             \* stack of the others
  winner_set         \* the bit set

inputs == <<weights, total_weight, max_num_winners>>
table  == <<prob, alias, small, large>>
vars   == <<pc, inputs, table, winner_set>>
-----------------------------------------------------------------------------
n == Len(weights)

(* One for each participant, the ticket position of that id. *)
Columns == 0..(n - 1)

IsI16(x) == -(I16Max + 1) <= x /\ x <= I16Max

(* u16, the type of ticket_sold *)
TicketTotals == 0..(2 * I16Max + 1)

(* `as i16` of a u16 *)
AsI16(x) == IF x <= I16Max THEN x ELSE x - 2 * (I16Max + 1)

Total == AsI16(total_weight)

(* Faulty: not scaled by the number of columns. *)
UnscaledMass(i) == AsI16(weights[i + 1])

(* What prob[i] starts with. *)
ScaledMass(i) == AsI16(n) * AsI16(weights[i + 1])

(* What is left of column g when it has filled up column l. *)
MassLeft(g, l) == prob[g] - (Total - prob[l])

(* Faulty: the stack is popped at the wrong end. *)
PoppedBelow(stack) == Tail(stack)

Popped(stack) == SubSeq(stack, 1, Len(stack) - 1)

Top(stack) == stack[Len(stack)]

(* Column c is filed by its threshold p. *)
Filed(c, p, smalls, larges) ==
  IF p < Total
  THEN small' = Append(smalls, c) /\ large' = larges
  ELSE small' = smalls /\ large' = Append(larges, c)

(* Faulty: the threshold itself still wins the column. *)
WinnerOfBeyond(c, p) == IF p <= prob[c] THEN c ELSE alias[c]

(* sample, when the random column is c and the random weight p. *)
WinnerOf(c, p) == IF p < prob[c] THEN c ELSE alias[c]

(* Faulty: one winner short. *)
AlmostEnough == Cardinality(winner_set) + 1 = max_num_winners

Enough == Cardinality(winner_set) = max_num_winners
-----------------------------------------------------------------------------
Init ==
  /\ pc = "classify"
  /\ weights \in Weightings
  /\ total_weight \in TicketTotals
  /\ total_weight = SumFunction(weights)
  /\ max_num_winners \in Wanted
  /\ prob = [c \in Columns |-> 0]
  /\ alias = [c \in Columns |-> 0]
  /\ small = <<>>
  /\ large = <<>>
  /\ winner_set = {}

(* A turn of the first loop, for the next column. *)
Classify ==
  LET c == Len(small) + Len(large)
  IN /\ pc = "classify"
     /\ c < n
     /\ IsI16(ScaledMass(c))
     /\ prob' = [prob EXCEPT ![c] = ScaledMass(c)]
     /\ Filed(c, ScaledMass(c), small, large)
     /\ UNCHANGED <<pc, inputs, alias, winner_set>>

StartPairing ==
  /\ pc = "classify"
  /\ Len(small) + Len(large) = n
  /\ pc' = "pair"
  /\ UNCHANGED <<inputs, table, winner_set>>

(* A large column fills up a small one and is filed again. *)
Pair ==
  LET l == Top(small)
      g == Top(large)
  IN /\ pc = "pair"
     /\ small # <<>>
     /\ large # <<>>
     /\ IsI16(Total - prob[l])
     /\ IsI16(MassLeft(g, l))
     /\ alias' = [alias EXCEPT ![l] = g]
     /\ prob' = [prob EXCEPT ![g] = MassLeft(g, l)]
     /\ Filed(g, MassLeft(g, l), Popped(small), Popped(large))
     /\ UNCHANGED <<pc, inputs, winner_set>>

(* The last two loops: whatever is left in a stack becomes full. *)
FillUp ==
  /\ pc = "pair"
  /\ small = <<>> \/ large = <<>>
  /\ prob' = [c \in Columns |->
                IF c \in Range(small) \cup Range(large) THEN Total ELSE prob[c]]
  /\ small' = <<>>
  /\ large' = <<>>
  /\ pc' = "sample"
  /\ UNCHANGED <<inputs, alias, winner_set>>

(* A turn of pick_winners' loop; a winner drawn again changes nothing. *)
Sample(c, p) ==
  /\ pc = "sample"
  /\ ~Enough
  /\ c \in Columns
  /\ p \in 0..(Total - 1)
  /\ winner_set' = winner_set \cup {WinnerOf(c, p)}
  /\ UNCHANGED <<pc, inputs, table>>

Return ==
  /\ pc = "sample"
  /\ Enough
  /\ pc' = "done"
  /\ UNCHANGED <<inputs, table, winner_set>>

(* Checked arithmetic overflows, or gen_range is given an empty range.     *)
Panic ==
  /\ \/ /\ pc = "classify"
        /\ Len(small) + Len(large) < n
        /\ ~IsI16(ScaledMass(Len(small) + Len(large)))
     \/ /\ pc = "pair"
        /\ small # <<>>
        /\ large # <<>>
        /\ \/ ~IsI16(Total - prob[Top(small)])
           \/ ~IsI16(MassLeft(Top(large), Top(small)))
     \/ /\ pc = "sample"
        /\ ~Enough
        /\ n = 0 \/ Total <= 0
  /\ pc' = "panicked"
  /\ UNCHANGED <<inputs, table, winner_set>>

Next ==
  \/ Classify
  \/ StartPairing
  \/ Pair
  \/ FillUp
  \/ \E c \in Columns, p \in 0..I16Max : Sample(c, p)
  \/ Return
  \/ Panic

Spec == Init /\ [][Next]_vars
-----------------------------------------------------------------------------
(* What CanDraw of Raffle asks of the tickets sold. *)
Fits == \A i \in Columns : n * weights[i + 1] <= I16Max

(* The sets each variable ranges over; a threshold is a 16-bit integer. *)
TypeOK ==
  /\ pc \in {"classify", "pair", "sample", "done", "panicked"}
  /\ weights \in Seq(Nat \ {0})
  /\ total_weight \in TicketTotals
  /\ max_num_winners \in Nat \ {0}
  /\ prob \in [Columns -> -(I16Max + 1)..I16Max]
  /\ alias \in [Columns -> Columns]
  /\ small \in Seq(Columns)
  /\ large \in Seq(Columns)
  /\ winner_set \subseteq Columns

(* The odds are exact: of all outcomes of the two random numbers, those     *)
(* that make a participant the winner are in the proportion of the tickets, *)
(* and no rounding favours the columns that are filed last.                 *)
OddsAreTickets ==
  pc \in {"sample", "done"} /\ Total > 0 =>
    \A i \in Columns :
      Cardinality({o \in Columns \X (0..(Total - 1)) :
                     WinnerOf(o[1], o[2]) = i}) = n * weights[i + 1]

(* Each column is in at most one stack, once, and in the one its threshold  *)
(* belongs to; so a column that is paired is not visited again as small,    *)
(* and its threshold and alias are final.                                   *)
StacksPartition ==
  /\ IsInjective(small)
  /\ IsInjective(large)
  /\ \A c \in Range(small) : prob[c] < Total
  /\ \A c \in Range(large) : prob[c] >= Total
  /\ pc = "pair" =>
       \A c \in Columns \ (Range(small) \cup Range(large)) :
         prob[c] < Total /\ alias[c] # c

(* As long as a participant has not won, some random numbers would make it  *)
(* win: the loop of pick_winners is never caught by a table that only gives *)
(* the winners it has, as long as there are participants enough.            *)
AnotherCanWin ==
  pc = "sample" /\ Fits /\ Total > 0 =>
    \A i \in Columns \ winner_set :
      \E c \in Columns, p \in 0..(Total - 1) : WinnerOf(c, p) = i

(* The drawing panics just when Raffle's CanDraw says so: when a product of *)
(* the number of participants and the tickets of one of them does not fit   *)
(* 16 bits (or there is nobody to draw).                                    *)
PanicsOnlyPastWidth ==
  /\ pc = "panicked" => ~Fits \/ n = 0
  /\ pc = "done" => Fits

(* The winners are handed over once, as many different participants as     *)
(* there are rewards.                                                       *)
Promise == INSTANCE DrawPromise WITH
  participants <- n,
  wanted <- max_num_winners,
  chosen <- IF pc = "done" THEN winner_set ELSE {}

KeepsPromise == Promise!Spec
=============================================================================
