--------------------------- MODULE RafflePromise ---------------------------
(***************************************************************************)
(* What a raffle promises its parties, without clock, accounts, indices or *)
(* instructions: tickets are sold at one price until the sale ends; then   *)
(* once, for good, as many different ticket holders are drawn as there are *)
(* rewards; each takes one reward and the creator the whole revenue, in    *)
(* any order. What sold nothing may be withdrawn with all rewards.         *)
(* In production Raffle implements this (Raffle!KeepsPromise).             *)
(***************************************************************************)
EXTENDS Integers, FiniteSets

CONSTANTS
  Users,     \* who may hold tickets
  Creator    \* who lists the rewards, and buys none

VARIABLES
  phase,     \* "unlisted", "selling", "ended", "drawn" or "withdrawn"
  price,     \* of one ticket
  tickets,   \* the tickets each user holds
  revenue,   \* what the sale has brought in and nobody has taken
  rewards,   \* how many nobody has taken
  winners,   \* who may take one
  served,    \* who took one
  collected  \* the revenue is taken

vars == <<phase, price, tickets, revenue, rewards, winners, served, collected>>

Holders == {u \in Users : tickets[u] # 0}
-----------------------------------------------------------------------------
Init ==
  /\ phase = "unlisted"
  /\ price = 0
  /\ tickets = [u \in Users |-> 0]
  /\ revenue = 0
  /\ rewards = 0
  /\ winners = {}
  /\ served = {}
  /\ collected = FALSE

List ==
  /\ phase = "unlisted"
  /\ phase' = "selling"
  /\ price' \in Nat
  /\ rewards' \in Nat \ {0}
  /\ UNCHANGED <<tickets, revenue, winners, served, collected>>

Buy(u) ==
  LET n == tickets'[u] - tickets[u]
  IN /\ phase = "selling"
     /\ u # Creator
     /\ n > 0
     /\ tickets' = [tickets EXCEPT ![u] = @ + n]
     /\ revenue' = revenue + n * price
     /\ UNCHANGED <<phase, price, rewards, winners, served, collected>>

EndSale ==
  /\ phase = "selling"
  /\ phase' = "ended"
  /\ UNCHANGED <<price, tickets, revenue, rewards, winners, served, collected>>

Draw ==
  /\ phase = "ended"
  /\ phase' = "drawn"
  /\ winners' \subseteq Holders
  /\ Cardinality(winners') = rewards
  /\ UNCHANGED <<price, tickets, revenue, rewards, served, collected>>

TakeReward(u) ==
  /\ phase = "drawn"
  /\ u \in winners \ served
  /\ rewards' = rewards - 1
  /\ served' = served \cup {u}
  /\ UNCHANGED <<phase, price, tickets, revenue, winners, collected>>

TakeRevenue ==
  /\ phase = "drawn"
  /\ ~collected
  /\ collected' = TRUE
  /\ revenue' = 0
  /\ UNCHANGED <<phase, price, tickets, rewards, winners, served>>

Withdraw ==
  /\ phase \in {"selling", "ended"}
  /\ Holders = {}
  /\ phase' = "withdrawn"
  /\ rewards' = 0
  /\ UNCHANGED <<price, tickets, revenue, winners, served, collected>>

Next ==
  \/ List
  \/ \E u \in Users : Buy(u)
  \/ EndSale
  \/ Draw
  \/ \E u \in Users : TakeReward(u)
  \/ TakeRevenue
  \/ Withdraw

Spec == Init /\ [][Next]_vars
=============================================================================
