--------------------------- MODULE AuctionPromise ---------------------------
(***************************************************************************)
(* What an auction promises its parties, without clock, status, accounts   *)
(* or instructions: while it is open the price rises (or stays: a minimum  *)
(* raise may round to nothing) with the bidder who leads, all but the      *)
(* leader may take their stake back at any time, and once it has closed    *)
(* the leader's stake is exchanged for the lot, each half once and in      *)
(* either order. Without a leader the lot goes back.                       *)
(* Auction implements this (Auction!KeepsPromise).                         *)
(***************************************************************************)
EXTENDS Naturals

CONSTANTS
  Users,     \* who may bid
  Creator,   \* who lists the lot, and never bids
  Nobody,    \* no leader yet
  Escrow     \* holds the lot from its listing until it is delivered

VARIABLES
  phase,     \* "unlisted", "open", "closed" or "withdrawn"
  price,     \* what the leader offers
  leader,    \* who gets the lot if the auction closes now
  stake,     \* what each user has at stake, the leader the price
  holder,    \* who holds the lot
  paid       \* what the sale has brought in

vars == <<phase, price, leader, stake, holder, paid>>
-----------------------------------------------------------------------------
Init ==
  /\ phase = "unlisted"
  /\ price = 0
  /\ leader = Nobody
  /\ stake = [u \in Users |-> 0]
  /\ holder = Creator
  /\ paid = 0

List ==
  /\ phase = "unlisted"
  /\ phase' = "open"
  /\ holder' = Escrow
  /\ UNCHANGED <<price, leader, stake, paid>>

Bid(u) ==
  /\ phase = "open"
  /\ u # Creator
  /\ price' \in Nat \ {0}
  /\ price' >= price
  /\ leader' = u
  /\ stake' = [stake EXCEPT ![u] = price']
  /\ UNCHANGED <<phase, holder, paid>>

Refund(u) ==
  /\ u # leader
  /\ stake' = [stake EXCEPT ![u] = 0]
  /\ UNCHANGED <<phase, price, leader, holder, paid>>

Close ==
  /\ phase = "open"
  /\ phase' = "closed"
  /\ UNCHANGED <<price, leader, stake, holder, paid>>

Deliver ==
  /\ phase = "closed"
  /\ leader # Nobody
  /\ holder = Escrow
  /\ holder' = leader
  /\ UNCHANGED <<phase, price, leader, stake, paid>>

Pay ==
  /\ phase = "closed"
  /\ leader # Nobody
  /\ stake[leader] = price
  /\ paid = 0
  /\ paid' = price
  /\ stake' = [stake EXCEPT ![leader] = 0]
  /\ UNCHANGED <<phase, price, leader, holder>>

Unlist ==
  /\ phase \in {"open", "closed"}
  /\ leader = Nobody
  /\ phase' = "withdrawn"
  /\ holder' = Creator
  /\ UNCHANGED <<price, leader, stake, paid>>

Next ==
  \/ List
  \/ \E u \in Users : Bid(u)
  \/ \E u \in Users : Refund(u)
  \/ Close
  \/ Deliver
  \/ Pay
  \/ Unlist

Spec == Init /\ [][Next]_vars
=============================================================================
