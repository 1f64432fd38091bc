-------------------------- MODULE IntegerDivision --------------------------
(***************************************************************************)
(* What the program divides: portions of an amount in basis points (the    *)
(* market fee in collect_fees, a receiver's share in make_distribution and *)
(* the smallest raise over the top bid in get_min_eligible_bid), and the   *)
(* number of a key into a page and a place in it (page_id, and the client).*)
(* The program is built with overflow checks (Cargo.toml, profile.release),*)
(* so a product that does not fit its integer type aborts the transaction. *)
(* What ArithmeticProof shows of these operators every proof may cite.     *)
(***************************************************************************)
EXTENDS Integers

BPS == 10000

(* `amount * rate / 10000` of Rust's integers: the division truncates. *)
Portion(amount, rate) == (amount * rate) \div BPS

(* The multiplication of a Portion does not overflow a type whose largest  *)
(* value is max; when it does, the transaction aborts.                     *)
PortionFits(amount, rate, max) == amount * rate <= max

(* The same of a signed amount: Rust's division truncates toward 0.         *)
SignedPortion(amount, rate) ==
  IF amount >= 0 THEN Portion(amount, rate) ELSE -Portion(-amount, rate)

(* The casts between an unsigned and a signed type of one width, whose      *)
(* largest signed value is max: they wrap.                                  *)
AsSigned(n, max) == IF n <= max THEN n ELSE n - 2 * (max + 1)

AsUnsigned(n, max) == IF n >= 0 THEN n ELSE n + 2 * (max + 1)

(* A value does not overflow that signed type.                              *)
FitsSigned(n, max) == -(max + 1) <= n /\ n <= max
=============================================================================
