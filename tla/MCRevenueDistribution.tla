----------------------- MODULE MCRevenueDistribution -----------------------
(***************************************************************************)
(* Instances of RevenueDistribution: every amount up to a bound, with fee  *)
(* rates from none to above 100%, and up to four receivers whose shares    *)
(* include zeros, remainders and sums that are not 100%.                   *)
(***************************************************************************)
EXTENDS RevenueDistribution

MCRevenues == 0..14 \cup {101, 1003}
MCFeeRates == {0, 333, 2500, 10000, 12000}
MCShares   == {0, 1, 3333, 3334, 5000, 9999, 10000}
Splits(n)  == {s \in [1..n -> MCShares] : Prefix(s, n) = BPS}
MCShareConfigs ==
  {<<>>, <<9999>>, <<10000, 1>>, <<65535, 10001>>}
    \cup Splits(1) \cup Splits(2) \cup Splits(3)
    \cup {<<0, 3333, 3333, 3334>>, <<3333, 3334, 0, 3333>>, <<1, 0, 9999, 0>>}
=============================================================================
