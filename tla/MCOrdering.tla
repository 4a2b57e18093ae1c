----------------------------- MODULE MCOrdering -----------------------------
(***************************************************************************)
(* Small instances of Ordering: one customer, one or two client processes  *)
(* and the server, one coupon.                                             *)
(***************************************************************************)
EXTENDS Ordering, TLC

CONSTANTS c1, c2, server, k1, none

\* A fixed amount off.
AmountKind == k1 :> "amount"
OneOff == k1 :> 1
TwoOff == k1 :> 2

NoMinimum == k1 :> 0
Minimum2 == k1 :> 2
OneUse == k1 :> 1

TwoClients == Permutations({c1, c2})
=============================================================================
