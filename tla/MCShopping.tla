----------------------------- MODULE MCShopping -----------------------------
(***************************************************************************)
(* Instances of Shopping: two restaurants with a dish each, one of which   *)
(* is given a second price.                                                *)
(***************************************************************************)
EXTENDS Shopping, TLC

CONSTANTS r1, r2

TwoDishes == {1, 2}
TwoRestaurants == {r1, r2}
APriceChanges == (1 :> {1, 2}) @@ (2 :> {1})
OneDishEach == (1 :> r1) @@ (2 :> r2)
=============================================================================
