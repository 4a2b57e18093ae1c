----------------------------- MODULE MCTracking -----------------------------
(***************************************************************************)
(* Instances of Tracking: every customer window belongs to the user who    *)
(* placed the orders.                                                      *)
(***************************************************************************)
EXTENDS Tracking, TLC

OneUser == [c \in Customers |-> Orders]

\* The customer windows are interchangeable.
Windows == Permutations(Customers)
=============================================================================
