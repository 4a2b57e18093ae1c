----------------------------- MODULE MCAccounts -----------------------------
(***************************************************************************)
(* Instances of Accounts.                                                  *)
(***************************************************************************)
EXTENDS Accounts, TLC

CONSTANTS p1, p2, n1, n2

\* A file from before version 2.1 with one customer.
OldFile == << [name |-> n1, password |-> p1, owner |-> p1, hash |-> "sha256",
               role |-> "customer", active |-> TRUE, approved |-> TRUE] >>

\* A file with two approved restaurants.
TwoRestaurants ==
  << [name |-> n1, password |-> p1, owner |-> p1, hash |-> "pbkdf2",
      role |-> "restaurant", active |-> TRUE, approved |-> TRUE],
     [name |-> n2, password |-> p2, owner |-> p2, hash |-> "pbkdf2",
      role |-> "restaurant", active |-> TRUE, approved |-> TRUE] >>

\* The client processes are interchangeable.
Launchers == Permutations(Clients)
=============================================================================
