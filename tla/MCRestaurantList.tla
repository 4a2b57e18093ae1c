-------------------------- MODULE MCRestaurantList --------------------------
(***************************************************************************)
(* An instance of RestaurantList: one customer who filters and bookmarks,  *)
(* and another one whose answers share the cache.                          *)
(***************************************************************************)
EXTENDS RestaurantList

CONSTANTS a, b

BothClients == {a, b}
Here == {p \in Profile : p.place = "here"}

MCFilters == [c \in BothClients |-> IF c = a THEN {Profile, Here} ELSE {Profile}]
MCBookmarkable == [c \in BothClients |-> IF c = a THEN {1} ELSE {}]
MCMaxQueue == [c \in BothClients |-> IF c = a THEN 2 ELSE 1]
MCFirstProfile ==
  [r \in {1, 2} |-> [place |-> IF r = 1 THEN "here" ELSE "there", type |-> "fast"]]
=============================================================================
