------------------------------ MODULE DemoData ------------------------------
(***************************************************************************)
(* The statements of seedDemoData (src/src/common/demodata.cpp) and of     *)
(* createTables (src/src/common/databasehandler.cpp), in their order.      *)
(* Dishes are numbered instead of named; the two statements of addFoodItem *)
(* are one, because nobody revokes the approval it looks for.              *)
(***************************************************************************)
EXTENDS FirstStart

CreatedTables == <<"users", "restaurants", "foods", "orders", "order_items",
  "reviews", "wallet_transactions", "coupons", "favorites">>

AddedColumns == <<"balance", "discount", "coupon_code", "payment_method">>

\* The tables of the releases before version 3 of the schema.
OldTables == {"users", "restaurants", "foods", "orders", "order_items", "reviews"}

\* A row of a table with a key, and one of a table without.
Keyed(row, needs) == [row |-> row, unique |-> TRUE, needs |-> needs, user |-> FALSE]
Plain(row, needs) == [row |-> row, unique |-> FALSE, needs |-> needs, user |-> FALSE]

Account(name) == <<"account", name, 0>>
Approval(name) == <<"approval", name, 0>>
Dish(name, i) == <<"dish", name, i>>
Order(status) == <<"order", status, 0>>
Items(status) == <<"items", status, 0>>
Review(status) == <<"review", status, 0>>
Coupon(code) == <<"coupon", code, 0>>
TopUp == <<"top-up", "demo_customer", 0>>
Bookmark == <<"favorite", "kebab_hafez", 0>>

DemoUser(name) == [row |-> Account(name), unique |-> TRUE, needs |-> {}, user |-> TRUE]

DemoRestaurant(name) == <<DemoUser(name), Keyed(Approval(name), {Account(name)})>>

\* A restaurant's dishes need its id and its approval.
Menu(name, size) ==
  [i \in 1 .. size |-> Plain(Dish(name, i), {Account(name), Approval(name)})]

\* Orders are made only if the customer and both restaurants were found.
Parties == {Account("demo_customer"), Account("kebab_hafez"), Account("pizza_pardis")}

DemoOrder(status) == << Plain(Order(status), Parties), Plain(Items(status), Parties) >>

DemoScript ==
  << DemoUser("admin"), DemoUser("demo_customer") >>
  \o DemoRestaurant("kebab_hafez") \o DemoRestaurant("pizza_pardis")
  \o DemoRestaurant("burger_bam")
  \o Menu("kebab_hafez", 4) \o Menu("pizza_pardis", 4) \o Menu("burger_bam", 3)
  \o DemoOrder("delivered") \o << Plain(Review("delivered"), Parties) >>
  \o DemoOrder("pending")
  \o << Plain(TopUp, {Account("demo_customer")}),
        Keyed(Coupon("WELCOME20"), {}), Keyed(Coupon("IUT50"), {}),
        Keyed(Bookmark, {Account("demo_customer"), Account("kebab_hafez")}) >>

\* Every lookup of seedDemoData is for something it has inserted before.
ASSUME DemoAssumption == WellFormed(DemoScript)
=============================================================================
