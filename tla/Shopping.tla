------------------------------ MODULE Shopping ------------------------------
(***************************************************************************)
(* From a restaurant's menu to the lines of an order and back: menus       *)
(* (databasehandler.cpp:552-614, menudialog.cpp), the cart of a client     *)
(* process (shoppingcart.cpp), its checkout (client.cpp:130-212) and the   *)
(* reorder button (profilepanel.cpp:147-178).                              *)
(*                                                                         *)
(* A process has one cart, whoever signs in and whichever restaurants it   *)
(* shops at.  Its lines are copies: of the dish as the menu showed it, or  *)
(* of an old order's line.  An order goes to the restaurant named on the   *)
(* first line.  The amounts and the coupons are in module Ordering.        *)
(***************************************************************************)
EXTENDS Naturals, Sequences

CONSTANTS
  Processes,    \* clients
  Dishes,       \* ids of foods
  Restaurants,
  Owner,        \* the restaurant whose menu a dish was added to
  Prices,       \* the prices a dish may be given
  Nobody,
  MaxUnits,     \* bound: portions of a dish in a cart
  MaxOrders     \* bound: orders

ShoppingAssumption ==
  /\ Owner \in [Dishes -> Restaurants]
  /\ Nobody \notin Restaurants
  /\ Prices \in [Dishes -> SUBSET (Nat \ {0})]
  /\ MaxUnits \in Nat /\ MaxOrders \in Nat
ASSUME ShoppingAssumption

VARIABLES
  price,    \* foods.price; 0: there is no such row (yet, or any more)
  menu,     \* the prices on a process's open menu; 0: a dish it does not show
  cart,     \* m_items of the process
  orders,   \* the rows of orders with their order_items
  step,     \* after which statement of a checkout the process stands
  job,      \* and of which order; 0: none
  listed,   \* history: the prices a dish has had
  added,    \* history: the portions put into the cart of a process
  ordered   \* history: the portions in its orders that were paid or left to cash

shop == <<cart, step, job, added, ordered>>
vars == <<price, menu, cart, orders, step, job, listed, added, ordered>>

NoLine == [quantity |-> 0, price |-> 0, restaurant |-> Nobody]
EmptyCart == [d \in Dishes |-> NoLine]
NoItems == [d \in Dishes |-> [quantity |-> 0, price |-> 0]]

Lines(items) == { d \in Dishes : items[d].quantity > 0 }

Init ==
  /\ price = [d \in Dishes |-> 0]
  /\ menu = [p \in Processes |-> [d \in Dishes |-> 0]]
  /\ cart = [p \in Processes |-> EmptyCart]
  /\ orders = <<>>
  /\ step = [p \in Processes |-> "shopping"]
  /\ job = [p \in Processes |-> 0]
  /\ listed = [d \in Dishes |-> {}]
  /\ added = [p \in Processes |-> [d \in Dishes |-> 0]]
  /\ ordered = [p \in Processes |-> [d \in Dishes |-> 0]]
-----------------------------------------------------------------------------
(***************************************************************************)
(* The restaurants' menus.                                                 *)
(***************************************************************************)
SetPrice(d, x) ==
  /\ price' = [price EXCEPT ![d] = x]
  /\ listed' = [listed EXCEPT ![d] = @ \cup {x}]
  /\ UNCHANGED <<menu, orders, shop>>

\* An id is given once (AUTOINCREMENT).
AddFoodItem(d, x) == listed[d] = {} /\ SetPrice(d, x)

UpdateFoodItem(d, x) == price[d] # 0 /\ SetPrice(d, x)

DeleteFoodItem(d) ==
  /\ price[d] # 0
  /\ price' = [price EXCEPT ![d] = 0]
  /\ UNCHANGED <<menu, orders, listed, shop>>
-----------------------------------------------------------------------------
(***************************************************************************)
(* The customer.  While a checkout runs nothing else of its process does.  *)
(***************************************************************************)
Shops(p) == step[p] = "shopping"

\* populateMenuItems: the widgets keep what was read.
OpenMenu(p, r) ==
  /\ Shops(p)
  /\ menu' = [menu EXCEPT ![p] = [d \in Dishes |-> IF Owner[d] = r THEN price[d] ELSE 0]]
  /\ UNCHANGED <<price, orders, listed, shop>>

\* addItem, for each line of new: a dish that is in the cart keeps its line, price
\* and restaurant included, and only its quantity grows.
Merged(c, new) ==
  [d \in Dishes |-> IF c[d].quantity > 0
                      THEN [c[d] EXCEPT !.quantity = @ + new[d].quantity]
                      ELSE new[d]]

PutInCart(p, new) ==
  /\ \A d \in Dishes : cart[p][d].quantity + new[d].quantity <= MaxUnits
  /\ cart' = [cart EXCEPT ![p] = Merged(@, new)]
  /\ added' = [added EXCEPT ![p] = [d \in Dishes |-> @[d] + new[d].quantity]]
  /\ UNCHANGED <<price, menu, orders, step, job, listed, ordered>>

AddToCart(p, d) ==
  /\ Shops(p)
  /\ menu[p][d] # 0
  /\ PutInCart(p, [EmptyCart EXCEPT ![d] =
                     [quantity |-> 1, price |-> menu[p][d], restaurant |-> Owner[d]]])

\* Dishes that are no longer on a menu are left out.
ReorderSelectedOrder_SkipsRemoved(p, i) ==
  /\ Shops(p)
  /\ PutInCart(p, [d \in Dishes |->
                     IF d \in Lines(orders[i].items) /\ price[d] # 0
                       THEN [quantity |-> orders[i].items[d].quantity,
                             price |-> orders[i].items[d].price,
                             restaurant |-> orders[i].restaurant]
                       ELSE NoLine])

\* Every line of the order, at its old price, and labelled with the restaurant the
\* whole order went to.
ReorderSelectedOrder(p, i) ==
  /\ Shops(p)
  /\ PutInCart(p, [d \in Dishes |->
                     IF d \in Lines(orders[i].items)
                       THEN [quantity |-> orders[i].items[d].quantity,
                             price |-> orders[i].items[d].price,
                             restaurant |-> orders[i].restaurant]
                       ELSE NoLine])
-----------------------------------------------------------------------------
(***************************************************************************)
(* The checkout, from the accepted dialog on.                              *)
(***************************************************************************)
At(p, s) == step' = [step EXCEPT ![p] = s]

\* The checkout ends, with or without success.
Ends(p) == At(p, "shopping") /\ job' = [job EXCEPT ![p] = 0]

\* QMap::first: the line with the smallest id.
First(c, d) == d \in Lines(c) /\ \A e \in Lines(c) : d <= e

CreateNewOrder(p) ==
  /\ Shops(p)
  /\ Len(orders) < MaxOrders
  /\ \E d \in Dishes :
       /\ First(cart[p], d)
       /\ orders' = Append(orders, [restaurant |-> cart[p][d].restaurant, items |-> NoItems])
  /\ At(p, "created")
  /\ job' = [job EXCEPT ![p] = Len(orders) + 1]
  /\ UNCHANGED <<price, menu, cart, listed, added, ordered>>

\* Its portions are ordered.
Settle(p) ==
  ordered' = [ordered EXCEPT ![p] = [d \in Dishes |-> @[d] + orders'[job[p]].items[d].quantity]]

\* price_per_item receives the price of the whole line.
InsertItems_LineTotals(p) ==
  orders' = [orders EXCEPT ![job[p]].items =
               [d \in Dishes |-> [quantity |-> cart[p][d].quantity,
                                  price |-> cart[p][d].price * cart[p][d].quantity]]]

InsertItems(p) ==
  orders' = [orders EXCEPT ![job[p]].items =
               [d \in Dishes |-> [quantity |-> cart[p][d].quantity,
                                  price |-> cart[p][d].price]]]

\* One transaction.  A cash order is settled with it.
AddOrderItems(p) ==
  /\ step[p] = "created"
  /\ InsertItems(p)
  /\ \/ At(p, "settled") /\ Settle(p)
     \/ At(p, "stored") /\ UNCHANGED ordered
  /\ UNCHANGED <<price, menu, cart, job, listed, added>>

\* The row stays without items, the cart as it is.
AddOrderItemsFails(p) ==
  /\ step[p] = "created"
  /\ Ends(p)
  /\ UNCHANGED <<price, menu, cart, orders, listed, added, ordered>>

PayFromWallet(p) ==
  /\ step[p] = "stored"
  /\ At(p, "settled")
  /\ UNCHANGED orders
  /\ Settle(p)
  /\ UNCHANGED <<price, menu, cart, job, listed, added>>

\* The order is to be cancelled (in Ordering), its lines and the cart are kept.
PaymentRefused(p) ==
  /\ step[p] = "stored"
  /\ Ends(p)
  /\ UNCHANGED <<price, menu, cart, orders, listed, added, ordered>>

\* The cart stays full after paying.
ClearCart_Forgotten(p) ==
  /\ step[p] = "settled"
  /\ Ends(p)
  /\ UNCHANGED <<price, menu, cart, orders, listed, added, ordered>>

ClearCart(p) ==
  /\ step[p] = "settled"
  /\ cart' = [cart EXCEPT ![p] = EmptyCart]
  /\ Ends(p)
  /\ UNCHANGED <<price, menu, orders, listed, added, ordered>>

\* The process ends, wherever it is, and is started again: its cart is gone.
Restart(p) ==
  /\ cart' = [cart EXCEPT ![p] = EmptyCart]
  /\ menu' = [menu EXCEPT ![p] = [d \in Dishes |-> 0]]
  /\ added' = [added EXCEPT ![p] = ordered[p]]
  /\ Ends(p)
  /\ UNCHANGED <<price, orders, listed, ordered>>
-----------------------------------------------------------------------------
Kitchen ==
  \E d \in Dishes : \/ \E x \in Prices[d] : AddFoodItem(d, x) \/ UpdateFoodItem(d, x)
                    \/ DeleteFoodItem(d)

Customer(p) ==
  \/ \E r \in Restaurants : OpenMenu(p, r)
  \/ \E d \in Dishes : AddToCart(p, d)
  \/ \E i \in DOMAIN orders : ReorderSelectedOrder(p, i)

Checkout(p) ==
  \/ CreateNewOrder(p) \/ AddOrderItems(p) \/ AddOrderItemsFails(p)
  \/ PayFromWallet(p) \/ PaymentRefused(p) \/ ClearCart(p)

Next == Kitchen \/ \E p \in Processes : Customer(p) \/ Checkout(p) \/ Restart(p)

Spec == Init /\ [][Next]_vars
-----------------------------------------------------------------------------
Line == [quantity : Nat, price : Nat, restaurant : Restaurants \cup {Nobody}]
Order == [restaurant : Restaurants, items : [Dishes -> [quantity : Nat, price : Nat]]]

TypeOK ==
  /\ price \in [Dishes -> Nat]
  /\ menu \in [Processes -> [Dishes -> Nat]]
  /\ cart \in [Processes -> [Dishes -> Line]]
  /\ orders \in Seq(Order)
  /\ step \in [Processes -> {"shopping", "created", "stored", "settled"}]
  /\ job \in [Processes -> Nat]
  /\ listed \in [Dishes -> SUBSET (Nat \ {0})]
  /\ added \in [Processes -> [Dishes -> Nat]]
  /\ ordered \in [Processes -> [Dishes -> Nat]]

\* However restaurants are mixed in a cart and however often an order of mixed dishes is
\* ordered again under the name of one restaurant, an order goes to a restaurant that
\* offers at least one of its dishes (client.cpp:163, profilepanel.cpp:172).
OrderGoesToACook ==
  \A i \in DOMAIN orders :
    Lines(orders[i].items) # {} =>
      \E d \in Lines(orders[i].items) : Owner[d] = orders[i].restaurant

\* A price in a cart or an order is one the restaurant has asked for that very dish,
\* whatever was changed, removed or ordered again meanwhile.
PricesWereAsked ==
  /\ \A p \in Processes : \A d \in Lines(cart[p]) : cart[p][d].price \in listed[d]
  /\ \A i \in DOMAIN orders : \A d \in Lines(orders[i].items) :
       orders[i].items[d].price \in listed[d]

\* What a customer puts into the cart is ordered once: each portion is in the cart or in
\* one order that is paid or to be paid in cash, also when checkouts fail half-way and
\* are tried again (client.cpp:211 "The old code forgot this - the cart stayed full").
OrderedOnce ==
  \A p \in Processes : \A d \in Dishes :
    added[p][d] = ordered[p][d] + IF step[p] = "settled" THEN 0 ELSE cart[p][d].quantity
=============================================================================
