--------------------------- MODULE ShoppingProofs ---------------------------
(***************************************************************************)
(* Proofs about Shopping, for any number of processes, dishes, restaurants *)
(* and orders.                                                             *)
(***************************************************************************)
EXTENDS Shopping, TLAPS

USE ShoppingAssumption DEF ShoppingAssumption

(***************************************************************************)
(* The inductive invariant.                                                *)
(***************************************************************************)
\* For the restaurant on any line of a cart there is a dish of that restaurant in the
\* same cart: this survives ordering again, which relabels, because a whole order is
\* put back, with the dish that was its restaurant's own.
CartBacked ==
  \A p \in Processes : \A d \in Lines(cart[p]) :
    \E e \in Lines(cart[p]) : Owner[e] = cart[p][d].restaurant

\* The order a checkout has just inserted is for a restaurant with a dish in the cart.
JobBacked ==
  \A p \in Processes : step[p] = "created" =>
    \E e \in Lines(cart[p]) : Owner[e] = orders[job[p]].restaurant

\* A checkout that runs has an order row of its own, and from the moment its items are
\* stored until it ends they are what is in the cart.
Jobs ==
  /\ \A p \in Processes : ~Shops(p) => job[p] \in DOMAIN orders
  /\ \A p, q \in Processes : ~Shops(p) /\ ~Shops(q) /\ p # q => job[p] # job[q]
  /\ \A p \in Processes : step[p] = "stored" =>
       \A d \in Dishes : orders[job[p]].items[d].quantity = cart[p][d].quantity

\* What is on a menu or in the file was asked for.
MenusWereAsked ==
  /\ \A d \in Dishes : price[d] # 0 => price[d] \in listed[d]
  /\ \A p \in Processes : \A d \in Dishes : menu[p][d] # 0 => menu[p][d] \in listed[d]

ShopInv ==
  /\ TypeOK
  /\ Jobs
  /\ CartBacked
  /\ JobBacked
  /\ OrderGoesToACook
  /\ MenusWereAsked
  /\ PricesWereAsked
  /\ OrderedOnce

LEMMA InitInv == Init => ShopInv
<1>1. SUFFICES ASSUME Init PROVE ShopInv
  OBVIOUS
<1>2. \A p \in Processes : Lines(cart[p]) = {}
  <2>1. \A d \in Dishes : ~(EmptyCart[d].quantity > 0)
    BY DEF EmptyCart, NoLine
  <2>2. Lines(EmptyCart) = {}
    BY <2>1 DEF Lines
  <2>3. QED
    BY <1>1, <2>2 DEF Init
<1>3. TypeOK
  BY <1>1 DEF Init, TypeOK, EmptyCart, NoLine, Line, Order, Shops
<1>4. CartBacked /\ JobBacked /\ MenusWereAsked
  BY <1>1, <1>2 DEF Init, CartBacked, JobBacked, MenusWereAsked
<1>5. OrderGoesToACook /\ PricesWereAsked /\ OrderedOnce /\ Jobs
  <2>1. DOMAIN orders = {}
    BY <1>1 DEF Init
  <2>2. OrderGoesToACook /\ PricesWereAsked
    BY <1>2, <2>1 DEF OrderGoesToACook, PricesWereAsked
  <2>3. OrderedOnce
    <3>1. SUFFICES ASSUME NEW p \in Processes, NEW d \in Dishes
                   PROVE  added[p][d] = ordered[p][d] + IF step[p] = "settled" THEN 0
                                                          ELSE cart[p][d].quantity
      BY DEF OrderedOnce
    <3>2. added[p][d] = 0 /\ ordered[p][d] = 0 /\ cart[p][d].quantity = 0
      BY <1>1 DEF Init, EmptyCart, NoLine
    <3>3. QED
      BY <3>2
  <2>4. \A p \in Processes : step[p] = "shopping"
    BY <1>1 DEF Init
  <2>5. Jobs
    BY <2>4 DEF Jobs, Shops
  <2>6. QED
    BY <2>2, <2>3, <2>5
<1>6. QED
  BY <1>3, <1>4, <1>5 DEF ShopInv

(***************************************************************************)
(* The cart.                                                               *)
(***************************************************************************)
\* Merging keeps the lines of the cart and adds the new ones.
LEMMA MergedLines ==
  ASSUME NEW c \in [Dishes -> Line], NEW new \in [Dishes -> Line]
  PROVE  /\ Merged(c, new) \in [Dishes -> Line]
         /\ Lines(Merged(c, new)) = Lines(c) \cup Lines(new)
         /\ \A d \in Lines(c) : /\ Merged(c, new)[d].restaurant = c[d].restaurant
                                /\ Merged(c, new)[d].price = c[d].price
         /\ \A d \in Lines(new) \ Lines(c) : Merged(c, new)[d] = new[d]
         /\ \A d \in Dishes : Merged(c, new)[d].quantity = c[d].quantity + new[d].quantity
<1>1. \A d \in Dishes : /\ c[d].quantity \in Nat /\ new[d].quantity \in Nat
                        /\ c[d] \in Line /\ new[d] \in Line
  BY DEF Line
<1>2. \A d \in Dishes :
        /\ c[d].quantity > 0 =>
             /\ Merged(c, new)[d] \in Line
             /\ Merged(c, new)[d].quantity = c[d].quantity + new[d].quantity
             /\ Merged(c, new)[d].restaurant = c[d].restaurant
             /\ Merged(c, new)[d].price = c[d].price
        /\ ~(c[d].quantity > 0) => Merged(c, new)[d] = new[d]
  BY <1>1 DEF Merged, Line
<1>3. Merged(c, new) \in [Dishes -> Line]
  BY <1>1, <1>2 DEF Merged
<1>4. Lines(Merged(c, new)) = Lines(c) \cup Lines(new)
  BY <1>1, <1>2 DEF Lines
<1>5. \A d \in Dishes : Merged(c, new)[d].quantity = c[d].quantity + new[d].quantity
  BY <1>1, <1>2
<1>6. QED
  BY <1>2, <1>3, <1>4, <1>5 DEF Lines

\* Lines that each bring a dish of their restaurant along, or find one, at prices that
\* were asked, keep the invariant.
LEMMA PutInCartInv ==
  ASSUME ShopInv, NEW p \in Processes, Shops(p), NEW new \in [Dishes -> Line],
         PutInCart(p, new),
         \A d \in Lines(new) : /\ \E e \in Lines(new) : Owner[e] = new[d].restaurant
                               /\ new[d].price \in listed[d]
  PROVE  ShopInv'
<1>1. /\ cart' = [cart EXCEPT ![p] = Merged(cart[p], new)]
      /\ added' = [added EXCEPT ![p] = [d \in Dishes |-> added[p][d] + new[d].quantity]]
      /\ UNCHANGED <<price, menu, orders, step, job, listed, ordered>>
  BY DEF PutInCart, ShopInv, TypeOK
<1>2. cart \in [Processes -> [Dishes -> Line]] /\ added \in [Processes -> [Dishes -> Nat]]
  BY DEF ShopInv, TypeOK
<1>3. cart[p] \in [Dishes -> Line]
  BY <1>2
<1>4. /\ cart' \in [Processes -> [Dishes -> Line]]
      /\ cart'[p] = Merged(cart[p], new)
      /\ \A q \in Processes \ {p} : cart'[q] = cart[q]
      /\ Lines(cart'[p]) = Lines(cart[p]) \cup Lines(new)
      /\ \A d \in Lines(cart[p]) : /\ cart'[p][d].restaurant = cart[p][d].restaurant
                                   /\ cart'[p][d].price = cart[p][d].price
      /\ \A d \in Lines(new) \ Lines(cart[p]) : cart'[p][d] = new[d]
      /\ \A d \in Dishes : cart'[p][d].quantity = cart[p][d].quantity + new[d].quantity
  BY <1>1, <1>2, <1>3, MergedLines
<1>5. TypeOK'
  <2>1. \A d \in Dishes : added[p][d] + new[d].quantity \in Nat
    BY <1>2 DEF Line
  <2>2. added' \in [Processes -> [Dishes -> Nat]]
    BY <1>1, <1>2, <2>1
  <2>3. QED
    BY <1>1, <1>4, <2>2 DEF ShopInv, TypeOK, Shops
<1>6. CartBacked'
  <2>1. SUFFICES ASSUME NEW q \in Processes, NEW d \in Lines(cart'[q])
                 PROVE  \E e \in Lines(cart'[q]) : Owner[e] = cart'[q][d].restaurant
    BY DEF CartBacked, Lines
  <2>2. CASE q # p
    BY <1>4, <2>1, <2>2 DEF ShopInv, CartBacked
  <2>3. CASE q = p /\ d \in Lines(cart[p])
    BY <1>4, <2>1, <2>3 DEF ShopInv, CartBacked
  <2>4. CASE q = p /\ d \in Lines(new) \ Lines(cart[p])
    BY <1>4, <2>1, <2>4
  <2>5. QED
    BY <1>4, <2>1, <2>2, <2>3, <2>4
<1>7. JobBacked'
  BY <1>1, <1>4 DEF ShopInv, JobBacked, Shops, Lines
<1>8. OrderGoesToACook' /\ MenusWereAsked'
  BY <1>1 DEF ShopInv, OrderGoesToACook, MenusWereAsked, Lines
<1>9. PricesWereAsked'
  <2>1. ASSUME NEW q \in Processes, NEW d \in Lines(cart'[q])
        PROVE  cart'[q][d].price \in listed[d]
    BY <1>4, <2>1 DEF ShopInv, PricesWereAsked
  <2>2. QED
    BY <1>1, <2>1 DEF ShopInv, PricesWereAsked, Lines
<1>10. Jobs'
  BY <1>1, <1>4 DEF ShopInv, Jobs, Shops
<1>11. OrderedOnce'
  <2>1. \A d \in Dishes : /\ cart[p][d].quantity \in Nat /\ new[d].quantity \in Nat
                          /\ added[p][d] \in Nat /\ ordered[p][d] \in Nat
    BY <1>2, <1>3 DEF ShopInv, TypeOK, Line
  <2>2. \A d \in Dishes : added'[p][d] = ordered'[p][d] + cart'[p][d].quantity
    BY <1>1, <1>2, <1>4, <2>1 DEF ShopInv, OrderedOnce, Shops
  <2>3. \A q \in Processes \ {p} : added'[q] = added[q]
    BY <1>1, <1>2
  <2>4. QED
    BY <1>1, <1>4, <2>2, <2>3 DEF ShopInv, OrderedOnce, Shops
<1>12. QED
  BY <1>5, <1>6, <1>7, <1>8, <1>9, <1>10, <1>11 DEF ShopInv

LEMMA AddToCartInv ==
  ASSUME ShopInv, NEW p \in Processes, NEW d \in Dishes, AddToCart(p, d)
  PROVE  ShopInv'
<1> DEFINE l == [quantity |-> 1, price |-> menu[p][d], restaurant |-> Owner[d]]
           new == [EmptyCart EXCEPT ![d] = l]
<1>1. Shops(p) /\ menu[p][d] # 0 /\ PutInCart(p, new)
  BY DEF AddToCart
<1>2. menu[p][d] \in Nat /\ menu[p][d] \in listed[d]
  BY <1>1 DEF ShopInv, TypeOK, MenusWereAsked
<1>3. l \in Line /\ NoLine \in Line
  BY <1>2 DEF Line, NoLine
<1>4. new \in [Dishes -> Line] /\ new[d] = l
  BY <1>3 DEF EmptyCart
<1>5. Lines(new) = {d}
  BY DEF Lines, EmptyCart, NoLine
<1>6. \A e \in Lines(new) : /\ \E f \in Lines(new) : Owner[f] = new[e].restaurant
                            /\ new[e].price \in listed[e]
  BY <1>2, <1>4, <1>5
<1> HIDE DEF new
<1>7. QED
  BY <1>1, <1>4, <1>6, PutInCartInv

LEMMA ReorderInv ==
  ASSUME ShopInv, NEW p \in Processes, NEW i \in DOMAIN orders, ReorderSelectedOrder(p, i)
  PROVE  ShopInv'
<1> DEFINE new == [d \in Dishes |-> IF d \in Lines(orders[i].items)
                                      THEN [quantity |-> orders[i].items[d].quantity,
                                            price |-> orders[i].items[d].price,
                                            restaurant |-> orders[i].restaurant]
                                      ELSE NoLine]
<1>1. Shops(p) /\ PutInCart(p, new)
  BY DEF ReorderSelectedOrder
<1>2. orders[i] \in Order
  BY DEF ShopInv, TypeOK
<1>3. /\ orders[i].restaurant \in Restaurants
      /\ \A d \in Dishes : orders[i].items[d].quantity \in Nat /\ orders[i].items[d].price \in Nat
  BY <1>2 DEF Order
<1>4. \A d \in Dishes : new[d] \in Line
  BY <1>3 DEF Line, NoLine
<1>5. new \in [Dishes -> Line]
  BY <1>4
<1>6. Lines(new) = Lines(orders[i].items)
  BY <1>3 DEF Lines, NoLine
<1>7. ASSUME NEW d \in Lines(new)
      PROVE  /\ \E e \in Lines(new) : Owner[e] = new[d].restaurant
             /\ new[d].price \in listed[d]
  <2>1. /\ d \in Dishes /\ new[d].restaurant = orders[i].restaurant
        /\ new[d].price = orders[i].items[d].price
    BY <1>6, <1>7 DEF Lines
  <2>2. \E e \in Lines(orders[i].items) : Owner[e] = orders[i].restaurant
    BY <1>6, <1>7 DEF ShopInv, OrderGoesToACook
  <2>3. orders[i].items[d].price \in listed[d]
    BY <1>6, <1>7 DEF ShopInv, PricesWereAsked
  <2>4. QED
    BY <1>6, <2>1, <2>2, <2>3
<1> HIDE DEF new
<1>8. QED
  BY <1>1, <1>5, <1>7, PutInCartInv

(***************************************************************************)
(* The menus.                                                              *)
(***************************************************************************)
LEMMA SetPriceInv ==
  ASSUME ShopInv, NEW d \in Dishes, NEW x \in Prices[d], SetPrice(d, x)
  PROVE  ShopInv'
<1>1. /\ price' = [price EXCEPT ![d] = x]
      /\ listed' = [listed EXCEPT ![d] = @ \cup {x}]
      /\ UNCHANGED <<menu, orders, cart, step, job, added, ordered>>
  BY DEF SetPrice, shop
<1>2. x \in Nat \ {0}
  OBVIOUS
<1>3. TypeOK'
  BY <1>1, <1>2 DEF ShopInv, TypeOK, Shops
<1>4. \A e \in Dishes : listed[e] \subseteq listed'[e]
  BY <1>1 DEF ShopInv, TypeOK
<1>5. MenusWereAsked'
  BY <1>1, <1>2, <1>4 DEF ShopInv, TypeOK, MenusWereAsked
<1>6. CartBacked' /\ JobBacked' /\ OrderGoesToACook' /\ Jobs' /\ OrderedOnce'
  BY <1>1 DEF ShopInv, CartBacked, JobBacked, OrderGoesToACook, Lines, Jobs, OrderedOnce, Shops
<1>7. PricesWereAsked'
  BY <1>1, <1>4 DEF ShopInv, PricesWereAsked, Lines
<1>8. QED
  BY <1>3, <1>5, <1>6, <1>7 DEF ShopInv

LEMMA KitchenInv ==
  ASSUME ShopInv, Kitchen
  PROVE  ShopInv'
<1>1. ASSUME NEW d \in Dishes, NEW x \in Prices[d], AddFoodItem(d, x) \/ UpdateFoodItem(d, x)
      PROVE  ShopInv'
  BY <1>1, SetPriceInv DEF AddFoodItem, UpdateFoodItem
<1>2. ASSUME NEW d \in Dishes, DeleteFoodItem(d) PROVE ShopInv'
  <2>1. /\ price' = [price EXCEPT ![d] = 0]
        /\ UNCHANGED <<menu, orders, listed, cart, step, job, added, ordered>>
    BY <1>2 DEF DeleteFoodItem, shop
  <2>2. TypeOK' /\ MenusWereAsked'
    BY <2>1 DEF ShopInv, TypeOK, MenusWereAsked, Shops
  <2>3. /\ CartBacked' /\ JobBacked' /\ OrderGoesToACook' /\ PricesWereAsked'
      /\ Jobs' /\ OrderedOnce'
    BY <2>1 DEF ShopInv, CartBacked, JobBacked, OrderGoesToACook, PricesWereAsked, Lines,
                   Jobs, OrderedOnce, Shops
  <2>4. QED
    BY <2>2, <2>3 DEF ShopInv
<1>3. QED
  BY <1>1, <1>2 DEF Kitchen

LEMMA OpenMenuInv ==
  ASSUME ShopInv, NEW p \in Processes, NEW r \in Restaurants, OpenMenu(p, r)
  PROVE  ShopInv'
<1>1. /\ menu' = [menu EXCEPT ![p] = [d \in Dishes |-> IF Owner[d] = r THEN price[d] ELSE 0]]
      /\ UNCHANGED <<price, orders, listed, cart, step, job, added, ordered>>
  BY DEF OpenMenu, shop
<1>2. TypeOK' /\ MenusWereAsked'
  BY <1>1 DEF ShopInv, TypeOK, MenusWereAsked, Shops
<1>3. /\ CartBacked' /\ JobBacked' /\ OrderGoesToACook' /\ PricesWereAsked'
      /\ Jobs' /\ OrderedOnce'
  BY <1>1 DEF ShopInv, CartBacked, JobBacked, OrderGoesToACook, PricesWereAsked, Lines,
                   Jobs, OrderedOnce, Shops
<1>4. QED
  BY <1>2, <1>3 DEF ShopInv

(***************************************************************************)
(* The checkout.                                                           *)
(***************************************************************************)
LEMMA CreateNewOrderInv ==
  ASSUME ShopInv, NEW p \in Processes, CreateNewOrder(p)
  PROVE  ShopInv'
<1>1. PICK d \in Dishes :
        /\ First(cart[p], d)
        /\ orders' = Append(orders, [restaurant |-> cart[p][d].restaurant, items |-> NoItems])
  BY DEF CreateNewOrder
<1> DEFINE o == [restaurant |-> cart[p][d].restaurant, items |-> NoItems]
<1>2. /\ step[p] = "shopping" /\ step' = [step EXCEPT ![p] = "created"]
      /\ job' = [job EXCEPT ![p] = Len(orders) + 1]
      /\ UNCHANGED <<price, menu, cart, listed, added, ordered>>
  BY DEF CreateNewOrder, At, Shops
<1>3. d \in Lines(cart[p]) /\ \E e \in Lines(cart[p]) : Owner[e] = cart[p][d].restaurant
  BY <1>1 DEF First, ShopInv, CartBacked
<1>4. cart[p][d].restaurant \in Restaurants
  BY <1>3 DEF Lines
<1>5. o \in Order
  BY <1>4 DEF Order, NoItems
<1>6. orders \in Seq(Order)
  BY DEF ShopInv, TypeOK
<1>7. /\ orders' \in Seq(Order) /\ Len(orders) \in Nat /\ Len(orders) + 1 \notin DOMAIN orders
      /\ orders'[Len(orders) + 1] = o
      /\ \A i \in DOMAIN orders : i \in DOMAIN orders' /\ orders'[i] = orders[i]
      /\ \A i \in DOMAIN orders' : i \in DOMAIN orders \/ i = Len(orders) + 1
      /\ Len(orders) + 1 \in DOMAIN orders'
  <2> HIDE DEF o
  <2>1. orders' = Append(orders, o)
    BY <1>1 DEF o
  <2>2. QED
    BY <1>5, <1>6, <2>1
<1>8. TypeOK'
  BY <1>2, <1>7 DEF ShopInv, TypeOK
<1>9. /\ step'[p] = "created" /\ job'[p] = Len(orders) + 1
      /\ \A q \in Processes \ {p} : step'[q] = step[q] /\ job'[q] = job[q]
      /\ \A q \in Processes \ {p} : step[q] # "shopping" => job[q] \in DOMAIN orders
  BY <1>2 DEF ShopInv, TypeOK, Jobs, Shops
<1>10. Jobs'
  <2>1. \A q \in Processes : step'[q] # "shopping" => job'[q] \in DOMAIN orders'
    BY <1>7, <1>9
  <2>2. \A q \in Processes \ {p} : step'[q] # "shopping" => job'[q] # job'[p]
    BY <1>7, <1>9
  <2>3. \A q, t \in Processes \ {p} :
          step'[q] # "shopping" /\ step'[t] # "shopping" /\ q # t => job'[q] # job'[t]
    BY <1>9 DEF ShopInv, Jobs, Shops
  <2>4. \A q \in Processes : step'[q] = "stored" =>
          \A e \in Dishes : orders'[job'[q]].items[e].quantity = cart[q][e].quantity
    BY <1>7, <1>9 DEF ShopInv, Jobs
  <2>5. QED
    BY <1>2, <2>1, <2>2, <2>3, <2>4 DEF Jobs, Shops
<1>11. JobBacked'
  <2>1. SUFFICES ASSUME NEW q \in Processes, step'[q] = "created"
                 PROVE  \E e \in Lines(cart[q]) : Owner[e] = orders'[job'[q]].restaurant
    BY <1>2 DEF JobBacked, Lines
  <2>2. CASE q = p
    BY <1>3, <1>7, <1>9, <2>2
  <2>3. CASE q # p
    BY <1>7, <1>9, <2>1, <2>3 DEF ShopInv, JobBacked
  <2>4. QED
    BY <2>2, <2>3
<1>12. Lines(o.items) = {}
  BY DEF Lines, NoItems
<1>13. OrderGoesToACook' /\ PricesWereAsked'
  <2>1. ASSUME NEW i \in DOMAIN orders', Lines(orders'[i].items) # {}
        PROVE  i \in DOMAIN orders /\ orders'[i] = orders[i]
    BY <1>7, <1>12, <2>1
  <2>2. ASSUME NEW i \in DOMAIN orders', Lines(orders'[i].items) # {}
        PROVE  \E e \in Lines(orders'[i].items) : Owner[e] = orders'[i].restaurant
    BY <2>1, <2>2 DEF ShopInv, OrderGoesToACook
  <2>3. ASSUME NEW i \in DOMAIN orders', NEW e \in Lines(orders'[i].items)
        PROVE  orders'[i].items[e].price \in listed[e]
    BY <2>1, <2>3 DEF ShopInv, PricesWereAsked
  <2>4. QED
    BY <1>2, <2>2, <2>3 DEF ShopInv, OrderGoesToACook, PricesWereAsked, Lines
<1>14. CartBacked' /\ MenusWereAsked' /\ OrderedOnce'
  BY <1>2, <1>9 DEF ShopInv, CartBacked, MenusWereAsked, OrderedOnce, Lines
<1>15. QED
  BY <1>8, <1>10, <1>11, <1>13, <1>14 DEF ShopInv

\* The portions of an order that holds what is in the cart become ordered.
LEMMA SettleOk ==
  ASSUME ShopInv, NEW p \in Processes, step[p] \in {"created", "stored"}, Settle(p),
         step' = [step EXCEPT ![p] = "settled"], UNCHANGED <<cart, added>>,
         \A d \in Dishes : orders'[job[p]].items[d].quantity = cart[p][d].quantity
  PROVE  ordered' \in [Processes -> [Dishes -> Nat]] /\ OrderedOnce'
<1>1. /\ cart \in [Processes -> [Dishes -> Line]]
      /\ ordered \in [Processes -> [Dishes -> Nat]]
      /\ step \in [Processes -> {"shopping", "created", "stored", "settled"}]
  BY DEF ShopInv, TypeOK
<1>2. \A d \in Dishes : cart[p][d].quantity \in Nat /\ ordered[p][d] \in Nat
  BY <1>1 DEF Line
<1>3. ordered' = [ordered EXCEPT ![p] = [d \in Dishes |-> ordered[p][d] + cart[p][d].quantity]]
  BY <1>1 DEF Settle
<1>4. ordered' \in [Processes -> [Dishes -> Nat]]
  BY <1>1, <1>2, <1>3
<1>5. \A d \in Dishes : added[p][d] = ordered'[p][d]
  BY <1>1, <1>2, <1>3 DEF ShopInv, OrderedOnce
<1>6. \A q \in Processes \ {p} : ordered'[q] = ordered[q] /\ step'[q] = step[q]
  BY <1>1, <1>3
<1>7. step'[p] = "settled" /\ \A d \in Dishes : ordered'[p][d] \in Nat
  BY <1>1, <1>4
<1>8. OrderedOnce'
  BY <1>5, <1>6, <1>7 DEF ShopInv, OrderedOnce
<1>9. QED
  BY <1>4, <1>8

LEMMA AddOrderItemsInv ==
  ASSUME ShopInv, NEW p \in Processes, AddOrderItems(p)
  PROVE  ShopInv'
<1> DEFINE items == [d \in Dishes |-> [quantity |-> cart[p][d].quantity,
                                       price |-> cart[p][d].price]]
           o == [orders[job[p]] EXCEPT !.items = items]
<1>1. /\ step[p] = "created"
      /\ orders' = [orders EXCEPT ![job[p]].items = items]
      /\ \/ step' = [step EXCEPT ![p] = "settled"] /\ Settle(p)
         \/ step' = [step EXCEPT ![p] = "stored"] /\ UNCHANGED ordered
      /\ UNCHANGED <<price, menu, cart, job, listed, added>>
  BY DEF AddOrderItems, InsertItems, At
<1>2. /\ job[p] \in DOMAIN orders /\ orders \in Seq(Order) /\ orders[job[p]] \in Order
      /\ cart[p] \in [Dishes -> Line]
  BY <1>1 DEF ShopInv, TypeOK, Jobs, Shops
<1>3. items \in [Dishes -> [quantity : Nat, price : Nat]]
  BY <1>2 DEF Line
<1>4. o \in Order /\ o.restaurant = orders[job[p]].restaurant /\ o.items = items
  <2> HIDE DEF items
  <2>1. QED
    BY <1>2, <1>3 DEF Order
<1>5. /\ Lines(items) = Lines(cart[p])
      /\ \A d \in Dishes : /\ items[d].price = cart[p][d].price
                           /\ items[d].quantity = cart[p][d].quantity
  BY DEF Lines
<1>6. /\ orders' \in Seq(Order) /\ DOMAIN orders' = DOMAIN orders /\ orders'[job[p]] = o
      /\ \A i \in DOMAIN orders : i # job[p] => orders'[i] = orders[i]
  <2> HIDE DEF items
  <2>1. orders' = [orders EXCEPT ![job[p]] = o]
    BY <1>1, <1>2
  <2> HIDE DEF o
  <2>2. QED
    BY <1>2, <1>4, <2>1
<1> HIDE DEF o, items
<1>7. /\ step' \in [Processes -> {"shopping", "created", "stored", "settled"}]
      /\ step'[p] \in {"settled", "stored"}
      /\ \A q \in Processes \ {p} : step'[q] = step[q]
  BY <1>1 DEF ShopInv, TypeOK
<1>8. ordered' \in [Processes -> [Dishes -> Nat]] /\ OrderedOnce'
  <2>1. CASE step' = [step EXCEPT ![p] = "settled"] /\ Settle(p)
    BY <1>1, <1>4, <1>5, <1>6, <2>1, SettleOk
  <2>2. CASE step' = [step EXCEPT ![p] = "stored"] /\ UNCHANGED ordered
    BY <1>1, <1>7, <2>2 DEF ShopInv, TypeOK, OrderedOnce
  <2>3. QED
    BY <1>1, <2>1, <2>2
<1>9. TypeOK'
  BY <1>1, <1>6, <1>7, <1>8 DEF ShopInv, TypeOK
<1>10. Jobs'
  <2>1. \A q \in Processes : step'[q] # "shopping" => step[q] # "shopping"
    BY <1>1, <1>7
  <2>2. \A q \in Processes : step'[q] # "shopping" => job[q] \in DOMAIN orders'
    BY <1>6, <2>1 DEF ShopInv, Jobs, Shops
  <2>3. \A q, t \in Processes :
          step'[q] # "shopping" /\ step'[t] # "shopping" /\ q # t => job[q] # job[t]
    BY <2>1 DEF ShopInv, Jobs, Shops
  <2>4. ASSUME NEW q \in Processes, step'[q] = "stored", NEW d \in Dishes
        PROVE  orders'[job[q]].items[d].quantity = cart[q][d].quantity
    <3>1. CASE q = p
      BY <1>4, <1>5, <1>6, <3>1
    <3>2. CASE q # p
      BY <1>1, <1>6, <1>7, <2>4, <3>2 DEF ShopInv, Jobs, Shops
    <3>3. QED
      BY <3>1, <3>2
  <2>5. QED
    BY <1>1, <2>2, <2>3, <2>4 DEF Jobs, Shops
<1>11. JobBacked'
  <2>1. SUFFICES ASSUME NEW q \in Processes, step'[q] = "created"
                 PROVE  \E e \in Lines(cart[q]) : Owner[e] = orders'[job[q]].restaurant
    BY <1>1 DEF JobBacked, Lines
  <2>2. q # p /\ step[q] = "created"
    BY <1>7, <2>1
  <2>3. job[q] \in DOMAIN orders /\ job[q] # job[p]
    BY <1>1, <2>2 DEF ShopInv, Jobs, Shops
  <2>4. QED
    BY <1>6, <2>2, <2>3 DEF ShopInv, JobBacked
<1>12. OrderGoesToACook'
  <2>1. SUFFICES ASSUME NEW i \in DOMAIN orders', Lines(orders'[i].items) # {}
                 PROVE  \E d \in Lines(orders'[i].items) : Owner[d] = orders'[i].restaurant
    BY DEF OrderGoesToACook, Lines
  <2>2. CASE i = job[p]
    BY <1>1, <1>4, <1>5, <1>6, <2>2 DEF ShopInv, JobBacked
  <2>3. CASE i # job[p]
    BY <1>6, <2>1, <2>3 DEF ShopInv, OrderGoesToACook
  <2>4. QED
    BY <2>2, <2>3
<1>13. PricesWereAsked'
  <2>1. ASSUME NEW i \in DOMAIN orders', NEW d \in Lines(orders'[i].items)
        PROVE  orders'[i].items[d].price \in listed[d]
    <3>1. CASE i = job[p]
      BY <1>4, <1>5, <1>6, <2>1, <3>1 DEF ShopInv, PricesWereAsked, Lines
    <3>2. CASE i # job[p]
      BY <1>6, <2>1, <3>2 DEF ShopInv, PricesWereAsked
    <3>3. QED
      BY <3>1, <3>2
  <2>2. QED
    BY <1>1, <2>1 DEF ShopInv, PricesWereAsked, Lines
<1>14. CartBacked' /\ MenusWereAsked'
  BY <1>1 DEF ShopInv, CartBacked, MenusWereAsked, Lines
<1>15. QED
  BY <1>8, <1>9, <1>10, <1>11, <1>12, <1>13, <1>14 DEF ShopInv

LEMMA PayFromWalletInv ==
  ASSUME ShopInv, NEW p \in Processes, PayFromWallet(p)
  PROVE  ShopInv'
<1>1. /\ step[p] = "stored" /\ step' = [step EXCEPT ![p] = "settled"] /\ Settle(p)
      /\ UNCHANGED <<price, menu, cart, orders, job, listed, added>>
  BY DEF PayFromWallet, At
<1>2. \A d \in Dishes : orders'[job[p]].items[d].quantity = cart[p][d].quantity
  BY <1>1 DEF ShopInv, Jobs
<1>3. ordered' \in [Processes -> [Dishes -> Nat]] /\ OrderedOnce'
  BY <1>1, <1>2, SettleOk
<1>4. TypeOK'
  BY <1>1, <1>3 DEF ShopInv, TypeOK
<1>5. step'[p] = "settled" /\ \A q \in Processes \ {p} : step'[q] = step[q]
  BY <1>1 DEF ShopInv, TypeOK
<1>6. Jobs' /\ JobBacked'
  BY <1>1, <1>5 DEF ShopInv, Jobs, JobBacked, Shops, Lines
<1>7. CartBacked' /\ OrderGoesToACook' /\ MenusWereAsked' /\ PricesWereAsked'
  BY <1>1 DEF ShopInv, CartBacked, OrderGoesToACook, MenusWereAsked, PricesWereAsked, Lines
<1>8. QED
  BY <1>3, <1>4, <1>6, <1>7 DEF ShopInv

\* A checkout that ends changes neither orders nor prices; it leaves the cart, or empties
\* it once its portions are ordered, or the process is at its end.
LEMMA EndsInv ==
  ASSUME ShopInv, NEW p \in Processes, Ends(p), UNCHANGED <<price, orders, listed, ordered>>,
         menu' \in [Processes -> [Dishes -> Nat]],
         \A q \in Processes, d \in Dishes : menu'[q][d] \in {0, menu[q][d]},
         \/ UNCHANGED <<cart, added>> /\ step[p] # "settled"
         \/ /\ cart' = [cart EXCEPT ![p] = EmptyCart]
            /\ \/ UNCHANGED added /\ step[p] = "settled"
               \/ added' = [added EXCEPT ![p] = ordered[p]]
  PROVE  ShopInv'
<1>1. /\ step' = [step EXCEPT ![p] = "shopping"] /\ job' = [job EXCEPT ![p] = 0]
      /\ step'[p] = "shopping" /\ \A q \in Processes \ {p} : step'[q] = step[q] /\ job'[q] = job[q]
  BY DEF Ends, At, ShopInv, TypeOK
<1>2. EmptyCart \in [Dishes -> Line] /\ Lines(EmptyCart) = {}
  BY DEF EmptyCart, NoLine, Line, Lines
<1>3. /\ cart' \in [Processes -> [Dishes -> Line]] /\ added' \in [Processes -> [Dishes -> Nat]]
      /\ \A q \in Processes : Lines(cart'[q]) # {} => cart'[q] = cart[q]
      /\ \A q \in Processes \ {p} : cart'[q] = cart[q] /\ added'[q] = added[q]
  BY <1>2 DEF ShopInv, TypeOK
<1>4. TypeOK'
  BY <1>1, <1>3 DEF ShopInv, TypeOK
<1>5. CartBacked'
  <2>1. SUFFICES ASSUME NEW q \in Processes, NEW d \in Lines(cart'[q])
                 PROVE  \E e \in Lines(cart'[q]) : Owner[e] = cart'[q][d].restaurant
    BY DEF CartBacked, Lines
  <2>2. cart'[q] = cart[q]
    BY <1>3, <2>1
  <2>3. QED
    BY <2>1, <2>2 DEF ShopInv, CartBacked
<1>6. Jobs' /\ JobBacked'
  <2>1. \A q \in Processes : ~Shops(q)' => /\ q # p /\ ~Shops(q) /\ job'[q] = job[q]
                                           /\ step'[q] = step[q] /\ cart'[q] = cart[q]
    BY <1>1, <1>3 DEF Shops
  <2>2. Jobs'
    BY <2>1 DEF ShopInv, Jobs, Shops
  <2>3. JobBacked'
    BY <2>1 DEF ShopInv, JobBacked, Shops, Lines
  <2>4. QED
    BY <2>2, <2>3
<1>7. OrderGoesToACook'
  BY DEF ShopInv, OrderGoesToACook, Lines
<1>8. MenusWereAsked'
  BY DEF ShopInv, MenusWereAsked
<1>9. PricesWereAsked'
  <2>1. ASSUME NEW q \in Processes, NEW d \in Lines(cart'[q])
        PROVE  cart'[q][d].price \in listed[d]
    <3>1. cart'[q] = cart[q]
      BY <1>3, <2>1
    <3>2. QED
      BY <2>1, <3>1 DEF ShopInv, PricesWereAsked
  <2>2. QED
    BY <2>1 DEF ShopInv, PricesWereAsked, Lines
<1>10. OrderedOnce'
  <2>1. ordered[p] \in [Dishes -> Nat] /\ \A d \in Dishes : ordered[p][d] \in Nat
    BY DEF ShopInv, TypeOK
  <2>2. \A d \in Dishes : added'[p][d] = ordered[p][d] + cart'[p][d].quantity
    <3>1. CASE UNCHANGED <<cart, added>> /\ step[p] # "settled"
      BY <3>1 DEF ShopInv, OrderedOnce
    <3>2. CASE /\ cart' = [cart EXCEPT ![p] = EmptyCart]
               /\ \/ UNCHANGED added /\ step[p] = "settled"
                  \/ added' = [added EXCEPT ![p] = ordered[p]]
      <4>1. \A d \in Dishes : cart'[p][d].quantity = 0
        BY <3>2 DEF EmptyCart, NoLine, ShopInv, TypeOK
      <4>2. \A d \in Dishes : added'[p][d] = ordered[p][d]
        BY <2>1, <3>2 DEF ShopInv, TypeOK, OrderedOnce
      <4>3. QED
        BY <2>1, <4>1, <4>2
    <3>3. QED
      BY <3>1, <3>2
  <2>3. QED
    BY <1>1, <1>3, <2>2 DEF ShopInv, OrderedOnce
<1>11. QED
  BY <1>4, <1>5, <1>6, <1>7, <1>8, <1>9, <1>10 DEF ShopInv

LEMMA EndedInv ==
  ASSUME ShopInv, NEW p \in Processes,
         AddOrderItemsFails(p) \/ PaymentRefused(p) \/ ClearCart(p) \/ Restart(p)
  PROVE  ShopInv'
<1>1. \A q \in Processes, d \in Dishes : menu[q][d] \in {0, menu[q][d]}
  OBVIOUS
<1>2. menu \in [Processes -> [Dishes -> Nat]]
  BY DEF ShopInv, TypeOK
<1>3. CASE AddOrderItemsFails(p) \/ PaymentRefused(p)
  BY <1>1, <1>2, <1>3, EndsInv DEF AddOrderItemsFails, PaymentRefused
<1>4. CASE ClearCart(p)
  BY <1>1, <1>2, <1>4, EndsInv DEF ClearCart
<1>5. CASE Restart(p)
  <2>1. /\ cart' = [cart EXCEPT ![p] = EmptyCart]
        /\ menu' = [menu EXCEPT ![p] = [d \in Dishes |-> 0]]
        /\ added' = [added EXCEPT ![p] = ordered[p]]
        /\ Ends(p) /\ UNCHANGED <<price, orders, listed, ordered>>
    BY <1>5 DEF Restart
  <2>2. /\ menu' \in [Processes -> [Dishes -> Nat]]
        /\ \A q \in Processes, d \in Dishes : menu'[q][d] \in {0, menu[q][d]}
    BY <1>2, <2>1
  <2>3. QED
    BY <2>1, <2>2, EndsInv
<1>6. QED
  BY <1>3, <1>4, <1>5

LEMMA StepInv == ShopInv /\ [Next]_vars => ShopInv'
<1>1. SUFFICES ASSUME ShopInv, [Next]_vars PROVE ShopInv'
  OBVIOUS
<1>2. CASE Kitchen
  BY <1>1, <1>2, KitchenInv
<1>3. ASSUME NEW p \in Processes, Customer(p) PROVE ShopInv'
  BY <1>1, <1>3, OpenMenuInv, AddToCartInv, ReorderInv DEF Customer
<1>4. ASSUME NEW p \in Processes, Checkout(p) PROVE ShopInv'
  BY <1>1, <1>4, CreateNewOrderInv, AddOrderItemsInv, PayFromWalletInv, EndedInv DEF Checkout
<1>5. ASSUME NEW p \in Processes, Restart(p) PROVE ShopInv'
  BY <1>1, <1>5, EndedInv
<1>6. CASE UNCHANGED vars
  <2>1. UNCHANGED <<price, menu, cart, orders, step, job, listed, added, ordered>>
    BY <1>6 DEF vars
  <2>2. TypeOK' /\ Jobs' /\ OrderedOnce'
    BY <1>1, <2>1 DEF ShopInv, TypeOK, Jobs, OrderedOnce, Shops
  <2>3. /\ CartBacked' /\ JobBacked' /\ OrderGoesToACook'
        /\ MenusWereAsked' /\ PricesWereAsked'
    BY <1>1, <2>1 DEF ShopInv, CartBacked, JobBacked, OrderGoesToACook, MenusWereAsked,
                      PricesWereAsked, Lines
  <2>4. QED
    BY <2>2, <2>3 DEF ShopInv
<1>7. QED
  BY <1>1, <1>2, <1>3, <1>4, <1>5, <1>6 DEF Next

LEMMA Invariant == Spec => []ShopInv
  BY InitInv, StepInv, PTL DEF Spec

(***************************************************************************)
(* The theorems.                                                           *)
(***************************************************************************)
\* Every variable keeps its type (shoppingcart.h, databasehandler.cpp:78-104).
THEOREM TypeCorrect == Spec => []TypeOK
<1>1. ShopInv => TypeOK
  BY DEF ShopInv
<1>2. QED
  BY <1>1, Invariant, PTL

\* Every order with items goes to a restaurant that offers one of them, however carts are
\* mixed, ordered again and merged (client.cpp:163, profilepanel.cpp:172).
THEOREM OrdersGoToCooks == Spec => []OrderGoesToACook
<1>1. ShopInv => OrderGoesToACook
  BY DEF ShopInv
<1>2. QED
  BY <1>1, Invariant, PTL

\* Every price in a cart or an order was once asked for that dish (menudialog.cpp:73,
\* profilepanel.cpp:171, databasehandler.cpp:715).
THEOREM PricesAreGenuine == Spec => []PricesWereAsked
<1>1. ShopInv => PricesWereAsked
  BY DEF ShopInv
<1>2. QED
  BY <1>1, Invariant, PTL

\* No portion is ordered twice and none is lost short of the end of the process, whichever
\* statement of a checkout fails (client.cpp:173-212).
THEOREM PortionsOrderedOnce == Spec => []OrderedOnce
<1>1. ShopInv => OrderedOnce
  BY DEF ShopInv
<1>2. QED
  BY <1>1, Invariant, PTL
=============================================================================
