--------------------------- MODULE AccountsProofs ---------------------------
(***************************************************************************)
(* Theorems about module Accounts, for any numbers of people, names and    *)
(* client processes and any initial file.                                  *)
(***************************************************************************)
EXTENDS Accounts, TLAPS

-----------------------------------------------------------------------------
(***************************************************************************)
(* The table.                                                              *)
(***************************************************************************)

\* The initial file has a row for every id up to its length.
LEMMA FirstFile ==
  /\ FirstUsers \in [DOMAIN FirstUsers -> User]
  /\ Len(FirstUsers) \in Nat
  /\ DOMAIN FirstUsers = 1 .. Len(FirstUsers)
BY AccountsAssumption

\* Giving a process a window changes nobody else's.
LEMMA OneWindow ==
  ASSUME NEW W \in [Clients -> SUBSET Ref], NEW q, NEW r \in Ref
  PROVE  /\ [W EXCEPT ![q] = {r}] \in [Clients -> SUBSET Ref]
         /\ \A c \in Clients : \A x \in [W EXCEPT ![q] = {r}][c] : x \in W[c] \/ x = r
OBVIOUS

\* Whatever a login opens, a window shows what it showed or the login's row.
LEMMA AcceptOpens ==
  ASSUME TypeOK, NEW q \in Processes, NEW s \in Signing, Accept(q, s)
  PROVE  /\ customer' \in [Clients -> SUBSET Ref]
         /\ restaurant' \in [Clients -> SUBSET Ref]
         /\ signedIn' \in [Clients -> SUBSET Ref]
         /\ \A c \in Clients : \A r \in customer'[c] :
               r \in customer[c] \/ (r = s.ref /\ s.role = "customer")
         /\ \A c \in Clients : \A r \in restaurant'[c] :
               r \in restaurant[c] \/ (r = s.ref /\ s.role = "restaurant")
<1>1. s.ref \in Ref
  BY DEF Signing
<1>2. /\ customer \in [Clients -> SUBSET Ref]
      /\ restaurant \in [Clients -> SUBSET Ref]
      /\ signedIn \in [Clients -> SUBSET Ref]
  BY DEF TypeOK
<1>3. CASE s.dialog = "customer" /\ RoleFits(s) /\ ShowCustomer(q, s)
  <2>1. /\ customer' \in {customer, [customer EXCEPT ![q] = {s.ref}]}
        /\ restaurant' = restaurant /\ signedIn' = signedIn
    BY <1>3 DEF ShowCustomer
  <2>2. s.role = "customer"
    BY <1>3 DEF RoleFits
  <2> QED BY <1>1, <1>2, <2>1, <2>2, OneWindow
<1>4. CASE s.dialog = "restaurant" /\ RoleFits(s) /\ ShowRestaurant(q, s)
  <2>1. /\ restaurant' \in {restaurant, [restaurant EXCEPT ![q] = {s.ref}]}
        /\ customer' = customer /\ signedIn' = [signedIn EXCEPT ![q] = {s.ref}]
    BY <1>4 DEF ShowRestaurant
  <2>2. s.role = "restaurant"
    BY <1>4 DEF RoleFits
  <2> QED BY <1>1, <1>2, <2>1, <2>2, OneWindow
<1>5. CASE ~RoleFits(s) /\ UNCHANGED windows
  BY <1>2, <1>5 DEF windows
<1> QED BY <1>3, <1>4, <1>5 DEF Accept

\* What a login reads of row i.
LEMMA LoginReads ==
  ASSUME TypeOK, NEW q \in Processes, NEW i \in DOMAIN users, NEW p \in People,
         NEW d \in Dialogs(q)
  PROVE  [ref |-> [id |-> i, person |-> p], name |-> users[i].name,
          role |-> users[i].role, dialog |-> d] \in Signing
BY DEF TypeOK, User, Signing, Ref, Dialogs, Roles

-----------------------------------------------------------------------------
(***************************************************************************)
(* Type correctness, with customers that stay approved.                    *)
(***************************************************************************)

LEMMA TypeInit == Init => TypeOK
<1> SUFFICES ASSUME Init PROVE TypeOK
  OBVIOUS
<1>1. users \in [DOMAIN users -> User] /\ lastId \in Nat /\ DOMAIN users = 1 .. lastId
  BY FirstFile DEF Init
<1>2. \A i \in DOMAIN users : users[i].role = "customer" => users[i].approved
  BY AccountsAssumption DEF Init
<1>3. registered \subseteq People /\ vetted \subseteq Ref
  BY <1>1 DEF Init, User, Ref, RefTo, Approved
<1> QED BY <1>1, <1>2, <1>3 DEF Init, TypeOK

LEMMA TypeStep == TypeOK /\ [Next]_vars => TypeOK'
<1> SUFFICES ASSUME TypeOK, [Next]_vars PROVE TypeOK'
  OBVIOUS
<1> USE DEF TypeOK
<1>1. ASSUME NEW p \in People, NEW n \in Names, NEW role \in Roles, Register(p, n, role)
      PROVE TypeOK'
  <2>1. NewUser(p, n, role) \in User
    BY DEF NewUser, User, Roles
  <2>2. users' \in [DOMAIN users \cup {lastId + 1} -> User]
    BY <1>1, <2>1 DEF Register, NewId
  <2>3. NewUser(p, n, role).role = "customer" => NewUser(p, n, role).approved
    BY DEF NewUser
  <2>4. \A i \in DOMAIN users' : users'[i].role = "customer" => users'[i].approved
    BY <1>1, <2>3 DEF Register, NewId
  <2>5. lastId' = lastId + 1 /\ DOMAIN users' \subseteq 1 .. lastId'
    BY <1>1, <2>2 DEF Register, NewId
  <2>6. users' \in [DOMAIN users' -> User]
    BY <2>2
  <2>7. registered' \subseteq People /\ lastId' \in Nat
    BY <1>1, <2>5 DEF Register
  <2>8. UNCHANGED <<vetted, foods, orders, reviews, favorites, customer, restaurant,
                    signedIn, signing, adding>>
    BY <1>1 DEF Register, rows, windows, jobs
  <2> QED BY <2>4, <2>5, <2>6, <2>7, <2>8
<1>2. ASSUME NEW q \in Processes, NEW i \in DOMAIN users, NEW p \in People,
             NEW d \in Dialogs(q), LoginUser(q, i, p, d)
      PROVE TypeOK'
  <2> DEFINE s == [ref |-> [id |-> i, person |-> p], name |-> users[i].name,
                   role |-> users[i].role, dialog |-> d]
  <2>1. s \in Signing
    BY LoginReads
  <2>2. CASE signing' = [signing EXCEPT ![q] = {s}] /\ UNCHANGED windows
    BY <1>2, <2>1, <2>2 DEF LoginUser, accounts, rows, windows
  <2>3. CASE Accept(q, s) /\ UNCHANGED signing
    BY <1>2, <2>1, <2>3, AcceptOpens DEF LoginUser, accounts, rows
  <2> QED BY <1>2, <2>2, <2>3 DEF LoginUser
<1>3. ASSUME NEW q \in Processes, Upgrade(q) PROVE TypeOK'
  <2>1. PICK s \in signing[q] :
           /\ users' = [i \in DOMAIN users |->
                          IF Rehash(s, i)
                          THEN [users[i] EXCEPT !.password = s.ref.person, !.hash = "pbkdf2"]
                          ELSE users[i]]
           /\ Accept(q, s)
    BY <1>3 DEF Upgrade
  <2>2. s \in Signing /\ s.ref.person \in People
    BY DEF Signing, Ref
  <2>3. users' \in [DOMAIN users -> User]
    BY <2>1, <2>2 DEF User
  <2>4. \A i \in DOMAIN users : /\ users'[i].role = users[i].role
                                /\ users'[i].approved = users[i].approved
    BY <2>1 DEF User
  <2> QED BY <1>3, <2>1, <2>2, <2>3, <2>4, AcceptOpens DEF Upgrade, rows
<1>4. ASSUME NEW q \in Processes, UpgradeFails(q) PROVE TypeOK'
  <2>1. PICK s \in signing[q] : Accept(q, s)
    BY <1>4 DEF UpgradeFails
  <2> QED BY <1>4, <2>1, AcceptOpens DEF UpgradeFails, accounts, rows
<1>5. ASSUME NEW i \in Nat, NEW n \in Names, UpdateUserDetails(i, n) PROVE TypeOK'
  BY <1>5 DEF UpdateUserDetails, User, rows, windows, jobs
<1>6. ASSUME NEW q \in Processes, NEW r \in Ref, ValidateRestaurant(q, r) PROVE TypeOK'
  BY <1>6 DEF ValidateRestaurant, accounts, rows, windows
<1>7. ASSUME NEW q \in Processes, InsertFood(q) PROVE TypeOK'
  BY <1>7 DEF InsertFood, accounts, windows
<1>8. ASSUME NEW r \in foods, DeleteFoodItem(r) PROVE TypeOK'
  BY <1>8 DEF DeleteFoodItem, accounts, windows, jobs
<1>9. ASSUME NEW c \in Clients, NEW r \in vetted, CreateNewOrder(c, r) PROVE TypeOK'
  BY <1>9 DEF CreateNewOrder, Order, accounts, windows, jobs
<1>10. ASSUME NEW c \in Clients, NEW o \in orders, SubmitReview(c, o) PROVE TypeOK'
  BY <1>10 DEF SubmitReview, accounts, windows, jobs
<1>11. ASSUME NEW c \in Clients, NEW r \in vetted, ToggleFavorite(c, r) PROVE TypeOK'
  <2>1. PICK u \in customer[c] :
           LET fav == {f \in favorites : f.user.id = u.id /\ f.restaurant.id = r.id} IN
           favorites' = IF fav # {} THEN favorites \ fav
                    ELSE favorites \cup {f \in {[user |-> u, restaurant |-> r]} : Exists(u)}
    BY <1>11 DEF ToggleFavorite
  <2>2. [user |-> u, restaurant |-> r] \in Favorite
    BY DEF Favorite
  <2>3. favorites' \subseteq Favorite
    BY <2>1, <2>2
  <2> QED BY <1>11, <2>3 DEF ToggleFavorite, accounts, windows, jobs
<1>12. ASSUME NEW i \in 1 .. lastId, NEW active \in BOOLEAN, SetActive(i, active)
       PROVE TypeOK'
  BY <1>12 DEF SetActive, User, rows, windows, jobs
<1>13. ASSUME NEW i \in 1 .. lastId, ApproveRestaurant(i) PROVE TypeOK'
  <2>1. RefTo(i) \in Ref
    BY <1>13 DEF ApproveRestaurant, RefTo, Ref, User
  <2> QED BY <1>13, <2>1 DEF ApproveRestaurant, User, rows, windows, jobs
<1>14. ASSUME NEW i \in 1 .. lastId, DisapproveRestaurant(i) PROVE TypeOK'
  BY <1>14 DEF DisapproveRestaurant, User, rows, windows, jobs
<1>15. ASSUME NEW i \in 1 .. lastId, DeleteUser(i) PROVE TypeOK'
  BY <1>15 DEF DeleteUser, Restrict, windows, jobs
<1>16. ASSUME NEW c \in Clients, Quit(c) PROVE TypeOK'
  BY <1>16 DEF Quit, accounts, rows, Processes
<1>17. CASE UNCHANGED vars
  BY <1>17 DEF vars, accounts, rows, windows, jobs
<1>18. \A c \in Clients : c \in Processes
  BY DEF Processes
<1>19. Server \in Processes
  BY DEF Processes
<1>20. \A c \in Clients : \A u \in customer[c] : u.id \in Nat
  BY DEF Ref
<1>21. (1 .. lastId) \subseteq Nat
  OBVIOUS
<1> QED
  BY <1>1, <1>2, <1>3, <1>4, <1>5, <1>6, <1>7, <1>8, <1>9, <1>10, <1>11, <1>12, <1>13,
     <1>14, <1>15, <1>16, <1>17, <1>18, <1>19, <1>20, <1>21
  DEF Next, Process, Client, Admin, ServerCommand

\* Only values of their types are stored, shown or carried by a handler, and
\* customers stay approved.
THEOREM TypeCorrect == Spec => []TypeOK
BY TypeInit, TypeStep, PTL DEF Spec

-----------------------------------------------------------------------------
(***************************************************************************)
(* Ids are given once, and a row keeps its owner and its role.             *)
(***************************************************************************)

\* The actions that write the table.
LEMMA Writers ==
  ASSUME [Next]_vars
  PROVE  \/ \E p \in People, n \in Names, role \in Roles : Register(p, n, role)
         \/ \E q \in Processes : Upgrade(q)
         \/ \E i \in DOMAIN users, n \in Names : UpdateUserDetails(i, n)
         \/ \E i \in DOMAIN users, active \in BOOLEAN : SetActive(i, active)
         \/ \E i \in DOMAIN users : ApproveRestaurant(i) \/ DisapproveRestaurant(i)
         \/ \E i \in DOMAIN users : DeleteUser(i)
         \/ UNCHANGED <<users, lastId>>
<1>1. CASE UNCHANGED vars
  BY <1>1 DEF vars, accounts
<1>2. ASSUME NEW q \in Processes, Process(q)
      PROVE  Upgrade(q) \/ UNCHANGED <<users, lastId>>
  BY <1>2 DEF Process, LoginUser, UpgradeFails, InsertFood, accounts
<1>3. ASSUME NEW c \in Clients, Client(c)
      PROVE  \/ \E i \in DOMAIN users, n \in Names : UpdateUserDetails(i, n)
             \/ UNCHANGED <<users, lastId>>
  BY <1>3 DEF Client, Quit, ValidateRestaurant, CreateNewOrder, ToggleFavorite,
              SubmitReview, UpdateUserDetails, accounts
<1>4. ASSUME NEW r \in foods, DeleteFoodItem(r) PROVE UNCHANGED <<users, lastId>>
  BY <1>4 DEF DeleteFoodItem, accounts
<1>5. ASSUME ServerCommand
      PROVE  \/ \E i \in DOMAIN users, n \in Names : UpdateUserDetails(i, n)
             \/ \E i \in DOMAIN users, active \in BOOLEAN : SetActive(i, active)
             \/ \E i \in DOMAIN users : ApproveRestaurant(i) \/ DisapproveRestaurant(i)
             \/ \E i \in DOMAIN users : DeleteUser(i)
             \/ UNCHANGED <<users, lastId>>
  BY <1>5 DEF ServerCommand, Admin, UpdateUserDetails, SetActive, ApproveRestaurant,
              DisapproveRestaurant, DeleteUser, ValidateRestaurant, accounts
<1> QED BY <1>1, <1>2, <1>3, <1>4, <1>5 DEF Next

\* A row that is there after a step and whose id had been given before it is the
\* same account.
LEMMA RowsKept ==
  ASSUME TypeOK, [Next]_vars
  PROVE  /\ lastId <= lastId'
         /\ \A i \in DOMAIN users' : i <= lastId =>
               /\ i \in DOMAIN users
               /\ users'[i].owner = users[i].owner
               /\ users'[i].role = users[i].role
<1> USE DEF TypeOK
<1>1. ASSUME NEW p \in People, NEW n \in Names, NEW role \in Roles, Register(p, n, role)
      PROVE  /\ lastId' = lastId + 1
             /\ DOMAIN users' = DOMAIN users \cup {lastId + 1}
             /\ \A i \in DOMAIN users : i # lastId + 1 => users'[i] = users[i]
  BY <1>1 DEF Register, NewId
<1>2. ASSUME NEW q \in Processes, Upgrade(q)
      PROVE  /\ lastId' = lastId /\ DOMAIN users' = DOMAIN users
             /\ \A i \in DOMAIN users : /\ users'[i].owner = users[i].owner
                                        /\ users'[i].role = users[i].role
  <2>1. PICK s \in signing[q] :
           users' = [i \in DOMAIN users |->
                       IF Rehash(s, i)
                       THEN [users[i] EXCEPT !.password = s.ref.person, !.hash = "pbkdf2"]
                       ELSE users[i]]
    BY <1>2 DEF Upgrade
  <2>2. lastId' = lastId
    BY <1>2 DEF Upgrade
  <2> QED BY <2>1, <2>2 DEF User
<1>3. ASSUME NEW i \in DOMAIN users,
             \/ \E n \in Names : UpdateUserDetails(i, n)
             \/ \E active \in BOOLEAN : SetActive(i, active)
             \/ ApproveRestaurant(i) \/ DisapproveRestaurant(i)
      PROVE  /\ lastId' = lastId /\ DOMAIN users' = DOMAIN users
             /\ \A j \in DOMAIN users : /\ users'[j].owner = users[j].owner
                                        /\ users'[j].role = users[j].role
  BY <1>3 DEF UpdateUserDetails, SetActive, ApproveRestaurant, DisapproveRestaurant, User
<1>4. ASSUME NEW i \in DOMAIN users, DeleteUser(i)
      PROVE  /\ lastId' = lastId /\ DOMAIN users' \subseteq DOMAIN users
             /\ \A j \in DOMAIN users' : users'[j] = users[j]
  BY <1>4 DEF DeleteUser, Restrict
<1>5. \A i \in DOMAIN users : i \in Nat /\ i <= lastId
  OBVIOUS
<1> QED BY <1>1, <1>2, <1>3, <1>4, <1>5, Writers

-----------------------------------------------------------------------------
(***************************************************************************)
(* Stale ids, names and passwords.                                         *)
(***************************************************************************)

\* The id was given, and if its row is still there it is that of the person meant.
Meant(r) == r.id <= lastId /\ (Exists(r) => users[r.id].owner = r.person)

RefsMeant == \A r \in Refs : Meant(r)

\* Where a reference may be kept.
Kept(r) ==
  \/ r \in vetted \/ r \in foods
  \/ \E o \in orders : r = o.restaurant \/ r = o.customer
  \/ \E f \in favorites : r = f.user \/ r = f.restaurant
  \/ \E c \in Clients : r \in customer[c] \/ r \in restaurant[c]
  \/ \E q \in Processes : r \in adding[q] \/ \E s \in signing[q] : r = s.ref

LEMMA RefsKept == \A r : r \in Refs <=> Kept(r)
<1> TAKE r
<1> DEFINE InOrders == UNION {{o.restaurant, o.customer} : o \in orders}
           InFavorites == UNION {{f.user, f.restaurant} : f \in favorites}
           InWindows == UNION {customer[c] \cup restaurant[c] : c \in Clients}
           InJobs == UNION {{s.ref : s \in signing[q]} \cup adding[q] : q \in Processes}
<1>1. r \in InOrders
        <=> \E o \in orders : r = o.restaurant \/ r = o.customer
  OBVIOUS
<1>2. r \in InFavorites
        <=> \E f \in favorites : r = f.user \/ r = f.restaurant
  OBVIOUS
<1>3. r \in InWindows
        <=> \E c \in Clients : r \in customer[c] \/ r \in restaurant[c]
  OBVIOUS
<1>4. r \in InJobs
        <=> \E q \in Processes : r \in adding[q] \/ \E s \in signing[q] : r = s.ref
  OBVIOUS
<1>5. Refs = vetted \cup foods \cup InOrders \cup InFavorites \cup InWindows \cup InJobs
  BY DEF Refs
<1> HIDE DEF InOrders, InFavorites, InWindows, InJobs
<1> QED BY <1>1, <1>2, <1>3, <1>4, <1>5 DEF Kept

LEMMA RefsTyped == TypeOK => \A r \in Refs : r \in Ref
<1> SUFFICES ASSUME TypeOK, NEW r, Kept(r) PROVE r \in Ref
  BY RefsKept
<1> USE DEF TypeOK
<1>1. \A o \in orders : o.restaurant \in Ref /\ o.customer \in Ref
  BY DEF Order
<1>2. \A f \in favorites : f.user \in Ref /\ f.restaurant \in Ref
  BY DEF Favorite
<1>3. \A q \in Processes : \A s \in signing[q] : s.ref \in Ref
  BY DEF Signing
<1> QED BY <1>1, <1>2, <1>3 DEF Kept

\* What was meant stays meant.
LEMMA MeantStays ==
  ASSUME TypeOK, [Next]_vars, TypeOK', NEW r \in Ref, Meant(r)
  PROVE  Meant(r)'
BY RowsKept DEF Meant, Exists, Ref, TypeOK

\* A step keeps no reference that is not read from a row or from another place.
LEMMA NewRefs ==
  ASSUME TypeOK, LoginFindsOwner, [Next]_vars, NEW r, Kept(r)'
  PROVE  Kept(r) \/ \E i \in DOMAIN users : r = RefTo(i)
<1> USE DEF TypeOK
<1>1. ASSUME NEW p \in People, NEW n \in Names, NEW role \in Roles, Register(p, n, role)
      PROVE  Kept(r)
  BY <1>1 DEF Register, Kept, rows, windows, jobs
<1>2. ASSUME NEW q \in Processes, NEW i \in DOMAIN users, NEW p \in People,
             NEW d \in Dialogs(q), LoginUser(q, i, p, d)
      PROVE  Kept(r) \/ r = RefTo(i)
  <2> DEFINE s == [ref |-> [id |-> i, person |-> p], name |-> users[i].name,
                   role |-> users[i].role, dialog |-> d]
  <2>1. s \in Signing
    BY LoginReads
  <2>2. s.ref = RefTo(i)
    BY <1>2 DEF LoginUser, LoginFindsOwner, RefTo
  <2>3. CASE signing' = [signing EXCEPT ![q] = {s}] /\ UNCHANGED windows
    BY <1>2, <2>2, <2>3 DEF LoginUser, Kept, accounts, rows, windows
  <2>4. CASE Accept(q, s) /\ UNCHANGED signing
    <3>1. /\ \A c \in Clients : \A x \in customer'[c] : x \in customer[c] \/ x = s.ref
          /\ \A c \in Clients : \A x \in restaurant'[c] : x \in restaurant[c] \/ x = s.ref
      BY <2>1, <2>4, AcceptOpens
    <3> QED BY <1>2, <2>2, <2>4, <3>1 DEF LoginUser, Kept, accounts, rows
  <2> QED BY <1>2, <2>3, <2>4 DEF LoginUser
<1>3. ASSUME NEW q \in Processes, Upgrade(q) \/ UpgradeFails(q) PROVE Kept(r)
  <2>1. PICK s \in signing[q] : Accept(q, s)
    BY <1>3 DEF Upgrade, UpgradeFails
  <2>2. /\ \A c \in Clients : \A x \in customer'[c] : x \in customer[c] \/ x = s.ref
        /\ \A c \in Clients : \A x \in restaurant'[c] : x \in restaurant[c] \/ x = s.ref
    BY <2>1, AcceptOpens
  <2>3. /\ signing' = [signing EXCEPT ![q] = {}]
        /\ UNCHANGED <<vetted, foods, orders, favorites, adding>>
    BY <1>3 DEF Upgrade, UpgradeFails, accounts, rows
  <2> QED BY <2>2, <2>3 DEF Kept
<1>4. ASSUME NEW i, NEW n \in Names, UpdateUserDetails(i, n) PROVE Kept(r)
  BY <1>4 DEF UpdateUserDetails, Kept, rows, windows, jobs
<1>5. ASSUME NEW q \in Processes, NEW x, ValidateRestaurant(q, x), Kept(x) PROVE Kept(r)
  BY <1>5 DEF ValidateRestaurant, Kept, accounts, rows, windows
<1>6. ASSUME NEW q \in Processes, InsertFood(q) PROVE Kept(r)
  BY <1>6 DEF InsertFood, Kept, accounts, windows
<1>7. ASSUME NEW x \in foods, DeleteFoodItem(x) PROVE Kept(r)
  BY <1>7 DEF DeleteFoodItem, Kept, accounts, windows, jobs
<1>8. ASSUME NEW c \in Clients, NEW x \in vetted, CreateNewOrder(c, x) PROVE Kept(r)
  BY <1>8 DEF CreateNewOrder, Kept, accounts, windows, jobs
<1>9. ASSUME NEW c \in Clients, NEW o \in orders, SubmitReview(c, o) PROVE Kept(r)
  BY <1>9 DEF SubmitReview, Kept, accounts, windows, jobs
<1>10. ASSUME NEW c \in Clients, NEW x \in vetted, ToggleFavorite(c, x) PROVE Kept(r)
  <2>1. \E u \in customer[c] : favorites' \subseteq favorites \cup {[user |-> u, restaurant |-> x]}
    BY <1>10 DEF ToggleFavorite
  <2> QED BY <1>10, <2>1 DEF ToggleFavorite, Kept, accounts, windows, jobs
<1>11. ASSUME NEW i, NEW active \in BOOLEAN, SetActive(i, active) PROVE Kept(r)
  BY <1>11 DEF SetActive, Kept, rows, windows, jobs
<1>12. ASSUME NEW i, ApproveRestaurant(i) PROVE Kept(r) \/ (r = RefTo(i) /\ i \in DOMAIN users)
  BY <1>12 DEF ApproveRestaurant, Kept, rows, windows, jobs
<1>13. ASSUME NEW i, DisapproveRestaurant(i) PROVE Kept(r)
  BY <1>13 DEF DisapproveRestaurant, Kept, rows, windows, jobs
<1>14. ASSUME NEW i, DeleteUser(i) PROVE Kept(r)
  BY <1>14 DEF DeleteUser, Kept, windows, jobs
<1>15. ASSUME NEW c \in Clients, Quit(c) PROVE Kept(r)
  BY <1>15 DEF Quit, Kept, accounts, rows, Processes
<1>16. CASE UNCHANGED vars
  BY <1>16 DEF vars, Kept, accounts, rows, windows, jobs
<1>17. \A x : x \in vetted \/ (\E c \in Clients : x \in restaurant[c]) => Kept(x)
  BY DEF Kept
<1>18. Server \in Processes /\ \A c \in Clients : c \in Processes
  BY DEF Processes
<1> QED
  BY <1>1, <1>2, <1>3, <1>4, <1>5, <1>6, <1>7, <1>8, <1>9, <1>10, <1>11, <1>12, <1>13,
     <1>14, <1>15, <1>16, <1>17, <1>18
  DEF Next, Process, Client, Admin, ServerCommand

-----------------------------------------------------------------------------
\* The part of the inductive invariant that concerns whom an id names: a login
\* only keeps the right person if names and passwords are in order, and the
\* re-hash only stores the right password if the id is still the person's.
Identity == TypeOK /\ RefsMeant /\ LoginFindsOwner

LEMMA IdentityInit == Init => Identity
<1> SUFFICES ASSUME Init PROVE Identity
  OBVIOUS
<1>1. TypeOK
  BY TypeInit
<1>2. LoginFindsOwner
  BY AccountsAssumption DEF Init, LoginFindsOwner
<1>3. ASSUME NEW r, Kept(r) PROVE Meant(r)
  <2>1. PICK i \in DOMAIN users : r = RefTo(i)
    BY <1>3 DEF Init, Kept, Approved
  <2> QED BY <1>1, <2>1 DEF RefTo, Meant, Exists, TypeOK
<1> QED BY <1>1, <1>2, <1>3, RefsKept DEF Identity, RefsMeant

\* The names stay unique and every password stays its owner's.
LEMMA LoginStep == Identity /\ [Next]_vars => LoginFindsOwner'
<1> SUFFICES ASSUME Identity, [Next]_vars PROVE LoginFindsOwner'
  OBVIOUS
<1> USE DEF Identity, TypeOK
<1>1. ASSUME NEW p \in People, NEW n \in Names, NEW role \in Roles, Register(p, n, role)
      PROVE  LoginFindsOwner'
  <2>1. \A j \in DOMAIN users : users[j].name # n /\ j # lastId + 1
    BY <1>1 DEF Register, NameFree, NewId
  <2>2. /\ DOMAIN users' = DOMAIN users \cup {lastId + 1}
        /\ users'[lastId + 1].name = n
        /\ users'[lastId + 1].password = users'[lastId + 1].owner
        /\ \A j \in DOMAIN users : users'[j] = users[j]
    BY <1>1, <2>1 DEF Register, NewId, NewUser
  <2> QED BY <2>1, <2>2 DEF LoginFindsOwner
<1>2. ASSUME NEW q \in Processes, Upgrade(q) PROVE LoginFindsOwner'
  <2>1. PICK s \in signing[q] :
           users' = [i \in DOMAIN users |->
                       IF Rehash(s, i)
                       THEN [users[i] EXCEPT !.password = s.ref.person, !.hash = "pbkdf2"]
                       ELSE users[i]]
    BY <1>2 DEF Upgrade
  <2>2. Meant(s.ref)
    BY RefsKept DEF Kept, RefsMeant
  <2>3. \A i \in DOMAIN users :
           /\ users'[i].name = users[i].name /\ users'[i].owner = users[i].owner
           /\ users'[i].password = IF i = s.ref.id THEN s.ref.person ELSE users[i].password
    BY <2>1 DEF Rehash, User
  <2>4. \A i \in DOMAIN users : users'[i].password = users'[i].owner
    BY <2>2, <2>3 DEF Meant, Exists, LoginFindsOwner
  <2>5. DOMAIN users' = DOMAIN users
    BY <2>1
  <2> QED BY <2>3, <2>4, <2>5 DEF LoginFindsOwner
<1>3. ASSUME NEW i \in DOMAIN users, NEW n \in Names, UpdateUserDetails(i, n)
      PROVE  LoginFindsOwner'
  BY <1>3 DEF UpdateUserDetails, NameFree, LoginFindsOwner, User
<1>4. ASSUME NEW i \in DOMAIN users,
             \/ \E active \in BOOLEAN : SetActive(i, active)
             \/ ApproveRestaurant(i) \/ DisapproveRestaurant(i)
      PROVE  LoginFindsOwner'
  BY <1>4 DEF SetActive, ApproveRestaurant, DisapproveRestaurant, LoginFindsOwner, User
<1>5. ASSUME NEW i \in DOMAIN users, DeleteUser(i) PROVE LoginFindsOwner'
  BY <1>5 DEF DeleteUser, Restrict, LoginFindsOwner
<1>6. CASE UNCHANGED <<users, lastId>>
  BY <1>6 DEF LoginFindsOwner
<1> QED BY <1>1, <1>2, <1>3, <1>4, <1>5, <1>6, Writers

LEMMA IdentityStep == Identity /\ [Next]_vars => Identity'
<1> SUFFICES ASSUME Identity, [Next]_vars PROVE Identity'
  OBVIOUS
<1>1. TypeOK /\ LoginFindsOwner /\ TypeOK' /\ LoginFindsOwner'
  BY TypeStep, LoginStep DEF Identity
<1>2. ASSUME NEW r, Kept(r)' PROVE Meant(r)'
  <2>1. r \in Ref /\ Meant(r)
    <3>1. CASE Kept(r)
      BY <1>1, <3>1, RefsKept, RefsTyped DEF Identity, RefsMeant
    <3>2. CASE \E i \in DOMAIN users : r = RefTo(i)
      BY <1>1, <3>2 DEF RefTo, Meant, Exists, TypeOK, User, Ref
    <3> QED BY <1>1, <1>2, <3>1, <3>2, NewRefs
  <2> QED BY <1>1, <2>1, MeantStays
<1>3. (\A r : r \in Refs <=> Kept(r))'
  BY RefsKept, PTL
<1> QED BY <1>1, <1>2, <1>3 DEF Identity, RefsMeant

\* No id that is kept anywhere comes to name somebody else.
THEOREM StaleIdsSafe == Spec => []StaleIdsNameNobodyElse
<1>1. Spec => []Identity
  BY IdentityInit, IdentityStep, PTL DEF Spec
<1>2. Identity => StaleIdsNameNobodyElse
  BY DEF Identity, RefsMeant, Meant, StaleIdsNameNobodyElse
<1> QED BY <1>1, <1>2, PTL

\* The names are unique and every password is that of the account's owner.
THEOREM LoginsFindOwners == Spec => []LoginFindsOwner
<1>1. Spec => []Identity
  BY IdentityInit, IdentityStep, PTL DEF Spec
<1>2. Identity => LoginFindsOwner
  BY DEF Identity
<1> QED BY <1>1, <1>2, PTL

-----------------------------------------------------------------------------
(***************************************************************************)
(* Orphans.                                                                *)
(***************************************************************************)

LEMMA OrphansInit == Init => NoOrphans
BY DEF Init, NoOrphans

LEMMA OrphansStep == TypeOK /\ NoOrphans /\ [Next]_vars => NoOrphans'
<1> SUFFICES ASSUME TypeOK, NoOrphans, [Next]_vars PROVE NoOrphans'
  OBVIOUS
<1> USE DEF TypeOK
<1>1. ASSUME DOMAIN users \subseteq DOMAIN users', UNCHANGED rows PROVE NoOrphans'
  BY <1>1 DEF NoOrphans, Exists, rows
<1>2. ASSUME NEW p \in People, NEW n \in Names, NEW role \in Roles, Register(p, n, role)
      PROVE  DOMAIN users \subseteq DOMAIN users' /\ UNCHANGED rows
  BY <1>2 DEF Register
<1>3. ASSUME NEW q \in Processes, NEW i, NEW p, NEW d, LoginUser(q, i, p, d)
      PROVE  DOMAIN users \subseteq DOMAIN users' /\ UNCHANGED rows
  BY <1>3 DEF LoginUser, accounts
<1>4. ASSUME NEW q \in Processes, Upgrade(q) \/ UpgradeFails(q)
      PROVE  DOMAIN users \subseteq DOMAIN users' /\ UNCHANGED rows
  BY <1>4 DEF Upgrade, UpgradeFails, accounts
<1>5. ASSUME NEW i, \/ \E n \in Names : UpdateUserDetails(i, n)
                    \/ \E active \in BOOLEAN : SetActive(i, active)
                    \/ ApproveRestaurant(i) \/ DisapproveRestaurant(i)
      PROVE  DOMAIN users \subseteq DOMAIN users' /\ UNCHANGED rows
  BY <1>5 DEF UpdateUserDetails, SetActive, ApproveRestaurant, DisapproveRestaurant
<1>6. ASSUME NEW q, NEW r, ValidateRestaurant(q, r)
      PROVE  DOMAIN users \subseteq DOMAIN users' /\ UNCHANGED rows
  BY <1>6 DEF ValidateRestaurant, accounts
<1>7. ASSUME NEW c, Quit(c) PROVE DOMAIN users \subseteq DOMAIN users' /\ UNCHANGED rows
  BY <1>7 DEF Quit, accounts
<1>8. CASE UNCHANGED vars
  BY <1>1, <1>8 DEF vars, accounts
<1>9. ASSUME NEW q \in Processes, InsertFood(q) PROVE NoOrphans'
  BY <1>9 DEF InsertFood, NoOrphans, Exists, accounts
<1>10. ASSUME NEW r \in foods, DeleteFoodItem(r) PROVE NoOrphans'
  BY <1>10 DEF DeleteFoodItem, NoOrphans, Exists, accounts
<1>11. ASSUME NEW c \in Clients, NEW r \in vetted, CreateNewOrder(c, r) PROVE NoOrphans'
  BY <1>11 DEF CreateNewOrder, NoOrphans, Exists, accounts
<1>12. ASSUME NEW c \in Clients, NEW o \in orders, SubmitReview(c, o) PROVE NoOrphans'
  BY <1>12 DEF SubmitReview, NoOrphans, Exists, accounts
<1>13. ASSUME NEW c \in Clients, NEW r \in vetted, ToggleFavorite(c, r) PROVE NoOrphans'
  <2>1. \A f \in favorites' : Exists(f.user)
    <3>1. PICK u \in customer[c] :
             \A f \in favorites' : f \in favorites \/ (f.user = u /\ Exists(u))
      BY <1>13 DEF ToggleFavorite
    <3> QED BY <3>1 DEF NoOrphans
  <2> QED BY <1>13, <2>1 DEF ToggleFavorite, NoOrphans, Exists, accounts
<1>14. ASSUME NEW i, DeleteUser(i) PROVE NoOrphans'
  <2>1. DOMAIN users' = DOMAIN users \ {i}
    BY <1>14 DEF DeleteUser, Restrict
  <2> QED BY <1>14, <2>1 DEF DeleteUser, NoOrphans, Exists
<1>15. Server \in Processes /\ \A c \in Clients : c \in Processes
  BY DEF Processes
<1> QED
  BY <1>1, <1>2, <1>3, <1>4, <1>5, <1>6, <1>7, <1>8, <1>9, <1>10, <1>11, <1>12, <1>13,
     <1>14, <1>15
  DEF Next, Process, Client, Admin, ServerCommand

\* No row names a deleted user, but for the restaurants of favorites.
THEOREM OrphansNever == Spec => []NoOrphans
<1>1. Init => TypeOK /\ NoOrphans
  BY TypeInit, OrphansInit
<1>2. TypeOK /\ NoOrphans /\ [Next]_vars => (TypeOK /\ NoOrphans)'
  BY TypeStep, OrphansStep
<1> QED BY <1>1, <1>2, PTL DEF Spec

-----------------------------------------------------------------------------
(***************************************************************************)
(* Roles.                                                                  *)
(***************************************************************************)

\* Every approved restaurant has been approved before; dashboards, foods, orders
\* and running handlers only name restaurants that have been.
Vetting ==
  /\ \A i \in Approved : RefTo(i) \in vetted
  /\ \A r \in vetted : HasRole(r, "restaurant")
  /\ foods \subseteq vetted
  /\ \A o \in orders : o.restaurant \in vetted /\ HasRole(o.customer, "customer")
  /\ \A c \in Clients : /\ restaurant[c] \subseteq vetted
                        /\ \A r \in customer[c] : HasRole(r, "customer")
  /\ \A q \in Processes : adding[q] \subseteq vetted
  /\ \A q \in Processes : \A s \in signing[q] :
        /\ HasRole(s.ref, s.role)
        /\ s.role = "restaurant" => s.ref \in vetted

LEMMA VettingInit == Init => Vetting
BY AccountsAssumption DEF Init, Vetting, Approved, RefTo, HasRole, Exists

LEMMA VettingImplies == Vetting => RightRoles
BY DEF Vetting, RightRoles

\* The role a reference was kept for stays the role of its row.
LEMMA RoleStays ==
  ASSUME Identity, [Next]_vars, NEW r, Kept(r), NEW role, HasRole(r, role)
  PROVE  HasRole(r, role)'
<1>1. r \in Ref /\ r.id <= lastId
  BY RefsKept, RefsTyped DEF Identity, RefsMeant, Meant
<1>2. TypeOK
  BY DEF Identity
<1> QED BY <1>1, <1>2, RowsKept DEF HasRole, Exists, Ref

\* An approved account of a step is an approved account of before, or was approved
\* by this step.
LEMMA VettedStep ==
  ASSUME Identity, Vetting, [Next]_vars
  PROVE  /\ vetted \subseteq vetted'
         /\ \A r \in vetted' : r \in vetted \/ \E i \in DOMAIN users :
               r = RefTo(i) /\ users[i].role = "restaurant"
         /\ \A i \in Approved' : RefTo(i)' \in vetted'
<1> USE DEF Identity, TypeOK
<1>1. vetted' = vetted \/ \E i \in DOMAIN users : ApproveRestaurant(i)
  BY DEF Next, Process, Client, Admin, ServerCommand, Register, LoginUser, Upgrade,
         UpgradeFails, UpdateUserDetails, ValidateRestaurant, InsertFood, DeleteFoodItem,
         CreateNewOrder, SubmitReview, ToggleFavorite, SetActive, ApproveRestaurant,
         DisapproveRestaurant, DeleteUser, Quit, vars, accounts
<1>2. /\ vetted \subseteq vetted'
      /\ \A r \in vetted' : r \in vetted \/ \E i \in DOMAIN users :
            r = RefTo(i) /\ users[i].role = "restaurant"
  BY <1>1 DEF ApproveRestaurant
<1>3. ASSUME NEW p \in People, NEW n \in Names, NEW role \in Roles, Register(p, n, role)
      PROVE  \A i \in Approved' : i \in Approved /\ RefTo(i)' = RefTo(i)
  BY <1>3 DEF Register, NewId, NewUser, Approved, RefTo
<1>4. ASSUME NEW q \in Processes, Upgrade(q)
      PROVE  \A i \in Approved' : i \in Approved /\ RefTo(i)' = RefTo(i)
  <2>1. PICK s \in signing[q] :
           users' = [i \in DOMAIN users |->
                       IF Rehash(s, i)
                       THEN [users[i] EXCEPT !.password = s.ref.person, !.hash = "pbkdf2"]
                       ELSE users[i]]
    BY <1>4 DEF Upgrade
  <2>2. DOMAIN users' = DOMAIN users
    BY <2>1
  <2>3. \A i \in DOMAIN users : /\ users'[i].role = users[i].role
                                /\ users'[i].approved = users[i].approved
                                /\ users'[i].owner = users[i].owner
    BY <2>1 DEF User
  <2> QED BY <2>2, <2>3 DEF Approved, RefTo
<1>5. ASSUME NEW i \in DOMAIN users,
             \/ \E n \in Names : UpdateUserDetails(i, n)
             \/ \E active \in BOOLEAN : SetActive(i, active)
             \/ DisapproveRestaurant(i) \/ DeleteUser(i)
      PROVE  \A j \in Approved' : j \in Approved /\ RefTo(j)' = RefTo(j)
  BY <1>5 DEF UpdateUserDetails, SetActive, DisapproveRestaurant, DeleteUser, Restrict,
              Approved, RefTo, User
<1>6. ASSUME NEW i \in DOMAIN users, ApproveRestaurant(i)
      PROVE  \A j \in Approved' : RefTo(j)' \in vetted'
  BY <1>6 DEF ApproveRestaurant, Vetting, Approved, RefTo, User
<1>7. CASE UNCHANGED <<users, lastId>>
  BY <1>2, <1>7 DEF Vetting, Approved, RefTo
<1> QED BY <1>2, <1>3, <1>4, <1>5, <1>6, <1>7, Writers DEF Vetting

\* A reference that was kept with a role, or read from a row with that role.
Sound(r, role) ==
  \/ Kept(r) /\ HasRole(r, role)
  \/ \E i \in DOMAIN users : r = RefTo(i) /\ users[i].role = role

\* A role read from a row is the role of the reference after the step.
LEMMA SoundStays ==
  ASSUME Identity, [Next]_vars, NEW r, NEW role, Sound(r, role)
  PROVE  HasRole(r, role)'
<1>1. CASE Kept(r) /\ HasRole(r, role)
  BY <1>1, RoleStays
<1>2. ASSUME NEW i \in DOMAIN users, r = RefTo(i), users[i].role = role
      PROVE  HasRole(r, role)'
  BY <1>2, RowsKept DEF Identity, TypeOK, RefTo, HasRole, Exists
<1> QED BY <1>1, <1>2 DEF Sound

\* What the windows show and the handlers carry after a step.
LEMMA WindowsVetted ==
  ASSUME Identity, Vetting, [Next]_vars
  PROVE  /\ \A c \in Clients : restaurant'[c] \subseteq vetted
         /\ \A c \in Clients : \A r \in customer'[c] : Sound(r, "customer")
         /\ \A q \in Processes : adding'[q] \subseteq vetted
         /\ \A q \in Processes : \A s \in signing'[q] :
               Sound(s.ref, s.role) /\ (s.role = "restaurant" => s.ref \in vetted)
<1> DEFINE Goal ==
       /\ \A c \in Clients : restaurant'[c] \subseteq vetted
       /\ \A c \in Clients : \A r \in customer'[c] : Sound(r, "customer")
       /\ \A q \in Processes : adding'[q] \subseteq vetted
       /\ \A q \in Processes : \A s \in signing'[q] :
             Sound(s.ref, s.role) /\ (s.role = "restaurant" => s.ref \in vetted)
<1>1. /\ TypeOK
      /\ \A c \in Clients : restaurant[c] \subseteq vetted
      /\ \A c \in Clients : \A r \in customer[c] : Sound(r, "customer")
      /\ \A q \in Processes : adding[q] \subseteq vetted
      /\ \A q \in Processes : \A s \in signing[q] :
            Sound(s.ref, s.role) /\ (s.role = "restaurant" => s.ref \in vetted)
  BY DEF Identity, Vetting, Sound, Kept
<1>2. CASE UNCHANGED <<windows, jobs>>
  BY <1>1, <1>2 DEF windows, jobs
<1>3. ASSUME NEW q \in Processes, NEW s \in Signing, Accept(q, s), UNCHANGED adding,
             Sound(s.ref, s.role), s.role = "restaurant" => s.ref \in vetted,
             \A x \in Processes : signing'[x] \subseteq signing[x]
      PROVE  Goal
  <2>1. \A c \in Clients : restaurant'[c] \subseteq vetted
    BY <1>1, <1>3, AcceptOpens
  <2>2. \A c \in Clients : \A r \in customer'[c] : Sound(r, "customer")
    BY <1>1, <1>3, AcceptOpens
  <2> QED BY <1>1, <1>3, <2>1, <2>2
<1>4. ASSUME NEW q \in Processes, NEW i \in DOMAIN users, NEW p \in People,
             NEW d \in Dialogs(q), LoginUser(q, i, p, d)
      PROVE  Goal
  <2> DEFINE s == [ref |-> [id |-> i, person |-> p], name |-> users[i].name,
                   role |-> users[i].role, dialog |-> d]
  <2>1. s \in Signing
    BY <1>1, LoginReads
  <2>2. s.ref = RefTo(i) /\ s.role = users[i].role /\ users[i].approved
    BY <1>4 DEF LoginUser, Identity, LoginFindsOwner, RefTo
  <2>3. Sound(s.ref, s.role)
    BY <2>2 DEF Sound
  <2>4. s.role = "restaurant" => s.ref \in vetted
    BY <2>2 DEF Vetting, Approved
  <2> HIDE DEF s
  <2>5. CASE signing' = [signing EXCEPT ![q] = {s}] /\ UNCHANGED windows
    BY <1>1, <1>4, <2>3, <2>4, <2>5 DEF LoginUser, windows, TypeOK
  <2>6. CASE Accept(q, s) /\ UNCHANGED signing
    BY <1>3, <1>4, <2>1, <2>3, <2>4, <2>6 DEF LoginUser
  <2> QED BY <1>4, <2>5, <2>6 DEF LoginUser, s
<1>5. ASSUME NEW q \in Processes, Upgrade(q) \/ UpgradeFails(q) PROVE Goal
  <2>1. PICK s \in signing[q] : Accept(q, s)
    BY <1>5 DEF Upgrade, UpgradeFails
  <2>2. signing' = [signing EXCEPT ![q] = {}] /\ UNCHANGED adding
    BY <1>5 DEF Upgrade, UpgradeFails
  <2>3. s \in Signing
    BY <1>1 DEF TypeOK
  <2>4. \A x \in Processes : signing'[x] \subseteq signing[x]
    BY <1>1, <2>2 DEF TypeOK
  <2> QED BY <1>1, <1>3, <2>1, <2>2, <2>3, <2>4
<1>6. ASSUME NEW q \in Processes, NEW r, ValidateRestaurant(q, r), r \in vetted PROVE Goal
  BY <1>1, <1>6 DEF ValidateRestaurant, TypeOK, windows
<1>7. ASSUME NEW q \in Processes, InsertFood(q) PROVE Goal
  BY <1>1, <1>7 DEF InsertFood, TypeOK, windows
<1>8. ASSUME NEW c \in Clients, Quit(c) PROVE Goal
  BY <1>1, <1>8 DEF Quit, TypeOK, Processes
<1>9. ASSUME NEW c, NEW x,
             \/ CreateNewOrder(c, x) \/ SubmitReview(c, x) \/ ToggleFavorite(c, x)
             \/ DeleteFoodItem(x) \/ (\E n \in Names : UpdateUserDetails(x, n)) \/ Admin(x)
      PROVE  Goal
  <2>1. UNCHANGED <<windows, jobs>>
    BY <1>9 DEF CreateNewOrder, SubmitReview, ToggleFavorite, DeleteFoodItem,
                UpdateUserDetails, Admin, SetActive, ApproveRestaurant,
                DisapproveRestaurant, DeleteUser
  <2> QED BY <1>2, <2>1
<1>10. ASSUME NEW p, NEW n, NEW role, Register(p, n, role) PROVE Goal
  BY <1>2, <1>10 DEF Register
<1>11. CASE UNCHANGED vars
  BY <1>2, <1>11 DEF vars
<1>12. ASSUME NEW q \in Processes, Process(q) PROVE Goal
  BY <1>4, <1>5, <1>7, <1>12 DEF Process
<1>13. ASSUME NEW c \in Clients, Client(c) PROVE Goal
  <2>1. c \in Processes
    BY DEF Processes
  <2> QED BY <1>1, <1>6, <1>8, <1>9, <1>13, <2>1 DEF Client
<1>14. ASSUME ServerCommand PROVE Goal
  <2>1. Server \in Processes
    BY DEF Processes
  <2> QED BY <1>6, <1>9, <1>14, <2>1 DEF ServerCommand
<1> QED BY <1>9, <1>10, <1>11, <1>12, <1>13, <1>14 DEF Next

LEMMA VettingStep == Identity /\ Vetting /\ [Next]_vars => Vetting'
<1> SUFFICES ASSUME Identity, Vetting, [Next]_vars PROVE Vetting'
  OBVIOUS
<1>1. \A i \in Approved' : RefTo(i)' \in vetted'
  BY VettedStep
<1>2. vetted \subseteq vetted'
  BY VettedStep
<1>3. \A r \in vetted' : HasRole(r, "restaurant")'
  <2>1. \A r \in vetted' : Sound(r, "restaurant")
    BY VettedStep DEF Vetting, Sound, Kept
  <2> QED BY <2>1, SoundStays
<1>4. foods' \subseteq vetted
  <2>1. foods' \subseteq foods \/ \E q \in Processes : foods' \subseteq foods \cup adding[q]
    BY DEF Next, Process, Client, Admin, ServerCommand, Register, LoginUser, Upgrade,
           UpgradeFails, UpdateUserDetails, ValidateRestaurant, InsertFood, DeleteFoodItem,
           CreateNewOrder, SubmitReview, ToggleFavorite, SetActive, ApproveRestaurant,
           DisapproveRestaurant, DeleteUser, Quit, vars, accounts, rows
  <2> QED BY <2>1 DEF Vetting
<1>5. \A o \in orders' : o.restaurant \in vetted /\ Sound(o.customer, "customer")
  <2>1. \/ orders' \subseteq orders
        \/ \E c \in Clients, r \in vetted : \E u \in customer[c] :
              orders' = orders \cup {[restaurant |-> r, customer |-> u]}
    BY DEF Next, Process, Client, Admin, ServerCommand, Register, LoginUser, Upgrade,
           UpgradeFails, UpdateUserDetails, ValidateRestaurant, InsertFood, DeleteFoodItem,
           CreateNewOrder, SubmitReview, ToggleFavorite, SetActive, ApproveRestaurant,
           DisapproveRestaurant, DeleteUser, Quit, vars, accounts, rows
  <2> QED BY <2>1 DEF Vetting, Sound, Kept
<1>6. \A o \in orders' : HasRole(o.customer, "customer")'
  BY <1>5, SoundStays
<1>7. \A c \in Clients : /\ restaurant'[c] \subseteq vetted'
                         /\ \A r \in customer'[c] : HasRole(r, "customer")'
  BY <1>2, WindowsVetted, SoundStays
<1>8. \A q \in Processes : adding'[q] \subseteq vetted'
  BY <1>2, WindowsVetted
<1>9. \A q \in Processes : \A s \in signing'[q] :
         HasRole(s.ref, s.role)' /\ (s.role = "restaurant" => s.ref \in vetted')
  BY <1>2, WindowsVetted, SoundStays
<1> QED BY <1>1, <1>2, <1>3, <1>4, <1>5, <1>6, <1>7, <1>8, <1>9 DEF Vetting

\* Customers order, restaurants that were approved are ordered from.
THEOREM RolesNeverMixed == Spec => []RightRoles
<1>1. Init => Identity /\ Vetting
  BY IdentityInit, VettingInit
<1>2. Identity /\ Vetting /\ [Next]_vars => (Identity /\ Vetting)'
  BY IdentityStep, VettingStep
<1>3. Vetting => RightRoles
  BY VettingImplies
<1> QED BY <1>1, <1>2, <1>3, PTL DEF Spec
=============================================================================
