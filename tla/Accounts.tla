------------------------------ MODULE Accounts ------------------------------
(***************************************************************************)
(* The table `users` and everything that names a row of it by its id: the  *)
(* tables foods, orders, reviews and favorites                             *)
(* (src/src/common/databasehandler.cpp) and the windows that a launcher    *)
(* opened after a login (mainwindow.cpp, logindialog.cpp).  The clients    *)
(* work on the shared file directly; the server executes the commands of   *)
(* the admin panel and of the protocol.                                    *)
(*                                                                         *)
(* Two handlers read the table and write later, in a second statement:     *)
(* `signing` and `adding` hold what they have read.  Wherever an id is     *)
(* kept, the model also keeps the person it was meant for; the program has *)
(* no such field, it is there to be compared with the row of that id.      *)
(***************************************************************************)
EXTENDS Integers, FiniteSets, Sequences, Functions

CONSTANTS
  People,       \* who may register (bound: once each), with a password of their own
  Names,        \* user names
  Clients,      \* client processes
  Server,       \* the server process
  FirstUsers,   \* the rows of the file at the start, by id
  Faults        \* whether an UPDATE may fail

Processes == Clients \cup {Server}

Roles == {"customer", "restaurant"}

\* A row: `password` is whose password the stored string verifies, `owner` who
\* registered it.
User == [name : Names, password : People, owner : People,
         hash : {"sha256", "pbkdf2"}, role : Roles,
         active : BOOLEAN, approved : BOOLEAN]

\* An id, and whom it was meant for.
Ref == [id : Nat, person : People]
Order == [restaurant : Ref, customer : Ref]
Favorite == [user : Ref, restaurant : Ref]
\* A login between its SELECT and its UPDATE; the server has no dialog.
Signing == [ref : Ref, name : Names, role : Roles, dialog : Roles \cup {"none"}]

ASSUME AccountsAssumption ==
  /\ Server \notin Clients
  /\ Faults \in BOOLEAN
  /\ FirstUsers \in Seq(User)
  /\ \A i, j \in DOMAIN FirstUsers :
        /\ FirstUsers[i].name = FirstUsers[j].name => i = j
        /\ FirstUsers[i].password = FirstUsers[i].owner
        /\ FirstUsers[i].role = "customer" => FirstUsers[i].approved

VARIABLES
  users,        \* the rows by id
  lastId,       \* the row of `users` in sqlite_sequence
  registered,   \* who has an account or had one (bound)
  vetted,       \* history: the restaurants that have been approved, and so listed
  foods,        \* restaurant_id of the rows of `foods`
  orders,       \* restaurant_id and customer_id of the rows of `orders`
  reviews,      \* the orders with a row in `reviews`
  favorites,    \* the rows of `favorites`
  customer,     \* m_clientWindow of each client, at most one
  restaurant,   \* m_restaurantWindow of each client, at most one
  signedIn,     \* history: the last login accepted in restaurant mode
  signing,      \* the login a process is in the middle of, at most one
  adding        \* the restaurant whose food a process is about to insert

rows == <<foods, orders, reviews, favorites>>
windows == <<customer, restaurant, signedIn>>
jobs == <<signing, adding>>
accounts == <<users, lastId, registered, vetted>>
vars == <<accounts, rows, windows, jobs>>

\* Customers are approved when they register, and stay so.
TypeOK ==
  /\ users \in [DOMAIN users -> User]
  /\ lastId \in Nat
  /\ DOMAIN users \subseteq 1 .. lastId
  /\ \A i \in DOMAIN users : users[i].role = "customer" => users[i].approved
  /\ registered \subseteq People
  /\ vetted \subseteq Ref /\ foods \subseteq Ref
  /\ orders \subseteq Order /\ reviews \subseteq Order
  /\ favorites \subseteq Favorite
  /\ customer \in [Clients -> SUBSET Ref]
  /\ restaurant \in [Clients -> SUBSET Ref]
  /\ signedIn \in [Clients -> SUBSET Ref]
  /\ signing \in [Processes -> SUBSET Signing]
  /\ adding \in [Processes -> SUBSET Ref]

\* The reference that reading row i gives.
RefTo(i) == [id |-> i, person |-> users[i].owner]

Approved == {i \in DOMAIN users : users[i].role = "restaurant" /\ users[i].approved}

Init ==
  /\ users = FirstUsers
  /\ lastId = Len(FirstUsers)
  /\ registered = {users[i].owner : i \in DOMAIN users}
  /\ vetted = {RefTo(i) : i \in Approved}
  /\ foods = {} /\ orders = {} /\ reviews = {} /\ favorites = {}
  /\ customer = [c \in Clients |-> {}]
  /\ restaurant = [c \in Clients |-> {}]
  /\ signedIn = [c \in Clients |-> {}]
  /\ signing = [q \in Processes |-> {}]
  /\ adding = [q \in Processes |-> {}]

\* What FOREIGN KEY(...) REFERENCES users(id) asks of an inserted id.
Exists(r) == r.id \in DOMAIN users

\* users.username is UNIQUE.
NameFree(n, i) == \A j \in DOMAIN users \ {i} : users[j].name # n

\* A process executes one handler at a time.
Idle(q) == signing[q] = {} /\ adding[q] = {}

-----------------------------------------------------------------------------
(***************************************************************************)
(* Registration and login.                                                 *)
(***************************************************************************)

\* Mutation: the next id is one more than the largest that is in use.
NewId_Reused == CHOOSE i \in 1 .. lastId + 1 :
  i \notin DOMAIN users /\ \A j \in DOMAIN users : j < i

\* AUTOINCREMENT never gives an id twice, not even that of a deleted row.
NewId == lastId + 1

\* Restaurants wait for the admin, customers do not.
NewUser(p, n, role) ==
  [name |-> n, password |-> p, owner |-> p, hash |-> "pbkdf2", role |-> role,
   active |-> TRUE, approved |-> role = "customer"]

Register(p, n, role) ==
  /\ p \notin registered /\ NameFree(n, NewId)
  /\ users' = [j \in DOMAIN users \cup {NewId} |->
                 IF j = NewId THEN NewUser(p, n, role) ELSE users[j]]
  /\ lastId' = NewId
  /\ registered' = registered \cup {p}
  /\ UNCHANGED <<vetted, rows, windows, jobs>>

\* Mutation: the dialog lets every role in.
RoleFits_Always(s) == s.dialog # "none"

\* A dialog accepts the accounts of its own role.
RoleFits(s) == s.role = s.dialog

\* The launcher keeps the window of the same customer and replaces any other.
ShowCustomer(c, s) ==
  /\ customer' = IF \E r \in customer[c] : r.id = s.ref.id
                 THEN customer ELSE [customer EXCEPT ![c] = {s.ref}]
  /\ UNCHANGED <<restaurant, signedIn>>

\* It creates a dashboard only if it has none; nothing destroys the one it has.
ShowRestaurant(c, s) ==
  /\ restaurant' = IF restaurant[c] = {} THEN [restaurant EXCEPT ![c] = {s.ref}]
                                         ELSE restaurant
  /\ signedIn' = [signedIn EXCEPT ![c] = {s.ref}]
  /\ UNCHANGED customer

\* What follows an authenticated login; the server only answers.
Accept(q, s) ==
  \/ s.dialog = "customer" /\ RoleFits(s) /\ ShowCustomer(q, s)
  \/ s.dialog = "restaurant" /\ RoleFits(s) /\ ShowRestaurant(q, s)
  \/ ~RoleFits(s) /\ UNCHANGED windows

Dialogs(q) == IF q = Server THEN {"none"} ELSE Roles

\* The SELECT and the verification: p has typed the name of row i and a password.
LoginUser(q, i, p, dialog) ==
  LET u == users[i]
      s == [ref |-> [id |-> i, person |-> p], name |-> u.name, role |-> u.role,
            dialog |-> dialog]
  IN /\ Idle(q)
     /\ u.active /\ u.approved /\ u.password = p
     /\ \/ /\ u.hash = "sha256"
           /\ signing' = [signing EXCEPT ![q] = {s}]
           /\ UNCHANGED windows
        \/ u.hash = "pbkdf2" /\ Accept(q, s) /\ UNCHANGED signing
     /\ UNCHANGED <<accounts, rows, adding>>

\* Mutation: the row is found by the name again.
Rehash_ByName(s, i) == users[i].name = s.name

\* WHERE id = :id
Rehash(s, i) == i = s.ref.id

\* The stored string of a login with a SHA-256 digest is replaced.
Upgrade(q) ==
  /\ \E s \in signing[q] :
        /\ users' = [i \in DOMAIN users |->
                       IF Rehash(s, i)
                       THEN [users[i] EXCEPT !.password = s.ref.person, !.hash = "pbkdf2"]
                       ELSE users[i]]
        /\ Accept(q, s)
  /\ signing' = [signing EXCEPT ![q] = {}]
  /\ UNCHANGED <<lastId, registered, vetted, rows, adding>>

\* The login succeeds even so.
UpgradeFails(q) ==
  /\ Faults
  /\ \E s \in signing[q] : Accept(q, s)
  /\ signing' = [signing EXCEPT ![q] = {}]
  /\ UNCHANGED <<accounts, rows, adding>>

UpdateUserDetails(i, n) ==
  /\ i \in DOMAIN users /\ NameFree(n, i)
  /\ users' = [users EXCEPT ![i].name = n]
  /\ UNCHANGED <<lastId, registered, vetted, rows, windows, jobs>>

-----------------------------------------------------------------------------
(***************************************************************************)
(* Rows that name users.  What is clicked on may be old: a list of         *)
(* restaurants, a menu or a cart shows whom it was filled with.            *)
(***************************************************************************)

\* The first statement of addFoodItem.
ValidateRestaurant(q, r) ==
  /\ Idle(q) /\ r.id \in Approved
  /\ adding' = [adding EXCEPT ![q] = {r}]
  /\ UNCHANGED <<accounts, rows, windows, signing>>

\* The second one: the key refuses a restaurant deleted in between.
InsertFood(q) ==
  /\ adding[q] # {}
  /\ foods' = foods \cup {r \in adding[q] : Exists(r)}
  /\ adding' = [adding EXCEPT ![q] = {}]
  /\ UNCHANGED <<accounts, orders, reviews, favorites, windows, signing>>

\* The last food of a restaurant goes.
DeleteFoodItem(r) ==
  /\ foods' = foods \ {r}
  /\ UNCHANGED <<accounts, orders, reviews, favorites, windows, jobs>>

\* The checkout of a customer window; the same INSERT for a remote caller is
\* part of Ordering.
CreateNewOrder(c, r) ==
  /\ Idle(c)
  /\ \E u \in customer[c] :
        /\ Exists(u) /\ Exists(r)
        /\ orders' = orders \cup {[restaurant |-> r, customer |-> u]}
  /\ UNCHANGED <<accounts, foods, reviews, favorites, windows, jobs>>

\* The history lists the orders of the window's id; an order that is gone
\* takes no review.
SubmitReview(c, o) ==
  /\ Idle(c)
  /\ \E u \in customer[c] : o.customer.id = u.id
  /\ reviews' = reviews \cup {o}
  /\ UNCHANGED <<accounts, foods, orders, favorites, windows, jobs>>

\* restaurant_id of favorites has no foreign key, user_id has.
ToggleFavorite(c, r) ==
  /\ Idle(c)
  /\ \E u \in customer[c] :
       LET fav == {f \in favorites : f.user.id = u.id /\ f.restaurant.id = r.id} IN
       favorites' = IF fav # {} THEN favorites \ fav
                    ELSE favorites \cup {f \in {[user |-> u, restaurant |-> r]} : Exists(u)}
  /\ UNCHANGED <<accounts, foods, orders, reviews, windows, jobs>>

-----------------------------------------------------------------------------
(***************************************************************************)
(* Commands of the admin panel, on the id of a row of its table, which may *)
(* be of any age: any id that was ever given.                              *)
(***************************************************************************)

SetActive(i, active) ==
  /\ i \in DOMAIN users
  /\ users' = [users EXCEPT ![i].active = active]
  /\ UNCHANGED <<lastId, registered, vetted, rows, windows, jobs>>

ApproveRestaurant(i) ==
  /\ i \in DOMAIN users /\ users[i].role = "restaurant"
  /\ users' = [users EXCEPT ![i].approved = TRUE]
  /\ vetted' = vetted \cup {RefTo(i)}
  /\ UNCHANGED <<lastId, registered, rows, windows, jobs>>

DisapproveRestaurant(i) ==
  /\ i \in DOMAIN users /\ users[i].role = "restaurant"
  /\ users' = [users EXCEPT ![i].approved = FALSE]
  /\ UNCHANGED <<lastId, registered, vetted, rows, windows, jobs>>

\* Mutation: foreign keys are not enforced (no PRAGMA on this connection).
DeleteUser_NoCascade(i) ==
  /\ i \in DOMAIN users
  /\ users' = Restrict(users, DOMAIN users \ {i})
  /\ UNCHANGED <<lastId, registered, vetted, rows, windows, jobs>>

\* ON DELETE CASCADE; reviews go with their order.
DeleteUser(i) ==
  /\ i \in DOMAIN users
  /\ users' = Restrict(users, DOMAIN users \ {i})
  /\ foods' = {r \in foods : r.id # i}
  /\ orders' = {o \in orders : o.restaurant.id # i /\ o.customer.id # i}
  /\ reviews' = reviews \cap orders'
  /\ favorites' = {f \in favorites : f.user.id # i}
  /\ UNCHANGED <<lastId, registered, vetted, windows, jobs>>

-----------------------------------------------------------------------------
\* The process ends, in the middle of a handler or not, and is started again.
Quit(c) ==
  /\ customer' = [customer EXCEPT ![c] = {}]
  /\ restaurant' = [restaurant EXCEPT ![c] = {}]
  /\ signedIn' = [signedIn EXCEPT ![c] = {}]
  /\ signing' = [signing EXCEPT ![c] = {}]
  /\ adding' = [adding EXCEPT ![c] = {}]
  /\ UNCHANGED <<accounts, rows>>

Process(q) ==
  \/ \E i \in DOMAIN users, p \in People, d \in Dialogs(q) : LoginUser(q, i, p, d)
  \/ Upgrade(q) \/ UpgradeFails(q) \/ InsertFood(q)

Client(c) ==
  \/ Quit(c)
  \/ \E r \in restaurant[c] : ValidateRestaurant(c, r)
  \/ \E r \in vetted : CreateNewOrder(c, r) \/ ToggleFavorite(c, r)
  \/ \E o \in orders : SubmitReview(c, o)
  \/ \E u \in customer[c], n \in Names : Idle(c) /\ UpdateUserDetails(u.id, n)

Admin(i) ==
  \/ \E active \in BOOLEAN : SetActive(i, active)
  \/ ApproveRestaurant(i) \/ DisapproveRestaurant(i) \/ DeleteUser(i)

ServerCommand ==
  /\ Idle(Server)
  /\ \/ \E i \in 1 .. lastId : Admin(i) \/ \E n \in Names : UpdateUserDetails(i, n)
     \/ \E r \in vetted : ValidateRestaurant(Server, r)

Next ==
  \/ \E p \in People, n \in Names, role \in Roles : Register(p, n, role)
  \/ \E q \in Processes : Process(q)
  \/ \E c \in Clients : Client(c)
  \/ \E r \in foods : DeleteFoodItem(r)
  \/ ServerCommand

Spec == Init /\ [][Next]_vars

-----------------------------------------------------------------------------
(***************************************************************************)
(* Properties.                                                             *)
(***************************************************************************)

\* Every reference to a user that is kept anywhere.
Refs ==
  vetted \cup foods
    \cup (UNION {{o.restaurant, o.customer} : o \in orders})
    \cup (UNION {{f.user, f.restaurant} : f \in favorites})
    \cup (UNION {customer[c] \cup restaurant[c] : c \in Clients})
    \cup (UNION {{s.ref : s \in signing[q]} \cup adding[q] : q \in Processes})

\* No id that a row, a window, a list or a running handler keeps ever comes to
\* name somebody else, although users are deleted under all of them: favorites
\* keep the ids of deleted restaurants (databasehandler.cpp:134), windows those
\* of deleted users.  For a window this includes that whoever signed in is the
\* one who registered the account.
StaleIdsNameNobodyElse ==
  \A r \in Refs : Exists(r) => users[r.id].owner = r.person

\* Deleting a user leaves no row behind that names them, whatever order, review
\* or food was being written at that moment.  Favorites of a deleted restaurant
\* are the exception, they have no key.
NoOrphans ==
  /\ \A r \in foods : Exists(r)
  /\ \A o \in orders : Exists(o.restaurant) /\ Exists(o.customer)
  /\ reviews \subseteq orders
  /\ \A f \in favorites : Exists(f.user)

\* Name and password of a person open that person's account and no other:
\* renamings, registrations and logins that re-hash a digest at the same time do
\* not lock anybody out or mix accounts up (databasehandler.cpp:317).
LoginFindsOwner ==
  \A i, j \in DOMAIN users :
     users[i].name = users[j].name => i = j /\ users[i].password = users[j].owner

HasRole(r, role) == Exists(r) => users[r.id].role = role

\* Customer windows belong to customers, dashboards and foods to restaurants
\* that the admin approved at some time, and an order joins one of each.
RightRoles ==
  /\ \A c \in Clients :
        /\ \A r \in customer[c] : HasRole(r, "customer")
        /\ \A r \in restaurant[c] : HasRole(r, "restaurant") /\ r \in vetted
  /\ \A r \in foods : HasRole(r, "restaurant") /\ r \in vetted
  /\ \A o \in orders : HasRole(o.restaurant, "restaurant") /\ HasRole(o.customer, "customer")

\* mainwindow.cpp:65 "One Restaurant session per login": the dashboard shown is
\* that of the restaurant that has just signed in.
RestaurantSessionPerLogin == \A c \in Clients : restaurant[c] = signedIn[c]
=============================================================================
