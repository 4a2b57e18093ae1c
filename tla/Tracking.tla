------------------------------ MODULE Tracking ------------------------------
(***************************************************************************)
(* The life of an order after it was placed.  Restaurant dashboards        *)
(* (src/src/client/restaurantwindow.cpp, restaurant.cpp) and customer      *)
(* windows (client.cpp, profilepanel.cpp) write its status directly to the *)
(* shared SQLite file and mirror the write to the server, which writes it  *)
(* again and pushes it to all other sessions; every customer window that   *)
(* receives a push writes it a third time.                                 *)
(*                                                                         *)
(* A session is a process with one window.  Between two of its handlers    *)
(* `handling` is empty; a handler with several statements leaves there     *)
(* what it has written and still has to finish.  Orders are placed here by *)
(* the customer windows, which is how every order of this program is       *)
(* placed; the server's place_order is in module Ordering.                 *)
(***************************************************************************)
EXTENDS Integers, FiniteSets, Sequences, Functions

CONSTANTS
  Orders,         \* order ids
  Dashboards,     \* windows of the orders' restaurant
  Customers,      \* customer windows
  Mine,           \* the orders of the user of each customer window
  WalletOrders,   \* the orders to be paid from the wallet
  Network,        \* whether there is a server to connect to
  Restarts,       \* whether connections break and processes end
  MaxQueue        \* bound: unread messages of a session

Sessions == Dashboards \cup Customers

Statuses == {"pending", "confirmed", "shipped", "delivered", "cancelled"}

ASSUME TrackingAssumption ==
  /\ Dashboards \cap Customers = {}
  /\ Mine \in [Customers -> SUBSET Orders]
  /\ WalletOrders \subseteq Orders
  /\ Network \in BOOLEAN /\ Restarts \in BOOLEAN
  /\ MaxQueue \in Nat
  /\ IsFiniteSet(Orders)

VARIABLES
  status,     \* orders.status; "none" before the row exists
  reached,    \* history: the statuses the row has held
  reviews,    \* number of rows of an order in `reviews`, and its review_submitted
  board,      \* m_orders of each dashboard; "none" for an order it does not list
  panel,      \* the order page of each customer window, at most one
  tracker,    \* the tracker dialog of each customer window, at most one
  handling,   \* what the running handler of a session has written, at most one
  conn,       \* the socket of a session: "new", "online", "lost"
  outbox,     \* commands a session has sent and the server has not read
  inbox,      \* pushes a customer window has not read
  broken      \* history: a connection has broken

rows == <<status, reached, reviews>>
screens == <<board, panel, tracker>>
network == <<conn, outbox, inbox, broken>>
vars == <<rows, screens, handling, network>>

Update == [order : Orders, status : Statuses]
Review == [order : Orders, status : {"review"}]
View == [order : Orders, status : Statuses, reviewed : BOOLEAN]

\* Only the five statuses of orderstatus.h are ever stored, shown or sent; a review
\* is no status (the server validates what it is sent before it stores it).
TypeOK ==
  /\ status \in [Orders -> Statuses \cup {"none"}]
  /\ reached \in [Orders -> SUBSET Statuses]
  /\ reviews \in [Orders -> Nat]
  /\ board \in [Dashboards -> [Orders -> Statuses \cup {"none"}]]
  /\ panel \in [Customers -> SUBSET View]
  /\ tracker \in [Customers -> SUBSET Update]
  /\ handling \in [Sessions -> SUBSET Update]
  /\ conn \in [Sessions -> {"new", "online", "lost"}]
  /\ outbox \in [Sessions -> Seq(Update \cup Review)]
  /\ inbox \in [Customers -> Seq(Update)]
  /\ broken \in BOOLEAN

Init ==
  /\ status = [o \in Orders |-> "none"]
  /\ reached = [o \in Orders |-> {}]
  /\ reviews = [o \in Orders |-> 0]
  /\ board = [r \in Dashboards |-> [o \in Orders |-> "none"]]
  /\ panel = [c \in Customers |-> {}]
  /\ tracker = [c \in Customers |-> {}]
  /\ handling = [s \in Sessions |-> {}]
  /\ conn = [s \in Sessions |-> "new"]
  /\ outbox = [s \in Sessions |-> <<>>]
  /\ inbox = [c \in Customers |-> <<>>]
  /\ broken = FALSE

-----------------------------------------------------------------------------
(***************************************************************************)
(* Statements on the shared file.                                          *)
(***************************************************************************)

Placed == {o \in Orders : status[o] # "none"}

Write(u) ==
  /\ status' = [status EXCEPT ![u.order] = u.status]
  /\ reached' = [reached EXCEPT ![u.order] = @ \cup {u.status}]

\* updateOrderStatus writes any valid status over any other; only a missing
\* row is refused.
UpdateOrderStatus(u) == u.order \in Placed /\ Write(u) /\ UNCHANGED reviews

\* Mutation: the table takes any number of reviews of an order.
Unreviewed_NotUnique(o) == reviews[o] \in Nat

\* reviews.order_id is UNIQUE.
Unreviewed(o) == reviews[o] = 0

InsertReview(o) ==
  reviews' = IF Unreviewed(o) THEN [reviews EXCEPT ![o] = @ + 1] ELSE reviews

(***************************************************************************)
(* Sessions.  A handler begins when the one before it has ended.           *)
(***************************************************************************)

Idle(s) == handling[s] = {}

Begin(s, u) == handling' = [handling EXCEPT ![s] = {u}]
End(s) == handling' = [handling EXCEPT ![s] = {}]

\* NetworkManager::sendJson: without a connection the message is dropped.
SendJson(s, m) ==
  /\ outbox' = IF conn[s] = "online" THEN [outbox EXCEPT ![s] = Append(@, m)]
                                     ELSE outbox
  /\ UNCHANGED <<conn, inbox, broken>>

\* Bound: nobody acts on an order while MaxQueue commands of theirs are unread.
Room(s) == Len(outbox[s]) < MaxQueue

Track(c, u) == tracker' = [tracker EXCEPT ![c] = {u}]

\* Checkout: the row of a cash order is final at once, a wallet order waits
\* for its payment.  The tracker opens with the constant "pending".
PlaceOrder(c, o) ==
  LET u == [order |-> o, status |-> "pending"] IN
  /\ Idle(c) /\ o \in Mine[c] /\ o \notin Placed
  /\ Write(u)
  /\ IF o \in WalletOrders THEN Begin(c, u) /\ UNCHANGED tracker
                           ELSE Track(c, u) /\ UNCHANGED handling
  /\ UNCHANGED <<reviews, board, panel, network>>

PaymentSucceeds(c) ==
  /\ \E u \in handling[c] : u.status = "pending" /\ Track(c, u)
  /\ End(c)
  /\ UNCHANGED <<rows, board, panel, network>>

\* A refused payment cancels the order in the file and tells nobody.
PaymentRefused(c) ==
  /\ \E u \in handling[c] :
        /\ u.status = "pending"
        /\ UpdateOrderStatus([order |-> u.order, status |-> "cancelled"])
  /\ End(c)
  /\ UNCHANGED <<screens, network>>

-----------------------------------------------------------------------------
(***************************************************************************)
(* The dashboard.                                                          *)
(***************************************************************************)

LoadOrders(r) == board' = [board EXCEPT ![r] = status]

Listed(r) == {o \in Orders : board[r][o] # "none"}

\* checkForNewData, every five seconds: reload if there are more rows.
CheckForNewData(r) ==
  /\ Idle(r)
  /\ Cardinality(Placed) > Cardinality(Listed(r))
  /\ LoadOrders(r)
  /\ UNCHANGED <<rows, panel, tracker, handling, network>>

\* Mutation: an order can be confirmed that is not waiting any more.
ConfirmEnabled_Cancelled(r, o) == board[r][o] \in {"pending", "cancelled"}

\* The buttons are enabled by the status the dashboard last loaded.
ConfirmEnabled(r, o) == board[r][o] = "pending"
ShipEnabled(r, o) == board[r][o] = "confirmed"

ConfirmOrder(r, o) ==
  LET u == [order |-> o, status |-> "confirmed"] IN
  /\ Idle(r) /\ Room(r) /\ ConfirmEnabled(r, o)
  /\ UpdateOrderStatus(u) /\ Begin(r, u)
  /\ UNCHANGED <<screens, network>>

\* Mutation: shipping reloads the list but is not mirrored.
ShipOrder_Unmirrored(r, o) ==
  /\ Idle(r) /\ Room(r) /\ ShipEnabled(r, o)
  /\ UpdateOrderStatus([order |-> o, status |-> "shipped"])
  /\ board' = [board EXCEPT ![r] = status']
  /\ UNCHANGED <<panel, tracker, handling, network>>

ShipOrder(r, o) ==
  LET u == [order |-> o, status |-> "shipped"] IN
  /\ Idle(r) /\ Room(r) /\ ShipEnabled(r, o)
  /\ UpdateOrderStatus(u) /\ Begin(r, u)
  /\ UNCHANGED <<screens, network>>

\* The second half of both: reload the list, then mirror the update.
MirrorUpdate(r) ==
  /\ \E u \in handling[r] : SendJson(r, u)
  /\ LoadOrders(r)
  /\ End(r)
  /\ UNCHANGED <<rows, panel, tracker>>

-----------------------------------------------------------------------------
(***************************************************************************)
(* The customer's order page.                                              *)
(***************************************************************************)

Page(o) == [order |-> o, status |-> status[o], reviewed |-> ~Unreviewed(o)]

LoadOrderDetails(c, o) ==
  /\ o \in Placed
  /\ panel' = [panel EXCEPT ![c] = {Page(o)}]
  /\ UNCHANGED <<board, tracker>>

OpenOrder(c, o) ==
  /\ Idle(c) /\ o \in Mine[c]
  /\ LoadOrderDetails(c, o)
  /\ UNCHANGED <<rows, handling, network>>

\* Mutation: the page always offers to confirm the delivery.
CanConfirmDelivery_Always(v) == v.status \in Statuses

\* The page offers what the status it was loaded with allows.
CanConfirmDelivery(v) == v.status = "shipped"
CanReview(v) == v.status = "delivered" /\ ~v.reviewed

MarkOrderDelivered(c) ==
  /\ Idle(c) /\ Room(c)
  /\ \E v \in panel[c] :
       LET u == [order |-> v.order, status |-> "delivered"] IN
       /\ CanConfirmDelivery(v)
       /\ UpdateOrderStatus(u) /\ SendJson(c, u) /\ Begin(c, u)
  /\ UNCHANGED screens

\* The end of markOrderDelivered: the page is loaded again.
RefreshPage(c) ==
  /\ \E u \in handling[c] : u.status = "delivered" /\ LoadOrderDetails(c, u.order)
  /\ End(c)
  /\ UNCHANGED <<rows, network>>

\* A review that the table refuses changes nothing, on the page neither.
SubmitReview(c) ==
  /\ Idle(c) /\ Room(c)
  /\ \E v \in panel[c] :
        /\ CanReview(v) /\ Unreviewed(v.order)
        /\ InsertReview(v.order)
        /\ SendJson(c, [order |-> v.order, status |-> "review"])
        /\ panel' = [panel EXCEPT ![c] = {[v EXCEPT !.reviewed = TRUE]}]
  /\ UNCHANGED <<status, reached, board, tracker, handling>>

-----------------------------------------------------------------------------
(***************************************************************************)
(* The server and the connections.                                         *)
(***************************************************************************)

Online(s) == conn[s] = "online"

\* broadcastExcept.  A dashboard only redraws what it has loaded.
Push(s, u) ==
  inbox' = [c \in Customers |-> IF c # s /\ Online(c) THEN Append(inbox[c], u)
                                                      ELSE inbox[c]]

HandleUpdate(s) ==
  LET u == Head(outbox[s]) IN
  /\ u \in Update
  /\ UpdateOrderStatus(u)
  /\ Push(s, u)

HandleReview(s) ==
  LET m == Head(outbox[s]) IN
  /\ m \in Review
  /\ InsertReview(m.order)
  /\ UNCHANGED <<status, reached, inbox>>

\* One line of session s is read and executed.
ProcessCommand(s) ==
  /\ outbox[s] # <<>>
  /\ \A c \in Customers : Len(inbox[c]) < MaxQueue
  /\ HandleUpdate(s) \/ HandleReview(s)
  /\ outbox' = [outbox EXCEPT ![s] = Tail(@)]
  /\ UNCHANGED <<screens, handling, conn, broken>>

\* A customer window writes every pushed status back to the file, whoever's
\* order it is, and shows it.
OnOrderStatusUpdated(c) ==
  /\ Idle(c) /\ inbox[c] # <<>>
  /\ UpdateOrderStatus(Head(inbox[c])) /\ Track(c, Head(inbox[c]))
  /\ inbox' = [inbox EXCEPT ![c] = Tail(@)]
  /\ UNCHANGED <<board, panel, handling, conn, outbox, broken>>

\* A window connects when it opens, and only then.
Connect(s) ==
  /\ Network /\ conn[s] = "new"
  /\ conn' = [conn EXCEPT ![s] = "online"]
  /\ UNCHANGED <<rows, screens, handling, outbox, inbox, broken>>

\* What the peer has not read may be lost from some point on.
Disconnect(s) ==
  /\ Restarts /\ Online(s)
  /\ conn' = [conn EXCEPT ![s] = "lost"]
  /\ broken' = TRUE
  /\ \E n \in 0 .. Len(outbox[s]) : outbox' = [outbox EXCEPT ![s] = SubSeq(@, 1, n)]
  /\ inbox' = [c \in Customers |-> IF c = s THEN <<>> ELSE inbox[c]]
  /\ UNCHANGED <<rows, screens, handling>>

\* The process ends, in the middle of a handler or not, and the user opens a
\* new window.  (Bound: not before the server has read the old connection.)
Restart(s) ==
  /\ Restarts /\ ~Online(s) /\ outbox[s] = <<>>
  /\ conn' = [conn EXCEPT ![s] = "new"]
  /\ End(s)
  /\ board' = IF s \in Dashboards THEN [board EXCEPT ![s] = status] ELSE board
  /\ panel' = [c \in Customers |-> IF c = s THEN {} ELSE panel[c]]
  /\ tracker' = [c \in Customers |-> IF c = s THEN {} ELSE tracker[c]]
  /\ UNCHANGED <<rows, outbox, inbox, broken>>

-----------------------------------------------------------------------------
Dashboard(r) ==
  \/ CheckForNewData(r) \/ MirrorUpdate(r)
  \/ \E o \in Orders : ConfirmOrder(r, o) \/ ShipOrder(r, o)

Customer(c) ==
  \/ PaymentSucceeds(c) \/ PaymentRefused(c)
  \/ MarkOrderDelivered(c) \/ RefreshPage(c) \/ SubmitReview(c)
  \/ OnOrderStatusUpdated(c)
  \/ \E o \in Orders : PlaceOrder(c, o) \/ OpenOrder(c, o)

Connection(s) == ProcessCommand(s) \/ Connect(s) \/ Disconnect(s) \/ Restart(s)

Next ==
  \/ \E r \in Dashboards : Dashboard(r)
  \/ \E c \in Customers : Customer(c)
  \/ \E s \in Sessions : Connection(s)

Spec == Init /\ [][Next]_vars

-----------------------------------------------------------------------------
(***************************************************************************)
(* Properties.                                                             *)
(***************************************************************************)

\* The stages as one machine that may fall back but never leaps ahead.
Lifecycle == INSTANCE OrderLifecycle WITH Replays <- TRUE

\* However stale the screens and however late the mirrored updates are, an
\* order only enters the stage that follows one it has been in: the dashboards
\* and panels of this module implement OrderLifecycle with replays.
OneStageAtATime == Lifecycle!Spec

\* With one dashboard, without a server and for orders paid in cash the stages
\* are the documented machine: nothing is mirrored, and the screen that confirms
\* and ships is never behind the file in a way that matters.
DocumentedMachine == INSTANCE OrderLifecycle WITH Replays <- FALSE
Canonical == DocumentedMachine!Spec

\* A copy of u has still to be sent or stored by somebody.
OnItsWay(u) ==
  \/ \E s \in Sessions : u \in handling[s] \cup Range(outbox[s])
  \/ \E c \in Customers : u \in Range(inbox[c])

\* A push that is stored late can set a shipped order back to confirmed
\* (client.cpp:245), but not for good: with one dashboard, and as long as no
\* connection breaks, the shipping is then still on its way to somebody who will
\* store it.  (Of "delivered" this is not true.)
ShippingIsRestored ==
  ~broken =>
    \A o \in Orders :
      status[o] = "confirmed" /\ "shipped" \in reached[o] =>
        OnItsWay([order |-> o, status |-> "shipped"])

\* The payment was refused, nobody has confirmed the order, and no dashboard
\* lists it as it was before.
OutOfReach(o) ==
  /\ status[o] = "cancelled" /\ "confirmed" \notin reached[o]
  /\ \A r \in Dashboards : board[r][o] # "pending"

\* A cancelled order can be confirmed by a dashboard that has listed it before it
\* was cancelled (client.cpp:190), and only so: once it is out of reach, no list,
\* mirrored update, stored push or new window ever brings it back.
CancelledStaysCancelled ==
  [][\A o \in Orders : OutOfReach(o) => OutOfReach(o)']_vars

\* The order has held the status that u names.
Held(u) == u.status \in reached[u.order]

\* No screen shows and no message carries a status that its order has not held:
\* the dashboard and the pushes may be late but they invent nothing.
NothingInvented ==
  /\ \A o \in Placed : status[o] \in reached[o]
  /\ \A r \in Dashboards : \A o \in Listed(r) : board[r][o] \in reached[o]
  /\ \A c \in Customers : \A u \in panel[c] \cup tracker[c] \cup Range(inbox[c]) : Held(u)
  /\ \A s \in Sessions : \A u \in handling[s] \cup (Range(outbox[s]) \ Review) : Held(u)

\* An order is reviewed at most once, and only after it was delivered: the
\* review page of two windows, and the copy of the review that the server
\* inserts again, do not add a second one (profilepanel.cpp:331, PROTOCOL.md:153).
\* The copy is only sent for a review that is in the table.
ReviewsAreEarned ==
  /\ \A o \in Orders : /\ reviews[o] <= 1
                       /\ reviews[o] = 1 => "delivered" \in reached[o]
  /\ \A s \in Sessions : \A m \in Range(outbox[s]) \cap Review : reviews[m.order] = 1

=============================================================================
