----------------------------- MODULE Dashboard -----------------------------
(***************************************************************************)
(* A restaurant's window and its copy of the orders (restaurant.cpp,       *)
(* restaurantwindow.cpp).  Tracking takes the reading of the orders as one *)
(* step; it is not one.  A poll that finds more orders than the last list  *)
(* had announces them in a modal box in the middle of loadOrdersFromDB,    *)
(* and while the box is open the window's events go on: a push redraws the *)
(* table, and inside the box of a button's reload the poll loads again and *)
(* opens a second box.  Inside its own box the poll does not fire: Qt does *)
(* not enter a timer's slot that is still running.  The inner box closes   *)
(* first, and the rest of a load is executed when its box is closed.       *)
(***************************************************************************)
EXTENDS Naturals, FiniteSets, Sequences

CONSTANT Orders   \* orders of the restaurant

DashboardAssumption == IsFiniteSet(Orders)
ASSUME DashboardAssumption

VARIABLES
  rows,      \* orders.status; "none" before there is a row, "deleted" after
  list,      \* m_orders: the status of each order on the list, "none" for the others
  last,      \* m_lastOrderCount
  table,     \* m_ordersTable, as list
  due,       \* a poll or a handler is about to call loadOrdersFromDB
  boxes,     \* how many newOrderReceived boxes are open: of a poll or a handler,
             \* or of a poll inside that of a handler
  unsent,    \* the status a button's handler has written and not yet sent, at most one
  notice,    \* the handler's own message box is open
  written,   \* history: the statuses written by the buttons
  sent,      \* and those handed to sendJson
  known      \* history: the orders listed at the start or when a box opened

history == <<written, sent, known>>
updating == <<unsent, notice, written, sent>>
dashboardVars == <<rows, list, last, table, due, boxes, unsent, notice, history>>

Gone == {"none", "deleted"}

\* getOrdersForRestaurant.
Selected == [o \in Orders |-> IF rows[o] \in Gone THEN "none" ELSE rows[o]]
Listed(l) == {o \in Orders : l[o] # "none"}
Count(l) == Cardinality(Listed(l))

\* The constructor loads before the window is connected: no box.
DashboardInit ==
  /\ rows \in [Orders -> {"none", "pending"}]
  /\ list = Selected
  /\ table = Selected
  /\ last = Count(Selected)
  /\ due = FALSE
  /\ boxes = 0
  /\ unsent = {}
  /\ notice = FALSE
  /\ written = <<>>
  /\ sent = <<>>
  /\ known = Listed(Selected)
-----------------------------------------------------------------------------
(***************************************************************************)
(* Other processes: a checkout, and an administrator who deletes the       *)
(* customer of an order, and the order with them.                          *)
(***************************************************************************)
CreateNewOrder(o) ==
  /\ rows[o] = "none"
  /\ rows' = [rows EXCEPT ![o] = "pending"]
  /\ UNCHANGED <<list, last, table, due, boxes, unsent, notice, history>>

DeleteUserOf(o) ==
  /\ rows[o] \notin Gone
  /\ rows' = [rows EXCEPT ![o] = "deleted"]
  /\ UNCHANGED <<list, last, table, due, boxes, unsent, notice, history>>
-----------------------------------------------------------------------------
(***************************************************************************)
(* The poll and the load.                                                  *)
(***************************************************************************)
\* A box of the poll's own is open, in the middle of its slot: not only the one that a
\* handler opens before its update is sent.
Polling == boxes > Cardinality(unsent)

CheckForNewData ==
  /\ ~due
  /\ ~Polling
  /\ Count(Selected) > last
  /\ due' = TRUE
  /\ UNCHANGED <<rows, list, last, table, boxes, unsent, notice, history>>

\* The handler that called the load goes on: the update is sent, a notice is shown.
HandlerGoesOn ==
  /\ unsent' = {}
  /\ notice' = TRUE
  /\ \E u \in unsent : sent' = Append(sent, u)
  /\ UNCHANGED written

\* The count is not brought up to date after the box.
EndOfLoad_KeepsCount(n) ==
  /\ UNCHANGED last
  /\ table' = list'
  /\ boxes' = n
  /\ IF n = 0 /\ unsent # {} THEN HandlerGoesOn ELSE UNCHANGED updating

\* The count is taken from the file and not from the list.
EndOfLoad_CountsRows(n) ==
  /\ last' = Count(Selected)
  /\ table' = list'
  /\ boxes' = n
  /\ IF n = 0 /\ unsent # {} THEN HandlerGoesOn ELSE UNCHANGED updating

\* The last lines of loadOrdersFromDB; n boxes of earlier loads are still open.
EndOfLoad(n) ==
  /\ last' = Count(list')
  /\ table' = list'
  /\ boxes' = n
  /\ IF n = 0 /\ unsent # {} THEN HandlerGoesOn ELSE UNCHANGED updating

Load == due /\ due' = FALSE /\ list' = Selected /\ UNCHANGED rows

\* One order more is not enough.
News_OffByOne == Count(list') > last + 1

News == Count(list') > last

LoadQuietly ==
  /\ Load
  /\ ~News
  /\ EndOfLoad(boxes)
  /\ UNCHANGED known

LoadAndAnnounce ==
  /\ Load
  /\ News
  /\ boxes' = boxes + 1
  /\ known' = known \cup Listed(list')
  /\ UNCHANGED <<last, table, updating>>

\* The innermost box.
CloseBox ==
  /\ ~due
  /\ boxes > 0
  /\ UNCHANGED <<rows, list, due, known>>
  /\ EndOfLoad(boxes - 1)

\* A push arrives: the table is drawn again from the list as it is.
UpdateOrdersView ==
  /\ ~due
  /\ table' = list
  /\ UNCHANGED <<rows, list, last, due, boxes, unsent, notice, history>>
-----------------------------------------------------------------------------
(***************************************************************************)
(* The buttons.                                                            *)
(***************************************************************************)
\* The boxes do not block the window.
Idle_Modeless == ~due /\ ~notice

\* Nothing can be pressed while a message box is open.
Idle == ~due /\ ~notice /\ boxes = 0

\* updateOrderStatus: the row is written, the list read again, the update sent; a row
\* that is gone is reported.
UpdateOrderStatus(o, s) ==
  LET u == [order |-> o, status |-> s] IN
  /\ Idle
  /\ IF rows[o] \in Gone
       THEN notice' = TRUE /\ UNCHANGED <<rows, due, unsent, written>>
       ELSE /\ rows' = [rows EXCEPT ![o] = s]
            /\ due' = TRUE
            /\ unsent' = {u}
            /\ written' = Append(written, u)
            /\ UNCHANGED notice
  /\ UNCHANGED <<list, last, table, boxes, sent, known>>

ConfirmOrder(o) == table[o] = "pending" /\ UpdateOrderStatus(o, "confirmed")
ShipOrder(o) == table[o] = "confirmed" /\ UpdateOrderStatus(o, "shipped")

CloseNotice ==
  /\ ~due
  /\ notice
  /\ boxes = 0
  /\ notice' = FALSE
  /\ UNCHANGED <<rows, list, last, table, due, boxes, unsent, history>>
-----------------------------------------------------------------------------
DashboardNext ==
  \/ \E o \in Orders : CreateNewOrder(o) \/ DeleteUserOf(o)
  \/ CheckForNewData \/ LoadQuietly \/ LoadAndAnnounce
  \/ CloseBox \/ UpdateOrdersView \/ CloseNotice
  \/ \E o \in Orders : ConfirmOrder(o) \/ ShipOrder(o)

\* The timer fires for ever and a load that is due is executed; nobody has to close a
\* box, and no push has to come.
DashboardSpec ==
  /\ DashboardInit /\ [][DashboardNext]_dashboardVars
  /\ WF_dashboardVars(CheckForNewData)
  /\ WF_dashboardVars(LoadQuietly \/ LoadAndAnnounce)
-----------------------------------------------------------------------------

\* Only the stages of an order are stored, listed and sent; a list has no deleted ones.
DashboardTypeOK ==
  LET Stage == {"pending", "confirmed", "shipped"}
      Update == [order : Orders, status : Stage]
  IN  /\ rows \in [Orders -> Stage \cup Gone]
      /\ list \in [Orders -> Stage \cup {"none"}] /\ table \in [Orders -> Stage \cup {"none"}]
      /\ last \in Nat /\ boxes \in 0..2
      /\ due \in BOOLEAN /\ notice \in BOOLEAN
      /\ written \in Seq(Update) /\ sent \in Seq(Update)
      /\ unsent \subseteq Update /\ known \subseteq Orders

\* What other sessions are told of is what the restaurant did, in its order, however many
\* boxes open and close in the middle of a handler: at most the last step is still to be
\* sent, and only while a box is open or a load is due (restaurantwindow.cpp:359).
MirrorsInOrder ==
  /\ unsent = {} => sent = written
  /\ \A u \in unsent : written = Append(sent, u) /\ (boxes > 0 \/ due)

\* Counting orders to find new ones misses some: an order may come to the list without a
\* box when another was deleted.  But every order missed is paid for by a deleted one
\* (restaurant.cpp:121, :130).
UnannouncedArePaidFor ==
  Cardinality(Listed(list) \ known) <= Cardinality({o \in Orders : rows[o] = "deleted"})

\* A box that opens when no other is open has news: it lists an order that was not there
\* when the window or any earlier box opened.  A poll inside the box of a button's reload
\* repeats the same news, because the count is brought up to date after the box
\* (restaurant.cpp:122).
FreshBoxHasNews == [][boxes = 0 /\ boxes' = 1 => known' # known]_dashboardVars

\* Each order that is placed comes to the table, when none is ever deleted and the boxes
\* are all closed again and again: by the poll alone, also when no push arrives
\* (restaurant.cpp:127).
NewOrdersAreShown ==
  [](\A o \in Orders : rows[o] # "deleted") /\ []<>(boxes = 0) =>
    \A o \in Orders : [](rows[o] # "none" => <>(table[o] # "none"))
=============================================================================
