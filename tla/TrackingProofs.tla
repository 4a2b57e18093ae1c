--------------------------- MODULE TrackingProofs ---------------------------
(***************************************************************************)
(* Theorems about Tracking, for any number of sessions and orders.         *)
(***************************************************************************)
EXTENDS Tracking, SequenceTheorems, TLAPS

-----------------------------------------------------------------------------
(***************************************************************************)
(* What the queue operations do to the elements of a queue.                *)
(***************************************************************************)

\* A sent message is added to those that were in the queue.
LEMMA RangeOfAppend ==
  ASSUME NEW S, NEW q \in Seq(S), NEW m \in S
  PROVE  Append(q, m) \in Seq(S) /\ Range(Append(q, m)) = Range(q) \cup {m}
<1>1. /\ Append(q, m) \in Seq(S)
      /\ Len(Append(q, m)) = Len(q) + 1
      /\ \A i \in 1 .. Len(q) : Append(q, m)[i] = q[i]
      /\ Append(q, m)[Len(q) + 1] = m
  BY AppendProperties
<1>2. DOMAIN q = 1 .. Len(q) /\ Len(q) \in Nat
  BY LenProperties
<1>3. DOMAIN Append(q, m) = 1 .. (Len(q) + 1)
  BY <1>1, LenProperties
<1>4. QED
  BY <1>1, <1>2, <1>3 DEF Range

\* The first line that is read was in the queue, and the rest of it was too.
LEMMA RangeOfTail ==
  ASSUME NEW S, NEW q \in Seq(S), q # <<>>
  PROVE  /\ Tail(q) \in Seq(S) /\ Head(q) \in S
         /\ Head(q) \in Range(q) /\ Range(Tail(q)) \subseteq Range(q)
<1>1. /\ Tail(q) \in Seq(S) /\ Head(q) = q[1] /\ Head(q) \in S
      /\ Len(Tail(q)) = Len(q) - 1
      /\ \A i \in 1 .. Len(Tail(q)) : Tail(q)[i] = q[i + 1]
  BY HeadTailProperties
<1>2. DOMAIN q = 1 .. Len(q) /\ Len(q) \in Nat /\ Len(q) # 0
  BY LenProperties, EmptySeq
<1>3. DOMAIN Tail(q) = 1 .. (Len(q) - 1)
  BY <1>1, LenProperties
<1>4. QED
  BY <1>1, <1>2, <1>3 DEF Range

\* What survives of a broken connection was in the queue.
LEMMA RangeOfPrefix ==
  ASSUME NEW S, NEW q \in Seq(S), NEW n \in 0 .. Len(q)
  PROVE  SubSeq(q, 1, n) \in Seq(S) /\ Range(SubSeq(q, 1, n)) \subseteq Range(q)
<1>1. DOMAIN q = 1 .. Len(q) /\ Len(q) \in Nat
  BY LenProperties
<1>2. /\ SubSeq(q, 1, n) \in Seq(S) /\ Len(SubSeq(q, 1, n)) = n
      /\ \A i \in 1 .. n : SubSeq(q, 1, n)[i] = q[i]
  BY <1>1
<1>3. DOMAIN SubSeq(q, 1, n) = 1 .. n
  BY <1>2, LenProperties
<1>4. QED
  BY <1>1, <1>2, <1>3 DEF Range

-----------------------------------------------------------------------------
\* Initially every variable has its type.
LEMMA TypeInit == ASSUME TrackingAssumption, Init PROVE TypeOK
<1>1. <<>> \in Seq(Update \cup Review) /\ <<>> \in Seq(Update)
  BY EmptySeq
<1>2. QED
  BY <1>1 DEF Init, TypeOK

\* The messages that handlers make are updates of the order they are about.
LEMMA UpdateIsTyped ==
  ASSUME NEW o \in Orders, NEW s \in Statuses
  PROVE  LET u == [order |-> o, status |-> s] IN
           u \in Update /\ u.order = o /\ u.status = s
BY DEF Update

\* A write leaves the types of the rows as they are.
LEMMA WriteIsTyped ==
  ASSUME TypeOK, NEW u \in Update, Write(u)
  PROVE  /\ status' \in [Orders -> Statuses \cup {"none"}]
         /\ reached' \in [Orders -> SUBSET Statuses]
BY DEF TypeOK, Write, Update

\* Updates and copies of reviews are different messages.
LEMMA UpdatesAreNoReviews ==
  /\ Update \cap Review = {}
  /\ \A m \in Update \cup Review : m.order \in Orders
BY DEF Update, Review, Statuses

\* A sent message leaves the types of the network as they are.
LEMMA SendIsTyped ==
  ASSUME TypeOK, NEW s \in Sessions, NEW m \in Update \cup Review, SendJson(s, m)
  PROVE  outbox' \in [Sessions -> Seq(Update \cup Review)]
<1>1. outbox \in [Sessions -> Seq(Update \cup Review)] /\ outbox[s] \in Seq(Update \cup Review)
  BY DEF TypeOK
<1>2. Append(outbox[s], m) \in Seq(Update \cup Review)
  BY <1>1, RangeOfAppend
<1>3. QED
  BY <1>1, <1>2 DEF SendJson

\* Every step leaves every variable in its type.
LEMMA TypeStep == ASSUME TrackingAssumption, TypeOK, [Next]_vars PROVE TypeOK'
<1> USE UpdatesAreNoReviews, UpdateIsTyped DEF rows, screens, network
<1>t. /\ status \in [Orders -> Statuses \cup {"none"}]
      /\ reached \in [Orders -> SUBSET Statuses]
      /\ reviews \in [Orders -> Nat]
      /\ board \in [Dashboards -> [Orders -> Statuses \cup {"none"}]]
      /\ panel \in [Customers -> SUBSET View]
      /\ tracker \in [Customers -> SUBSET Update]
      /\ handling \in [Sessions -> SUBSET Update]
      /\ conn \in [Sessions -> {"new", "online", "lost"}]
      /\ outbox \in [Sessions -> Seq(Update \cup Review)]
      /\ inbox \in [Customers -> Seq(Update)]
      /\ broken \in BOOLEAN
  BY DEF TypeOK
<1>s. {"pending", "confirmed", "shipped", "delivered", "cancelled"} = Statuses
  BY DEF Statuses
<1>1. ASSUME NEW c \in Customers, NEW o \in Orders, PlaceOrder(c, o) PROVE TypeOK'
  <2> DEFINE u == [order |-> o, status |-> "pending"]
  <2>1. /\ Write(u) /\ UNCHANGED <<reviews, board, panel, network>>
        /\ \/ Begin(c, u) /\ UNCHANGED tracker
           \/ Track(c, u) /\ UNCHANGED handling
    BY <1>1 DEF PlaceOrder
  <2>2. u \in Update /\ c \in Sessions
    BY <1>s DEF Sessions
  <2> HIDE DEF u
  <2>3. handling' \in [Sessions -> SUBSET Update] /\ tracker' \in [Customers -> SUBSET Update]
    <3>1. handling \in [Sessions -> SUBSET Update] /\ tracker \in [Customers -> SUBSET Update]
      BY <1>t
    <3>2. CASE Begin(c, u) /\ UNCHANGED tracker
      BY <2>2, <3>1, <3>2 DEF Begin
    <3>3. CASE Track(c, u) /\ UNCHANGED handling
      BY <2>2, <3>1, <3>3 DEF Track
    <3>4. QED
      BY <2>1, <3>2, <3>3
  <2>4. QED
    BY <1>t, <2>1, <2>2, <2>3, WriteIsTyped DEF TypeOK
<1>2. ASSUME NEW c \in Customers, PaymentSucceeds(c) PROVE TypeOK'
  BY <1>t, <1>2 DEF PaymentSucceeds, End, Track, TypeOK, Sessions
<1>3. ASSUME NEW c \in Customers, PaymentRefused(c) PROVE TypeOK'
  <2>1. PICK u \in handling[c] : UpdateOrderStatus([order |-> u.order, status |-> "cancelled"])
    BY <1>3 DEF PaymentRefused
  <2>2. u.order \in Orders
    BY <1>t, <2>1 DEF Update, Sessions
  <2>4. [order |-> u.order, status |-> "cancelled"] \in Update
    BY <1>s, <2>2
  <2>3. QED
    BY <1>t, <1>3, <2>1, <2>4, WriteIsTyped
       DEF PaymentRefused, UpdateOrderStatus, End, TypeOK, Sessions
<1>4. ASSUME NEW r \in Dashboards, CheckForNewData(r) PROVE TypeOK'
  BY <1>t, <1>4 DEF CheckForNewData, LoadOrders, TypeOK
<1>5. ASSUME NEW r \in Dashboards, NEW o \in Orders, ConfirmOrder(r, o) PROVE TypeOK'
  BY <1>t, <1>s, <1>5, WriteIsTyped
     DEF ConfirmOrder, UpdateOrderStatus, Begin, TypeOK, Sessions
<1>6. ASSUME NEW r \in Dashboards, NEW o \in Orders, ShipOrder(r, o) PROVE TypeOK'
  BY <1>t, <1>s, <1>6, WriteIsTyped
     DEF ShipOrder, UpdateOrderStatus, Begin, TypeOK, Sessions
<1>7. ASSUME NEW r \in Dashboards, MirrorUpdate(r) PROVE TypeOK'
  <2>1. r \in Sessions
    BY DEF Sessions
  <2>2. PICK u \in handling[r] : SendJson(r, u)
    BY <1>7 DEF MirrorUpdate
  <2>3. outbox' \in [Sessions -> Seq(Update \cup Review)]
    BY <1>t, <2>1, <2>2, SendIsTyped
  <2>4. QED
    BY <1>t, <1>7, <2>1, <2>2, <2>3 DEF MirrorUpdate, SendJson, LoadOrders, End, TypeOK
<1>8. ASSUME NEW c \in Customers, NEW o \in Orders, OpenOrder(c, o) PROVE TypeOK'
  <2>1. Page(o) \in View
    BY <1>t, <1>8 DEF OpenOrder, LoadOrderDetails, Placed, Page, View
  <2>2. QED
    BY <1>t, <1>8, <2>1 DEF OpenOrder, LoadOrderDetails, TypeOK
<1>9. ASSUME NEW c \in Customers, MarkOrderDelivered(c) PROVE TypeOK'
  <2>1. PICK v \in panel[c] :
          LET u == [order |-> v.order, status |-> "delivered"] IN
          UpdateOrderStatus(u) /\ SendJson(c, u) /\ Begin(c, u)
    BY <1>9 DEF MarkOrderDelivered
  <2> DEFINE u == [order |-> v.order, status |-> "delivered"]
  <2>2. u \in Update /\ c \in Sessions
    BY <1>t, <1>s, <2>1 DEF View, Update, Sessions
  <2>3. Write(u) /\ SendJson(c, u) /\ Begin(c, u) /\ UNCHANGED reviews
    BY <2>1 DEF UpdateOrderStatus
  <2> HIDE DEF u
  <2>4. outbox' \in [Sessions -> Seq(Update \cup Review)]
    BY <2>2, <2>3, SendIsTyped
  <2>5. handling' \in [Sessions -> SUBSET Update]
    BY <1>t, <2>2, <2>3 DEF Begin
  <2>6. QED
    BY <1>t, <1>9, <2>2, <2>3, <2>4, <2>5, WriteIsTyped DEF MarkOrderDelivered, SendJson, TypeOK
<1>10. ASSUME NEW c \in Customers, RefreshPage(c) PROVE TypeOK'
  <2>1. PICK u \in handling[c] : LoadOrderDetails(c, u.order)
    BY <1>10 DEF RefreshPage
  <2>2. u.order \in Orders
    BY <1>t, <2>1 DEF Update, Sessions
  <2>3. Page(u.order) \in View
    BY <1>t, <2>1, <2>2 DEF LoadOrderDetails, Placed, Page, View
  <2>4. panel' \in [Customers -> SUBSET View] /\ UNCHANGED <<board, tracker>>
    BY <1>t, <2>1, <2>3 DEF LoadOrderDetails
  <2>5. handling' \in [Sessions -> SUBSET Update] /\ UNCHANGED <<rows, network>>
    BY <1>t, <1>10 DEF RefreshPage, End
  <2>6. QED
    BY <1>t, <2>4, <2>5 DEF TypeOK
<1>11. ASSUME NEW c \in Customers, SubmitReview(c) PROVE TypeOK'
  <2>1. PICK v \in panel[c] :
          /\ InsertReview(v.order)
          /\ SendJson(c, [order |-> v.order, status |-> "review"])
          /\ panel' = [panel EXCEPT ![c] = {[v EXCEPT !.reviewed = TRUE]}]
    BY <1>11 DEF SubmitReview
  <2>0. v \in View
    BY <1>t, <2>1
  <2>2. /\ v.order \in Orders /\ [v EXCEPT !.reviewed = TRUE] \in View
        /\ [order |-> v.order, status |-> "review"] \in Review
        /\ c \in Sessions
    BY <2>0 DEF View, Review, Sessions
  <2>3. outbox' \in [Sessions -> Seq(Update \cup Review)]
    BY <2>1, <2>2, SendIsTyped
  <2>4. panel' \in [Customers -> SUBSET View]
    BY <1>t, <2>1, <2>2
  <2>5. reviews' \in [Orders -> Nat]
    BY <1>t, <2>1, <2>2 DEF InsertReview
  <2>6. QED
    BY <1>t, <1>11, <2>1, <2>3, <2>4, <2>5 DEF SubmitReview, SendJson, TypeOK
<1>12. ASSUME NEW s \in Sessions, ProcessCommand(s) PROVE TypeOK'
  <2> DEFINE m == Head(outbox[s])
  <2>1. /\ Tail(outbox[s]) \in Seq(Update \cup Review) /\ m \in Update \cup Review
    BY <1>t, <1>12, RangeOfTail DEF ProcessCommand
  <2>2. outbox' \in [Sessions -> Seq(Update \cup Review)]
    BY <1>t, <1>12, <2>1 DEF ProcessCommand
  <2>3. CASE HandleUpdate(s)
    <3>1. m \in Update /\ Write(m) /\ UNCHANGED reviews /\ Push(s, m)
      BY <2>3 DEF HandleUpdate, UpdateOrderStatus
    <3> HIDE DEF m
    <3>2. \A c \in Customers : inbox[c] \in Seq(Update) /\ Append(inbox[c], m) \in Seq(Update)
      BY <1>t, <3>1, RangeOfAppend
    <3>3. inbox' \in [Customers -> Seq(Update)]
      BY <3>1, <3>2 DEF Push
    <3>4. QED
      BY <1>t, <1>12, <2>2, <3>1, <3>3, WriteIsTyped DEF ProcessCommand, TypeOK
  <2>4. CASE HandleReview(s)
    BY <1>t, <1>12, <2>2, <2>4 DEF ProcessCommand, HandleReview, InsertReview, TypeOK
  <2>5. QED
    BY <1>12, <2>3, <2>4 DEF ProcessCommand
<1>13. ASSUME NEW c \in Customers, OnOrderStatusUpdated(c) PROVE TypeOK'
  <2> DEFINE u == Head(inbox[c])
  <2>1. /\ inbox[c] \in Seq(Update) /\ inbox[c] # <<>>
        /\ Write(u) /\ Track(c, u) /\ UNCHANGED <<reviews, board, panel, handling, conn, outbox, broken>>
        /\ inbox' = [inbox EXCEPT ![c] = Tail(@)]
    BY <1>t, <1>13 DEF OnOrderStatusUpdated, UpdateOrderStatus
  <2>2. u \in Update /\ Tail(inbox[c]) \in Seq(Update)
    BY <2>1, RangeOfTail
  <2> HIDE DEF u
  <2>3. inbox' \in [Customers -> Seq(Update)]
    BY <1>t, <2>1, <2>2
  <2>4. QED
    BY <1>t, <2>1, <2>2, <2>3, WriteIsTyped DEF Track, TypeOK
<1>14. ASSUME NEW s \in Sessions, Connect(s) PROVE TypeOK'
  BY <1>t, <1>14 DEF Connect, TypeOK
<1>15. ASSUME NEW s \in Sessions, Disconnect(s) PROVE TypeOK'
  <2>1. PICK n \in 0 .. Len(outbox[s]) : outbox' = [outbox EXCEPT ![s] = SubSeq(@, 1, n)]
    BY <1>15 DEF Disconnect
  <2>2. outbox' \in [Sessions -> Seq(Update \cup Review)]
    BY <1>t, <2>1, RangeOfPrefix
  <2>3. inbox' \in [Customers -> Seq(Update)]
    BY <1>t, <1>15, EmptySeq DEF Disconnect
  <2>4. QED
    BY <1>t, <1>15, <2>2, <2>3 DEF Disconnect, TypeOK
<1>16. ASSUME NEW s \in Sessions, Restart(s) PROVE TypeOK'
  BY <1>t, <1>16 DEF Restart, End, TypeOK
<1>17. CASE UNCHANGED vars
  BY <1>17 DEF vars, TypeOK
<1>18. QED
  BY <1>1, <1>2, <1>3, <1>4, <1>5, <1>6, <1>7, <1>8, <1>9, <1>10, <1>11, <1>12, <1>13,
     <1>14, <1>15, <1>16, <1>17 DEF Next, Dashboard, Customer, Connection

\* TypeOK is an invariant of every instance of Tracking.
THEOREM TypeCorrect == ASSUME TrackingAssumption PROVE Spec => []TypeOK
<1>1. Init => TypeOK
  BY TypeInit
<1>2. TypeOK /\ [Next]_vars => TypeOK'
  BY TypeStep
<1>3. QED
  BY <1>1, <1>2, PTL DEF Spec

-----------------------------------------------------------------------------
(***************************************************************************)
(* Stages.  A session acts on what it was shown or told; since that was    *)
(* true once, the stage it enters follows one the order has been in.       *)
(***************************************************************************)

StageInv == TypeOK /\ NothingInvented

\* Writing an update enters its stage.
LEMMA WriteEnters ==
  ASSUME NEW o, NEW s, Write([order |-> o, status |-> s])
  PROVE  Lifecycle!Enter(o, s)
BY DEF Write, Lifecycle!Enter

\* Writing a status that the order has held is a replay.
LEMMA WriteReplays ==
  ASSUME NEW u \in Update, Write(u), Held(u)
  PROVE  \E o \in Orders : Lifecycle!Replay(o)
<1>1. u.order \in Orders /\ u.status \in Lifecycle!Stages
  BY DEF Update, Statuses, Lifecycle!Stages
<1>2. Lifecycle!Replay(u.order)
  BY <1>1 DEF Held, Write, Lifecycle!Replay, Lifecycle!Enter
<1>3. QED
  BY <1>1, <1>2

\* Writing the stage that follows a held one is a replay as well.
LEMMA WriteFollows ==
  ASSUME NEW o \in Orders, NEW s \in Statuses, Write([order |-> o, status |-> s]),
         Lifecycle!Before[s] \in reached[o]
  PROVE  \E p \in Orders : Lifecycle!Replay(p)
<1>1. Lifecycle!Enter(o, s) /\ s \in Lifecycle!Stages
  BY WriteEnters DEF Statuses, Lifecycle!Stages
<1>2. Lifecycle!Replay(o)
  BY <1>1 DEF Lifecycle!Replay
<1>3. QED
  BY <1>2

\* Which stage precedes which, spelled out for the provers.
LEMMA StageOrder ==
  /\ Lifecycle!Before["pending"] = "none"
  /\ Lifecycle!Before["confirmed"] = "pending"
  /\ Lifecycle!Before["shipped"] = "confirmed"
  /\ Lifecycle!Before["delivered"] = "shipped"
  /\ Lifecycle!Before["cancelled"] = "pending"
BY DEF Lifecycle!Before, Lifecycle!Stages

\* Every step of Tracking is a step of OrderLifecycle, or does not touch a status.
LEMMA LifecycleStep ==
  ASSUME TrackingAssumption, StageInv, [Next]_vars
  PROVE  [Lifecycle!Next]_(Lifecycle!vars)
<1> DEFINE Replays == \E p \in Orders : Lifecycle!Replay(p)
<1> DEFINE Same == UNCHANGED <<status, reached>>
<1> USE StageOrder DEF rows, screens, network
<1>t. TypeOK /\ NothingInvented
  BY DEF StageInv
<1>s. {"pending", "confirmed", "shipped", "delivered", "cancelled"} = Statuses
  BY DEF Statuses
<1>a. Replays => Lifecycle!Next
  BY DEF Lifecycle!Next
<1>b. Same => UNCHANGED Lifecycle!vars
  BY DEF Lifecycle!vars
<1> SUFFICES Replays \/ Same \/ Lifecycle!Next
  BY <1>a, <1>b
<1> HIDE DEF Replays
<1>1. ASSUME NEW c \in Customers, NEW o \in Orders, PlaceOrder(c, o) PROVE Lifecycle!Next
  <2>1. Lifecycle!Enter(o, "pending") /\ status[o] = "none"
    BY <1>1, WriteEnters DEF PlaceOrder, Placed
  <2>2. Lifecycle!Advance(o)
    BY <2>1 DEF Lifecycle!Advance, Lifecycle!Stages
  <2>3. QED
    BY <2>2 DEF Lifecycle!Next
<1>2. ASSUME NEW c \in Customers, PaymentRefused(c) PROVE Replays
  <2>1. PICK u \in handling[c] :
          u.status = "pending" /\ Write([order |-> u.order, status |-> "cancelled"])
    BY <1>2 DEF PaymentRefused, UpdateOrderStatus
  <2>2. c \in Sessions /\ u \in Update /\ "pending" \in reached[u.order]
    BY <1>t, <2>1 DEF TypeOK, Sessions, NothingInvented, Held
  <2>3. u.order \in Orders
    BY <2>2 DEF Update
  <2>4. QED
    BY <1>s, <2>1, <2>2, <2>3, WriteFollows DEF Replays
<1>3. ASSUME NEW r \in Dashboards, NEW o \in Orders, ConfirmOrder(r, o) PROVE Replays
  <2>1. board[r][o] = "pending" /\ Write([order |-> o, status |-> "confirmed"])
    BY <1>3 DEF ConfirmOrder, ConfirmEnabled, UpdateOrderStatus
  <2>2. "pending" \in reached[o]
    BY <1>t, <2>1 DEF NothingInvented, Listed
  <2>3. QED
    BY <1>s, <2>1, <2>2, WriteFollows DEF Replays
<1>4. ASSUME NEW r \in Dashboards, NEW o \in Orders, ShipOrder(r, o) PROVE Replays
  <2>1. board[r][o] = "confirmed" /\ Write([order |-> o, status |-> "shipped"])
    BY <1>4 DEF ShipOrder, ShipEnabled, UpdateOrderStatus
  <2>2. "confirmed" \in reached[o]
    BY <1>t, <2>1 DEF NothingInvented, Listed
  <2>3. QED
    BY <1>s, <2>1, <2>2, WriteFollows DEF Replays
<1>5. ASSUME NEW c \in Customers, MarkOrderDelivered(c) PROVE Replays
  <2>1. PICK v \in panel[c] :
          v.status = "shipped" /\ Write([order |-> v.order, status |-> "delivered"])
    BY <1>5 DEF MarkOrderDelivered, CanConfirmDelivery, UpdateOrderStatus
  <2>2. v \in View /\ "shipped" \in reached[v.order]
    BY <1>t, <2>1 DEF TypeOK, NothingInvented, Held
  <2>3. v.order \in Orders
    BY <2>2 DEF View
  <2>4. QED
    BY <1>s, <2>1, <2>2, <2>3, WriteFollows DEF Replays
<1>6. ASSUME NEW s \in Sessions, HandleUpdate(s), outbox[s] # <<>> PROVE Replays
  <2>1. Head(outbox[s]) \in Range(outbox[s])
    BY <1>t, <1>6, RangeOfTail DEF TypeOK
  <2>2. Head(outbox[s]) \in Update /\ Write(Head(outbox[s]))
    BY <1>6 DEF HandleUpdate, UpdateOrderStatus
  <2>3. Held(Head(outbox[s]))
    BY <1>t, <2>1, <2>2, UpdatesAreNoReviews DEF NothingInvented
  <2>4. QED
    BY <2>2, <2>3, WriteReplays DEF Replays
<1>7. ASSUME NEW s \in Sessions, ProcessCommand(s) PROVE Replays \/ Same
  BY <1>6, <1>7 DEF ProcessCommand, HandleReview
<1>8. ASSUME NEW c \in Customers, OnOrderStatusUpdated(c) PROVE Replays
  <2>1. inbox[c] # <<>> /\ Write(Head(inbox[c]))
    BY <1>8 DEF OnOrderStatusUpdated, UpdateOrderStatus
  <2>2. Head(inbox[c]) \in Range(inbox[c]) /\ Head(inbox[c]) \in Update
    BY <1>t, <2>1, RangeOfTail DEF TypeOK
  <2>3. Held(Head(inbox[c]))
    BY <1>t, <2>2 DEF NothingInvented
  <2>4. QED
    BY <2>1, <2>2, <2>3, WriteReplays DEF Replays
<1>9. ASSUME NEW c \in Customers,
             \/ PaymentSucceeds(c) \/ RefreshPage(c) \/ SubmitReview(c)
             \/ \E o \in Orders : OpenOrder(c, o)
      PROVE  Same
  BY <1>9 DEF PaymentSucceeds, RefreshPage, SubmitReview, OpenOrder
<1>10. ASSUME NEW r \in Dashboards, CheckForNewData(r) \/ MirrorUpdate(r) PROVE Same
  BY <1>10 DEF CheckForNewData, MirrorUpdate
<1>11. ASSUME NEW s \in Sessions, Connect(s) \/ Disconnect(s) \/ Restart(s) PROVE Same
  BY <1>11 DEF Connect, Disconnect, Restart
<1>12. CASE UNCHANGED vars
  BY <1>12 DEF vars
<1>13. QED
  BY <1>1, <1>2, <1>3, <1>4, <1>5, <1>7, <1>8, <1>9, <1>10, <1>11, <1>12
     DEF Next, Dashboard, Customer, Connection

\* A step of OrderLifecycle forgets no stage, and the order has been in the
\* stage it is in.
LEMMA StagesAreKept ==
  ASSUME TypeOK, NothingInvented, [Lifecycle!Next]_(Lifecycle!vars)
  PROVE  /\ \A o \in Orders : reached[o] \subseteq reached'[o]
         /\ \A o \in Placed' : status'[o] \in reached'[o]
<1>1. ASSUME NEW o \in Orders, NEW s, Lifecycle!Enter(o, s)
      PROVE  /\ \A p \in Orders : reached[p] \subseteq reached'[p]
             /\ \A p \in Placed' : status'[p] \in reached'[p]
  BY <1>1 DEF TypeOK, NothingInvented, Placed, Lifecycle!Enter
<1>2. CASE Lifecycle!Next
  BY <1>1, <1>2 DEF Lifecycle!Next, Lifecycle!Advance, Lifecycle!Replay
<1>3. CASE UNCHANGED Lifecycle!vars
  BY <1>3 DEF NothingInvented, Placed, Lifecycle!vars
<1>4. QED
  BY <1>2, <1>3

\* The parts of NothingInvented, one for each place where a status is kept.
BoardHeld == \A r \in Dashboards : \A o \in Listed(r) : board[r][o] \in reached[o]
PanelHeld == \A c \in Customers : \A v \in panel[c] : Held(v)
TrackerHeld == \A c \in Customers : \A u \in tracker[c] : Held(u)
InboxHeld == \A c \in Customers : \A u \in Range(inbox[c]) : Held(u)
HandlingHeld == \A s \in Sessions : \A u \in handling[s] : Held(u)
OutboxHeld == \A s \in Sessions : \A u \in Range(outbox[s]) \ Review : Held(u)

\* NothingInvented, one kind of copy at a time.
LEMMA HeldParts ==
  NothingInvented <=> /\ \A o \in Placed : status[o] \in reached[o]
                      /\ BoardHeld /\ PanelHeld /\ TrackerHeld /\ InboxHeld
                      /\ HandlingHeld /\ OutboxHeld
BY DEF NothingInvented, BoardHeld, PanelHeld, TrackerHeld, InboxHeld, HandlingHeld, OutboxHeld

\* Where nothing is changed nothing becomes wrong, because stages are kept.
LEMMA HeldStays ==
  ASSUME TypeOK, NothingInvented, \A o \in Orders : reached[o] \subseteq reached'[o]
  PROVE  /\ UNCHANGED board => BoardHeld'
         /\ UNCHANGED panel => PanelHeld'
         /\ UNCHANGED tracker => TrackerHeld'
         /\ UNCHANGED inbox => InboxHeld'
         /\ UNCHANGED handling => HandlingHeld'
         /\ UNCHANGED outbox => OutboxHeld'
         /\ \A u \in Update \cup View : Held(u) => Held(u)'
<1>1. \A u \in Update \cup Review \cup View : u.order \in Orders
  BY DEF Update, Review, View
<1>2. \A u \in Update \cup Review \cup View : Held(u) => Held(u)'
  BY <1>1 DEF Held
<1>3. \A c \in Customers : inbox[c] \in Seq(Update) /\ Range(inbox[c]) \subseteq Update
  BY RangeOfSeq DEF TypeOK
<1>4. \A s \in Sessions : /\ outbox[s] \in Seq(Update \cup Review)
                          /\ Range(outbox[s]) \subseteq Update \cup Review
  BY RangeOfSeq DEF TypeOK
<1>5. UNCHANGED board => BoardHeld'
  BY HeldParts DEF BoardHeld, Listed
<1>6. UNCHANGED panel => PanelHeld'
  BY <1>2, HeldParts DEF TypeOK, PanelHeld
<1>7. UNCHANGED tracker => TrackerHeld'
  BY <1>2, HeldParts DEF TypeOK, TrackerHeld
<1>8. UNCHANGED inbox => InboxHeld'
  BY <1>2, <1>3, HeldParts DEF InboxHeld
<1>9. UNCHANGED handling => HandlingHeld'
  BY <1>2, HeldParts DEF TypeOK, HandlingHeld
<1>10. UNCHANGED outbox => OutboxHeld'
  BY <1>2, <1>4, HeldParts DEF OutboxHeld
<1>11. QED
  BY <1>2, <1>5, <1>6, <1>7, <1>8, <1>9, <1>10

\* After a write the order has held the status that was written.
LEMMA WriteHolds ==
  ASSUME TypeOK, NEW u \in Update, Write(u)
  PROVE  Held(u)'
BY DEF TypeOK, Write, Held, Update

\* Sending an update that the order has held, or a copy of a review.
LEMMA SendHolds ==
  ASSUME TypeOK, NEW s \in Sessions, NEW m \in Update \cup Review, SendJson(s, m),
         \A x \in Sessions : \A u \in Range(outbox[x]) \ Review : Held(u)',
         m \in Review \/ Held(m)'
  PROVE  OutboxHeld'
<1>1. outbox[s] \in Seq(Update \cup Review) /\ outbox \in [Sessions -> Seq(Update \cup Review)]
  BY DEF TypeOK
<1>2. Range(Append(outbox[s], m)) = Range(outbox[s]) \cup {m}
  BY <1>1, RangeOfAppend
<1>3. CASE outbox' = outbox
  BY <1>3 DEF OutboxHeld
<1>4. CASE outbox' = [outbox EXCEPT ![s] = Append(@, m)]
  <2>1. \A x \in Sessions : Range(outbox'[x]) \subseteq Range(outbox[x]) \cup {m}
    BY <1>1, <1>2, <1>4
  <2>2. QED
    BY <2>1 DEF OutboxHeld
<1>5. QED
  BY <1>3, <1>4 DEF SendJson

\* Every step leaves screens and messages with stages the orders have been in.
LEMMA StageStep ==
  ASSUME TrackingAssumption, StageInv, [Next]_vars
  PROVE  NothingInvented'
<1> USE DEF rows, screens, network
<1>t. TypeOK /\ NothingInvented /\ TypeOK'
  BY TypeStep DEF StageInv
<1>k. /\ \A o \in Orders : reached[o] \subseteq reached'[o]
      /\ \A o \in Placed' : status'[o] \in reached'[o]
  BY <1>t, LifecycleStep, StagesAreKept
<1>u. /\ UNCHANGED board => BoardHeld'
      /\ UNCHANGED panel => PanelHeld'
      /\ UNCHANGED tracker => TrackerHeld'
      /\ UNCHANGED inbox => InboxHeld'
      /\ UNCHANGED handling => HandlingHeld'
      /\ UNCHANGED outbox => OutboxHeld'
      /\ \A u \in Update \cup View : Held(u) => Held(u)'
  BY <1>t, <1>k, HeldStays
<1>h. /\ BoardHeld /\ PanelHeld /\ TrackerHeld /\ InboxHeld /\ HandlingHeld /\ OutboxHeld
  BY <1>t, HeldParts
<1>i. \A c \in Customers : /\ inbox[c] \in Seq(Update)
                           /\ \A u \in Range(inbox[c]) : Held(u)'
  BY <1>t, <1>u, <1>h, RangeOfSeq DEF TypeOK, InboxHeld
<1>o. \A s \in Sessions : /\ outbox[s] \in Seq(Update \cup Review)
                          /\ \A u \in Range(outbox[s]) \ Review : Held(u)'
  <2>1. \A s \in Sessions : outbox[s] \in Seq(Update \cup Review)
    BY <1>t DEF TypeOK
  <2>2. \A s \in Sessions : Range(outbox[s]) \subseteq Update \cup Review
    BY <2>1, RangeOfSeq
  <2>3. QED
    BY <1>u, <1>h, <2>1, <2>2 DEF OutboxHeld
<1>c. Customers \subseteq Sessions /\ Dashboards \subseteq Sessions
  BY DEF Sessions
<1>g. /\ \A s \in Sessions : \A u \in handling[s] : u \in Update /\ Held(u)'
      /\ \A s \in Sessions : End(s) => HandlingHeld'
      /\ \A s \in Sessions : \A u \in Update : Begin(s, u) /\ Held(u)' => HandlingHeld'
  <2>1. \A s \in Sessions : \A u \in handling[s] : u \in Update /\ Held(u)'
    BY <1>t, <1>u, <1>h DEF TypeOK, HandlingHeld
  <2>2. ASSUME NEW s \in Sessions, NEW S, handling' = [handling EXCEPT ![s] = S],
               \A u \in S : Held(u)'
        PROVE  HandlingHeld'
    BY <1>t, <2>1, <2>2 DEF TypeOK, HandlingHeld
  <2>3. QED
    BY <2>1, <2>2 DEF End, Begin
<1>r. \A c \in Customers : \A u \in Update : Track(c, u) /\ Held(u)' => TrackerHeld'
  BY <1>t, <1>u, <1>h DEF TypeOK, Track, TrackerHeld
<1>l. ASSUME NEW r \in Dashboards, LoadOrders(r), UNCHANGED rows PROVE BoardHeld'
  BY <1>t, <1>k, <1>h, <1>l DEF TypeOK, LoadOrders, BoardHeld, Listed, Placed
<1>p. ASSUME NEW c \in Customers, NEW o \in Orders, LoadOrderDetails(c, o), UNCHANGED rows
      PROVE  PanelHeld'
  <2>1. Held(Page(o))'
    BY <1>k, <1>p DEF LoadOrderDetails, Page, Held, Placed
  <2>2. Page(o)' = Page(o)
    BY <1>p DEF Page, Unreviewed
  <2>3. panel' = [panel EXCEPT ![c] = {Page(o)}]
    BY <1>p DEF LoadOrderDetails
  <2>4. QED
    BY <1>t, <1>u, <1>h, <2>1, <2>2, <2>3 DEF TypeOK, PanelHeld
<1> SUFFICES BoardHeld' /\ PanelHeld' /\ TrackerHeld' /\ InboxHeld' /\ HandlingHeld' /\ OutboxHeld'
  BY <1>k DEF NothingInvented, BoardHeld, PanelHeld, TrackerHeld, InboxHeld, HandlingHeld, OutboxHeld
<1> DEFINE Kept == BoardHeld' /\ PanelHeld' /\ TrackerHeld' /\ InboxHeld' /\ HandlingHeld' /\ OutboxHeld'
<1>1. ASSUME NEW c \in Customers, NEW o \in Orders, PlaceOrder(c, o) PROVE Kept
  <2> DEFINE u == [order |-> o, status |-> "pending"]
  <2>1. u \in Update
    BY UpdateIsTyped DEF Statuses
  <2>2. /\ Write(u) /\ UNCHANGED <<reviews, board, panel, network>>
        /\ (Begin(c, u) /\ UNCHANGED tracker) \/ (Track(c, u) /\ UNCHANGED handling)
    BY <1>1 DEF PlaceOrder
  <2> HIDE DEF u
  <2>3. Held(u)'
    BY <1>t, <2>1, <2>2, WriteHolds
  <2>4. QED
    BY <1>u, <1>g, <1>r, <1>c, <2>1, <2>2, <2>3
<1>2. ASSUME NEW c \in Customers, PaymentSucceeds(c) PROVE Kept
  BY <1>2, <1>u, <1>g, <1>r, <1>c DEF PaymentSucceeds
<1>3. ASSUME NEW c \in Customers, PaymentRefused(c) PROVE Kept
  BY <1>3, <1>u, <1>g, <1>c DEF PaymentRefused
<1>4. ASSUME NEW r \in Dashboards, CheckForNewData(r) PROVE Kept
  BY <1>4, <1>u, <1>l DEF CheckForNewData
<1>5. ASSUME NEW r \in Dashboards, NEW o \in Orders, NEW s \in Statuses,
             LET u == [order |-> o, status |-> s]
             IN  Write(u) /\ Begin(r, u) /\ UNCHANGED <<screens, network>>
      PROVE  Kept
  <2> DEFINE u == [order |-> o, status |-> s]
  <2>1. u \in Update /\ Write(u) /\ Begin(r, u) /\ UNCHANGED <<screens, network>>
    BY <1>5, UpdateIsTyped
  <2> HIDE DEF u
  <2>2. Held(u)'
    BY <1>t, <2>1, WriteHolds
  <2>3. QED
    BY <1>u, <1>g, <1>c, <2>1, <2>2
<1>6. ASSUME NEW r \in Dashboards, NEW o \in Orders, ConfirmOrder(r, o) \/ ShipOrder(r, o)
      PROVE  Kept
  <2>1. "confirmed" \in Statuses /\ "shipped" \in Statuses
    BY DEF Statuses
  <2>2. CASE ConfirmOrder(r, o)
    BY <1>5, <2>1, <2>2 DEF ConfirmOrder, UpdateOrderStatus
  <2>3. CASE ShipOrder(r, o)
    BY <1>5, <2>1, <2>3 DEF ShipOrder, UpdateOrderStatus
  <2>4. QED
    BY <1>6, <2>2, <2>3
<1>7. ASSUME NEW r \in Dashboards, MirrorUpdate(r) PROVE Kept
  <2>1. PICK u \in handling[r] : SendJson(r, u)
    BY <1>7 DEF MirrorUpdate
  <2>2. u \in Update /\ Held(u)'
    BY <1>g, <1>c, <2>1
  <2>3. OutboxHeld'
    BY <1>t, <1>o, <1>c, <2>1, <2>2, SendHolds
  <2>4. UNCHANGED <<panel, tracker, inbox>> /\ End(r) /\ LoadOrders(r) /\ UNCHANGED rows
    BY <1>7, <2>1 DEF MirrorUpdate, SendJson
  <2>5. QED
    BY <1>u, <1>g, <1>c, <1>l, <2>3, <2>4
<1>8. ASSUME NEW c \in Customers, NEW o \in Orders, OpenOrder(c, o) PROVE Kept
  <2>1. LoadOrderDetails(c, o) /\ UNCHANGED <<rows, handling, network>>
    BY <1>8 DEF OpenOrder
  <2>2. UNCHANGED <<board, tracker>>
    BY <2>1 DEF LoadOrderDetails
  <2>3. QED
    BY <1>u, <1>p, <2>1, <2>2
<1>9. ASSUME NEW c \in Customers, MarkOrderDelivered(c) PROVE Kept
  <2>1. PICK v \in panel[c] :
          LET u == [order |-> v.order, status |-> "delivered"] IN
          UpdateOrderStatus(u) /\ SendJson(c, u) /\ Begin(c, u)
    BY <1>9 DEF MarkOrderDelivered
  <2> DEFINE u == [order |-> v.order, status |-> "delivered"]
  <2>2. v.order \in Orders /\ "delivered" \in Statuses
    BY <1>t, <2>1 DEF TypeOK, View, Statuses
  <2>3. u \in Update /\ Write(u) /\ SendJson(c, u) /\ Begin(c, u) /\ UNCHANGED screens
    BY <1>9, <2>1, <2>2, UpdateIsTyped DEF UpdateOrderStatus, MarkOrderDelivered
  <2> HIDE DEF u
  <2>4. Held(u)' /\ UNCHANGED inbox
    BY <1>t, <2>3, WriteHolds DEF SendJson
  <2>5. OutboxHeld'
    BY <1>t, <1>o, <1>c, <2>3, <2>4, SendHolds
  <2>6. QED
    BY <1>u, <1>g, <1>c, <2>3, <2>4, <2>5
<1>10. ASSUME NEW c \in Customers, RefreshPage(c) PROVE Kept
  <2>1. PICK u \in handling[c] : LoadOrderDetails(c, u.order)
    BY <1>10 DEF RefreshPage
  <2>2. u.order \in Orders
    BY <1>g, <1>c, <2>1 DEF Update
  <2>3. End(c) /\ UNCHANGED <<rows, network>> /\ UNCHANGED <<board, tracker>>
    BY <1>10, <2>1 DEF RefreshPage, LoadOrderDetails
  <2>4. QED
    BY <1>u, <1>g, <1>c, <1>p, <2>1, <2>2, <2>3
<1>11. ASSUME NEW c \in Customers, SubmitReview(c) PROVE Kept
  <2>1. PICK v \in panel[c] :
          /\ SendJson(c, [order |-> v.order, status |-> "review"])
          /\ panel' = [panel EXCEPT ![c] = {[v EXCEPT !.reviewed = TRUE]}]
    BY <1>11 DEF SubmitReview
  <2>2. v \in View /\ Held(v)'
    BY <1>t, <1>u, <1>h, <2>1 DEF TypeOK, PanelHeld
  <2>3. [order |-> v.order, status |-> "review"] \in Review
    BY <2>2 DEF View, Review
  <2>4. OutboxHeld'
    BY <1>t, <1>o, <1>c, <2>1, <2>3, SendHolds
  <2>5. [v EXCEPT !.reviewed = TRUE].order = v.order /\ [v EXCEPT !.reviewed = TRUE].status = v.status
    BY <2>2 DEF View
  <2>6. PanelHeld'
    BY <1>t, <1>u, <1>h, <2>1, <2>2, <2>5 DEF TypeOK, PanelHeld, Held
  <2>7. UNCHANGED <<board, tracker, handling, inbox>>
    BY <1>11, <2>1 DEF SubmitReview, SendJson
  <2>8. QED
    BY <1>u, <2>4, <2>6, <2>7
<1>12. ASSUME NEW s \in Sessions, ProcessCommand(s) PROVE Kept
  <2>1. /\ outbox[s] # <<>> /\ outbox' = [outbox EXCEPT ![s] = Tail(@)]
        /\ UNCHANGED <<screens, handling>>
    BY <1>12 DEF ProcessCommand
  <2>2. Range(Tail(outbox[s])) \subseteq Range(outbox[s])
    BY <1>o, <2>1, RangeOfTail
  <2>3. OutboxHeld'
    BY <1>t, <1>o, <2>1, <2>2 DEF TypeOK, OutboxHeld
  <2>4. CASE HandleUpdate(s)
    <3>1. PICK m \in Update : m = Head(outbox[s]) /\ Write(m) /\ Push(s, m)
      BY <2>4 DEF HandleUpdate, UpdateOrderStatus
    <3>2. Held(m)'
      BY <1>t, <3>1, WriteHolds
    <3>3. \A c \in Customers : Range(Append(inbox[c], m)) = Range(inbox[c]) \cup {m}
      BY <1>i, <3>1, RangeOfAppend
    <3>4. InboxHeld'
      BY <1>i, <3>1, <3>2, <3>3 DEF Push, InboxHeld
    <3>5. QED
      BY <1>u, <2>1, <2>3, <3>4
  <2>5. CASE HandleReview(s)
    BY <1>u, <2>1, <2>3, <2>5 DEF HandleReview
  <2>6. QED
    BY <1>12, <2>4, <2>5 DEF ProcessCommand
<1>13. ASSUME NEW c \in Customers, OnOrderStatusUpdated(c) PROVE Kept
  <2>1. /\ inbox[c] # <<>> /\ Track(c, Head(inbox[c]))
        /\ UNCHANGED <<board, panel, handling, outbox>>
        /\ inbox' = [inbox EXCEPT ![c] = Tail(@)]
    BY <1>13 DEF OnOrderStatusUpdated
  <2>2. PICK u \in Update : u = Head(inbox[c]) /\ u \in Range(inbox[c])
    BY <1>i, <2>1, RangeOfTail
  <2>r. Range(Tail(inbox[c])) \subseteq Range(inbox[c])
    BY <1>i, <2>1, RangeOfTail
  <2>3. Held(u)'
    BY <1>i, <2>2
  <2>4. InboxHeld'
    BY <1>t, <1>i, <2>1, <2>r DEF TypeOK, InboxHeld
  <2>5. QED
    BY <1>u, <1>r, <2>1, <2>2, <2>3, <2>4
<1>14. ASSUME NEW s \in Sessions, Connect(s) PROVE Kept
  BY <1>14, <1>u DEF Connect
<1>15. ASSUME NEW s \in Sessions, Disconnect(s) PROVE Kept
  <2>1. PICK n \in 0 .. Len(outbox[s]) : outbox' = [outbox EXCEPT ![s] = SubSeq(@, 1, n)]
    BY <1>15 DEF Disconnect
  <2>2. Range(SubSeq(outbox[s], 1, n)) \subseteq Range(outbox[s])
    BY <1>o, <2>1, RangeOfPrefix
  <2>3. OutboxHeld'
    BY <1>t, <1>o, <2>1, <2>2 DEF TypeOK, OutboxHeld
  <2>4. inbox' = [c \in Customers |-> IF c = s THEN <<>> ELSE inbox[c]]
    BY <1>15 DEF Disconnect
  <2>5. Range(<<>>) = {}
    BY DEF Range
  <2>6. InboxHeld'
    BY <1>i, <2>4, <2>5 DEF InboxHeld
  <2>7. QED
    BY <1>15, <1>u, <2>3, <2>6 DEF Disconnect
<1>16. ASSUME NEW s \in Sessions, Restart(s) PROVE Kept
  <2>1. /\ board' = IF s \in Dashboards THEN [board EXCEPT ![s] = status] ELSE board
        /\ panel' = [c \in Customers |-> IF c = s THEN {} ELSE panel[c]]
        /\ tracker' = [c \in Customers |-> IF c = s THEN {} ELSE tracker[c]]
        /\ End(s) /\ UNCHANGED <<rows, outbox, inbox>>
    BY <1>16 DEF Restart
  <2>2. BoardHeld'
    BY <1>u, <1>l, <2>1 DEF LoadOrders
  <2>3. PanelHeld'
    BY <1>t, <1>u, <1>h, <2>1 DEF TypeOK, PanelHeld
  <2>4. TrackerHeld'
    BY <1>t, <1>u, <1>h, <2>1 DEF TypeOK, TrackerHeld
  <2>5. QED
    BY <1>u, <1>g, <2>1, <2>2, <2>3, <2>4
<1>17. CASE UNCHANGED vars
  BY <1>17, <1>u DEF vars
<1>18. QED
  BY <1>1, <1>2, <1>3, <1>4, <1>6, <1>7, <1>8, <1>9, <1>10, <1>11, <1>12, <1>13,
     <1>14, <1>15, <1>16, <1>17 DEF Next, Dashboard, Customer, Connection

\* Initially no order has been in any stage and nothing is shown or carried.
LEMMA StageInit == ASSUME TrackingAssumption, Init PROVE StageInv
<1>1. TypeOK
  BY TypeInit
<1>2. Range(<<>>) = {}
  BY DEF Range
<1>3. NothingInvented
  BY <1>2 DEF Init, NothingInvented, Placed, Listed
<1>4. QED
  BY <1>1, <1>3 DEF StageInv

\* StageInv is inductive.
LEMMA StageInvariant == ASSUME TrackingAssumption PROVE Spec => []StageInv
<1>1. Init => StageInv
  BY StageInit
<1>2. StageInv /\ [Next]_vars => StageInv'
  BY TypeStep, StageStep DEF StageInv
<1>3. QED
  BY <1>1, <1>2, PTL DEF Spec

\* No screen and no message ever names a status that its order has not held.
THEOREM NothingIsInvented == ASSUME TrackingAssumption PROVE Spec => []NothingInvented
<1>1. StageInv => NothingInvented
  BY DEF StageInv
<1>2. QED
  BY <1>1, StageInvariant, PTL

\* Tracking implements OrderLifecycle with replays: direct writes, mirrored
\* writes and written-back pushes of any number of sessions advance an order
\* by at most one stage.
THEOREM ImplementsLifecycle == ASSUME TrackingAssumption PROVE Spec => OneStageAtATime
<1>1. Init => Lifecycle!Init
  BY DEF Init, Lifecycle!Init
<1>2. StageInv /\ [Next]_vars => [Lifecycle!Next]_(Lifecycle!vars)
  BY LifecycleStep
<1>3. QED
  BY <1>1, <1>2, StageInvariant, PTL DEF Spec, OneStageAtATime, Lifecycle!Spec

\* An order that was ever confirmed had been pending, one that was shipped had
\* been confirmed, one that was delivered had been shipped: what OneStageAtATime
\* says of the stages an order has been in.
NoStageSkipped ==
  \A o \in Orders : \A s \in reached[o] \ {"pending"} :
     Lifecycle!Before[s] \in reached[o]

\* A step of OrderLifecycle skips no stage.
LEMMA NoSkipStep ==
  ASSUME StageInv, NoStageSkipped, [Lifecycle!Next]_(Lifecycle!vars)
  PROVE  NoStageSkipped'
<1> USE StageOrder
<1>1. ASSUME NEW o \in Orders, NEW s \in Lifecycle!Stages, Lifecycle!Enter(o, s),
             s = "pending" \/ Lifecycle!Before[s] \in reached[o]
      PROVE  NoStageSkipped'
  <2>1. reached' = [reached EXCEPT ![o] = @ \cup {s}] /\ reached \in [Orders -> SUBSET Statuses]
    BY <1>1 DEF Lifecycle!Enter, StageInv, TypeOK
  <2>2. Lifecycle!Before' = Lifecycle!Before
    BY DEF Lifecycle!Before, Lifecycle!Stages
  <2>3. QED
    BY <1>1, <2>1, <2>2 DEF NoStageSkipped
<1>2. ASSUME NEW o \in Orders, Lifecycle!Advance(o) PROVE NoStageSkipped'
  <2>1. PICK s \in Lifecycle!Stages : status[o] = Lifecycle!Before[s] /\ Lifecycle!Enter(o, s)
    BY <1>2 DEF Lifecycle!Advance
  <2>2. s = "pending" \/ status[o] # "none"
    BY <2>1 DEF Lifecycle!Stages
  <2>3. s = "pending" \/ status[o] \in reached[o]
    BY <2>2 DEF StageInv, NothingInvented, Placed
  <2>4. QED
    BY <1>1, <2>1, <2>3
<1>3. ASSUME NEW o \in Orders, Lifecycle!Replay(o) PROVE NoStageSkipped'
  <2>1. PICK s \in Lifecycle!Stages :
          (s \in reached[o] \/ Lifecycle!Before[s] \in reached[o]) /\ Lifecycle!Enter(o, s)
    BY <1>3 DEF Lifecycle!Replay
  <2>2. s = "pending" \/ Lifecycle!Before[s] \in reached[o]
    BY <2>1 DEF NoStageSkipped
  <2>3. QED
    BY <1>1, <2>1, <2>2
<1>4. CASE UNCHANGED Lifecycle!vars
  <2>1. Lifecycle!Before' = Lifecycle!Before /\ reached' = reached
    BY <1>4 DEF Lifecycle!Before, Lifecycle!Stages, Lifecycle!vars
  <2>2. QED
    BY <2>1 DEF NoStageSkipped
<1>5. QED
  BY <1>2, <1>3, <1>4 DEF Lifecycle!Next

\* NoStageSkipped is an invariant.
LEMMA StagesAreNotSkipped == ASSUME TrackingAssumption PROVE Spec => []NoStageSkipped
<1>1. Init => NoStageSkipped
  BY DEF Init, NoStageSkipped
<1>2. StageInv /\ NoStageSkipped /\ [Next]_vars => NoStageSkipped'
  BY LifecycleStep, NoSkipStep
<1>3. QED
  BY <1>1, <1>2, StageInvariant, PTL DEF Spec

-----------------------------------------------------------------------------
(***************************************************************************)
(* Reviews.  The page offers a review for a delivered order, the table     *)
(* takes one, and the mirrored copy finds it there.                        *)
(***************************************************************************)

\* A copy of a review is on its way only for an order with one.
CopiesFollow == \A s \in Sessions : \A m \in Range(outbox[s]) \cap Review : reviews[m.order] = 1

\* Every step keeps reviews earned and single.
LEMMA ReviewStep ==
  ASSUME TrackingAssumption, StageInv, ReviewsAreEarned, [Next]_vars
  PROVE  ReviewsAreEarned'
<1> USE DEF rows, screens, network
<1>t. TypeOK /\ NothingInvented
  BY DEF StageInv
<1>k. \A o \in Orders : reached[o] \subseteq reached'[o]
  BY <1>t, LifecycleStep, StagesAreKept
<1>r. /\ reviews \in [Orders -> Nat]
      /\ \A o \in Orders : reviews[o] <= 1 /\ (reviews[o] = 1 => "delivered" \in reached[o])
      /\ CopiesFollow
  BY <1>t DEF TypeOK, ReviewsAreEarned, CopiesFollow
<1>o. \A s \in Sessions : outbox[s] \in Seq(Update \cup Review)
  BY <1>t DEF TypeOK
<1>d. outbox \in [Sessions -> Seq(Update \cup Review)]
  BY <1>t DEF TypeOK
\* It suffices that no row goes away, each new one is earned, and each copy has one.
<1>s. ASSUME \/ reviews' = reviews
             \/ \E o \in Orders : /\ reviews[o] = 0 /\ "delivered" \in reached[o]
                                   /\ reviews' = [reviews EXCEPT ![o] = @ + 1],
             \A s \in Sessions : \A m \in Range(outbox'[s]) \cap Review :
                m \in Range(outbox[s]) \/ reviews'[m.order] = 1
      PROVE  ReviewsAreEarned'
  <2>1. \A o \in Orders : /\ reviews'[o] <= 1
                          /\ reviews'[o] = 1 => "delivered" \in reached'[o]
                          /\ reviews[o] = 1 => reviews'[o] = 1
    BY <1>k, <1>r, <1>s
  <2>2. \A m \in Review : m.order \in Orders
    BY DEF Review
  <2>3. \A s \in Sessions : \A m \in Range(outbox'[s]) \cap Review : reviews'[m.order] = 1
    BY <1>r, <1>s, <2>1, <2>2 DEF CopiesFollow
  <2>4. QED
    BY <2>1, <2>3 DEF ReviewsAreEarned
<1>1. ASSUME NEW c \in Customers, SubmitReview(c) PROVE ReviewsAreEarned'
  <2>1. PICK v \in panel[c] :
          /\ CanReview(v) /\ Unreviewed(v.order) /\ InsertReview(v.order)
          /\ SendJson(c, [order |-> v.order, status |-> "review"])
    BY <1>1 DEF SubmitReview
  <2> DEFINE m == [order |-> v.order, status |-> "review"]
  <2>2. v \in View /\ "delivered" \in reached[v.order]
    BY <1>t, <2>1 DEF TypeOK, NothingInvented, Held, CanReview
  <2>3. v.order \in Orders /\ m \in Review /\ m.order = v.order /\ c \in Sessions
    BY <2>2 DEF View, Review, Sessions
  <2>4. reviews[v.order] = 0 /\ reviews' = [reviews EXCEPT ![v.order] = @ + 1]
    BY <2>1 DEF Unreviewed, InsertReview
  <2>5. outbox' = outbox \/ outbox' = [outbox EXCEPT ![c] = Append(@, m)]
    BY <2>1 DEF SendJson
  <2> HIDE DEF m
  <2>6. Range(Append(outbox[c], m)) = Range(outbox[c]) \cup {m}
    BY <1>o, <2>3, RangeOfAppend
  <2>7. \A s \in Sessions : \A x \in Range(outbox'[s]) : x \in Range(outbox[s]) \/ x = m
    <3>1. CASE outbox' = outbox
      BY <3>1
    <3>2. CASE outbox' = [outbox EXCEPT ![c] = Append(@, m)]
      BY <1>d, <2>3, <2>6, <3>2
    <3>3. QED
      BY <2>5, <3>1, <3>2
  <2>8. reviews'[m.order] = 1
    BY <1>r, <2>3, <2>4
  <2>9. QED
    BY <1>s, <2>2, <2>3, <2>4, <2>7, <2>8
<1>2. ASSUME NEW s \in Sessions, ProcessCommand(s) PROVE ReviewsAreEarned'
  <2>1. outbox[s] # <<>> /\ outbox' = [outbox EXCEPT ![s] = Tail(@)]
    BY <1>2 DEF ProcessCommand
  <2>2. Range(Tail(outbox[s])) \subseteq Range(outbox[s]) /\ Head(outbox[s]) \in Range(outbox[s])
    BY <1>o, <2>1, RangeOfTail
  <2>3. \A x \in Sessions : Range(outbox'[x]) \subseteq Range(outbox[x])
    BY <1>d, <2>1, <2>2
  <2>4. reviews' = reviews
    <3>1. CASE HandleUpdate(s)
      BY <3>1 DEF HandleUpdate, UpdateOrderStatus
    <3>2. CASE HandleReview(s)
      <4>1. reviews[Head(outbox[s]).order] = 1
        BY <1>r, <2>2, <3>2 DEF HandleReview, CopiesFollow
      <4>2. QED
        BY <3>2, <4>1 DEF HandleReview, InsertReview, Unreviewed
    <3>3. QED
      BY <1>2, <3>1, <3>2 DEF ProcessCommand
  <2>5. QED
    BY <1>s, <2>3, <2>4
<1>3. ASSUME NEW s \in Sessions, NEW u \in Update, SendJson(s, u), reviews' = reviews
      PROVE  ReviewsAreEarned'
  <2>1. Range(Append(outbox[s], u)) = Range(outbox[s]) \cup {u}
    BY <1>o, RangeOfAppend
  <2>2. \A x \in Sessions : \A m \in Range(outbox'[x]) : m \in Range(outbox[x]) \/ m = u
    BY <1>d, <1>3, <2>1 DEF SendJson
  <2>3. QED
    BY <1>s, <1>3, <2>2, UpdatesAreNoReviews
<1>4. ASSUME NEW r \in Dashboards, MirrorUpdate(r) PROVE ReviewsAreEarned'
  <2>1. PICK u \in handling[r] : SendJson(r, u)
    BY <1>4 DEF MirrorUpdate
  <2>2. r \in Sessions /\ u \in Update
    BY <1>t, <2>1 DEF TypeOK, Sessions
  <2>3. QED
    BY <1>3, <1>4, <2>1, <2>2 DEF MirrorUpdate
<1>5. ASSUME NEW c \in Customers, MarkOrderDelivered(c) PROVE ReviewsAreEarned'
  <2>1. PICK v \in panel[c] :
          LET u == [order |-> v.order, status |-> "delivered"] IN
          UpdateOrderStatus(u) /\ SendJson(c, u)
    BY <1>5 DEF MarkOrderDelivered
  <2>2. c \in Sessions /\ [order |-> v.order, status |-> "delivered"] \in Update
    BY <1>t, <2>1 DEF TypeOK, Sessions, View, Update, Statuses
  <2>3. QED
    BY <1>3, <2>1, <2>2 DEF UpdateOrderStatus
<1>6. ASSUME NEW s \in Sessions, Disconnect(s) PROVE ReviewsAreEarned'
  <2>1. PICK n \in 0 .. Len(outbox[s]) : outbox' = [outbox EXCEPT ![s] = SubSeq(@, 1, n)]
    BY <1>6 DEF Disconnect
  <2>2. Range(SubSeq(outbox[s], 1, n)) \subseteq Range(outbox[s])
    BY <1>o, RangeOfPrefix
  <2>3. \A x \in Sessions : Range(outbox'[x]) \subseteq Range(outbox[x])
    BY <1>d, <2>1, <2>2
  <2>4. QED
    BY <1>s, <1>6, <2>3 DEF Disconnect
<1>7. ASSUME UNCHANGED <<reviews, outbox>> PROVE ReviewsAreEarned'
  BY <1>s, <1>7
<1>8. ASSUME NEW c \in Customers,
             \/ PaymentSucceeds(c) \/ PaymentRefused(c) \/ RefreshPage(c) \/ OnOrderStatusUpdated(c)
             \/ \E o \in Orders : PlaceOrder(c, o) \/ OpenOrder(c, o)
      PROVE  ReviewsAreEarned'
  BY <1>7, <1>8
     DEF PaymentSucceeds, PaymentRefused, RefreshPage, OnOrderStatusUpdated, PlaceOrder, OpenOrder,
         UpdateOrderStatus
<1>9. ASSUME NEW r \in Dashboards,
             CheckForNewData(r) \/ \E o \in Orders : ConfirmOrder(r, o) \/ ShipOrder(r, o)
      PROVE  ReviewsAreEarned'
  BY <1>7, <1>9 DEF CheckForNewData, ConfirmOrder, ShipOrder, UpdateOrderStatus
<1>10. ASSUME NEW s \in Sessions, Connect(s) \/ Restart(s) PROVE ReviewsAreEarned'
  BY <1>7, <1>10 DEF Connect, Restart
<1>11. CASE UNCHANGED vars
  BY <1>7, <1>11 DEF vars
<1>12. QED
  BY <1>1, <1>2, <1>4, <1>5, <1>6, <1>8, <1>9, <1>10, <1>11
     DEF Next, Dashboard, Customer, Connection

\* An order is reviewed at most once and only after it was delivered, with any
\* number of windows and with the copies that the server inserts again.
THEOREM ReviewsAreSound == ASSUME TrackingAssumption PROVE Spec => []ReviewsAreEarned
<1>1. Init => ReviewsAreEarned
  <2>1. Range(<<>>) = {}
    BY DEF Range
  <2>2. QED
    BY <2>1 DEF Init, ReviewsAreEarned
<1>2. StageInv /\ ReviewsAreEarned /\ [Next]_vars => ReviewsAreEarned'
  BY ReviewStep
<1>3. QED
  BY <1>1, <1>2, StageInvariant, PTL DEF Spec

-----------------------------------------------------------------------------
(***************************************************************************)
(* What messages can say: the dashboards send that they confirmed or       *)
(* shipped, the customer windows that an order was delivered or reviewed.  *)
(***************************************************************************)

\* What a dashboard is about to send and what is on its way.
News ==
  /\ \A r \in Dashboards : \A u, v \in handling[r] : u = v
  /\ \A r \in Dashboards : \A u \in handling[r] \cup Range(outbox[r]) :
        u.status \in {"confirmed", "shipped"}
  /\ \A c \in Customers : \A u \in Range(outbox[c]) : u.status \in {"delivered", "review"}
  /\ \A c \in Customers : \A u \in Range(inbox[c]) :
        u.status \in {"confirmed", "shipped", "delivered"}

\* A message that is sent goes to the end of its sender's queue, or nowhere.
LEMMA SendAppends ==
  ASSUME TypeOK, NEW s \in Sessions, NEW m \in Update \cup Review, SendJson(s, m)
  PROVE  /\ \A x \in Sessions \ {s} : outbox'[x] = outbox[x]
         /\ IF conn[s] = "online" THEN outbox'[s] = Append(outbox[s], m)
                                  ELSE outbox'[s] = outbox[s]
         /\ Range(outbox'[s]) \subseteq Range(outbox[s]) \cup {m}
         /\ UNCHANGED <<conn, inbox, broken>>
<1>1. outbox \in [Sessions -> Seq(Update \cup Review)] /\ outbox[s] \in Seq(Update \cup Review)
  BY DEF TypeOK
<1>2. Range(Append(outbox[s], m)) = Range(outbox[s]) \cup {m}
  BY <1>1, RangeOfAppend
<1>3. QED
  BY <1>1, <1>2 DEF SendJson

\* The line that the server reads is the first of its queue, and the windows that
\* are told of it have it as their last.
LEMMA CommandMoves ==
  ASSUME TypeOK, NEW s \in Sessions, ProcessCommand(s)
  PROVE  /\ Head(outbox[s]) \in Range(outbox[s])
         /\ outbox'[s] = Tail(outbox[s]) /\ Range(outbox'[s]) \subseteq Range(outbox[s])
         /\ \A x \in Sessions \ {s} : outbox'[x] = outbox[x]
         /\ \/ UNCHANGED <<status, reached, inbox>> /\ Head(outbox[s]) \in Review
            \/ /\ Head(outbox[s]) \in Update /\ Write(Head(outbox[s]))
               /\ Head(outbox[s]).order \in Placed
               /\ \A c \in Customers :
                    /\ inbox'[c] = IF c # s /\ conn[c] = "online"
                                     THEN Append(inbox[c], Head(outbox[s])) ELSE inbox[c]
                    /\ Range(inbox'[c]) \subseteq Range(inbox[c]) \cup {Head(outbox[s])}
<1> DEFINE m == Head(outbox[s])
<1>1. /\ outbox \in [Sessions -> Seq(Update \cup Review)]
      /\ \A c \in Customers : inbox[c] \in Seq(Update)
  BY DEF TypeOK
<1>2. outbox[s] \in Seq(Update \cup Review) /\ outbox[s] # <<>>
  BY <1>1 DEF ProcessCommand
<1>3. m \in Range(outbox[s]) /\ Range(Tail(outbox[s])) \subseteq Range(outbox[s])
  BY <1>2, RangeOfTail
<1>4. outbox' = [outbox EXCEPT ![s] = Tail(@)]
  BY DEF ProcessCommand
<1>5. CASE HandleReview(s)
  BY <1>1, <1>3, <1>4, <1>5 DEF HandleReview
<1>6. CASE HandleUpdate(s)
  <2>1. m \in Update /\ Write(m) /\ m.order \in Placed /\ Push(s, m)
    BY <1>6 DEF HandleUpdate, UpdateOrderStatus
  <2> HIDE DEF m
  <2>2. \A c \in Customers : Range(Append(inbox[c], m)) = Range(inbox[c]) \cup {m}
    BY <1>1, <2>1, RangeOfAppend
  <2>3. \A c \in Customers :
          inbox'[c] = IF c # s /\ conn[c] = "online" THEN Append(inbox[c], m) ELSE inbox[c]
    BY <2>1 DEF Push, Online
  <2>4. \A c \in Customers : Range(inbox'[c]) \subseteq Range(inbox[c]) \cup {m}
    BY <2>2, <2>3
  <2>5. outbox'[s] = Tail(outbox[s]) /\ \A x \in Sessions \ {s} : outbox'[x] = outbox[x]
    BY <1>1, <1>4
  <2>6. QED
    BY <1>3, <2>1, <2>3, <2>4, <2>5 DEF m
<1>7. QED
  BY <1>5, <1>6 DEF ProcessCommand

\* A push that is stored is the first of its queue.
LEMMA PushIsStored ==
  ASSUME TypeOK, NEW c \in Customers, OnOrderStatusUpdated(c)
  PROVE  /\ Head(inbox[c]) \in Update /\ Head(inbox[c]) \in Range(inbox[c])
         /\ Write(Head(inbox[c])) /\ Head(inbox[c]).order \in Placed
         /\ inbox'[c] = Tail(inbox[c]) /\ Range(inbox'[c]) \subseteq Range(inbox[c])
         /\ \A x \in Customers \ {c} : inbox'[x] = inbox[x]
         /\ UNCHANGED <<reviews, board, panel, handling, conn, outbox, broken>>
<1>1. inbox \in [Customers -> Seq(Update)] /\ inbox[c] \in Seq(Update) /\ inbox[c] # <<>>
  BY DEF TypeOK, OnOrderStatusUpdated
<1>2. QED
  BY <1>1, RangeOfTail DEF OnOrderStatusUpdated, UpdateOrderStatus

\* What a broken connection still delivers had been sent on it.
LEMMA BreakLoses ==
  ASSUME TypeOK, NEW s \in Sessions, Disconnect(s)
  PROVE  /\ \A x \in Sessions : Range(outbox'[x]) \subseteq Range(outbox[x])
         /\ \A c \in Customers : Range(inbox'[c]) \subseteq Range(inbox[c])
         /\ broken' /\ UNCHANGED <<rows, screens, handling>>
<1>1. PICK n \in 0 .. Len(outbox[s]) : outbox' = [outbox EXCEPT ![s] = SubSeq(@, 1, n)]
  BY DEF Disconnect
<1>2. outbox \in [Sessions -> Seq(Update \cup Review)] /\ outbox[s] \in Seq(Update \cup Review)
  BY DEF TypeOK
<1>3. Range(SubSeq(outbox[s], 1, n)) \subseteq Range(outbox[s])
  BY <1>2, RangeOfPrefix
<1>4. Range(<<>>) = {}
  BY DEF Range
<1>5. \A c \in Customers : Range(inbox'[c]) \subseteq Range(inbox[c])
  BY <1>4 DEF Disconnect
<1>6. QED
  BY <1>1, <1>2, <1>3, <1>5 DEF Disconnect

\* Every step leaves the messages news.
LEMMA NewsStep ==
  ASSUME TrackingAssumption, TypeOK, News, [Next]_vars
  PROVE  News'
<1> USE DEF rows, screens, network
<1>t. /\ handling \in [Sessions -> SUBSET Update]
      /\ panel \in [Customers -> SUBSET View]
      /\ Customers \subseteq Sessions /\ Dashboards \subseteq Sessions
      /\ \A c \in Customers, r \in Dashboards : c # r
  BY DEF TypeOK, Sessions, TrackingAssumption
<1>s. {"pending", "confirmed", "shipped", "delivered", "cancelled"} = Statuses
  BY DEF Statuses
<1>k. ASSUME UNCHANGED <<outbox, inbox>>,
             \A r \in Dashboards : \A u, v \in handling'[r] :
                u = v /\ u.status \in {"confirmed", "shipped"}
      PROVE  News'
  BY <1>k DEF News
<1>1. ASSUME NEW c \in Customers,
             \/ PaymentSucceeds(c) \/ PaymentRefused(c) \/ RefreshPage(c)
             \/ \E o \in Orders : PlaceOrder(c, o) \/ OpenOrder(c, o)
      PROVE  News'
  <2>1. UNCHANGED <<outbox, inbox>> /\ \A r \in Dashboards : handling'[r] = handling[r]
    BY <1>t, <1>1
       DEF PaymentSucceeds, PaymentRefused, RefreshPage, PlaceOrder, OpenOrder, Begin, End
  <2>2. QED
    BY <1>k, <2>1 DEF News
<1>2. ASSUME NEW r \in Dashboards, CheckForNewData(r) PROVE News'
  BY <1>2 DEF CheckForNewData, News
<1>3. ASSUME NEW r \in Dashboards, NEW o \in Orders, ConfirmOrder(r, o) \/ ShipOrder(r, o)
      PROVE  News'
  <2>1. \E s \in {"confirmed", "shipped"} : Begin(r, [order |-> o, status |-> s])
    BY <1>3 DEF ConfirmOrder, ShipOrder
  <2>2. PICK s \in {"confirmed", "shipped"} : Begin(r, [order |-> o, status |-> s])
    BY <2>1
  <2>3. handling' = [handling EXCEPT ![r] = {[order |-> o, status |-> s]}]
    BY <2>2 DEF Begin
  <2>4. QED
    BY <1>t, <1>k, <1>3, <2>3 DEF ConfirmOrder, ShipOrder, News
<1>4. ASSUME NEW r \in Dashboards, MirrorUpdate(r) PROVE News'
  <2>1. PICK u \in handling[r] : SendJson(r, u)
    BY <1>4 DEF MirrorUpdate
  <2>2. u \in Update /\ u.status \in {"confirmed", "shipped"}
    BY <1>t, <2>1 DEF News
  <2>3. /\ \A x \in Sessions \ {r} : outbox'[x] = outbox[x]
        /\ Range(outbox'[r]) \subseteq Range(outbox[r]) \cup {u}
        /\ UNCHANGED inbox
    BY <1>t, <2>1, <2>2, SendAppends
  <2>4. \A x \in Dashboards : handling'[x] \subseteq handling[x]
    BY <1>t, <1>4 DEF MirrorUpdate, End
  <2>5. QED
    BY <1>t, <2>2, <2>3, <2>4 DEF News
<1>5. ASSUME NEW c \in Customers, MarkOrderDelivered(c) \/ SubmitReview(c) PROVE News'
  <2>1. \E m \in Update \cup Review : SendJson(c, m) /\ m.status \in {"delivered", "review"}
    <3>1. CASE MarkOrderDelivered(c)
      <4>1. PICK v \in panel[c] : SendJson(c, [order |-> v.order, status |-> "delivered"])
        BY <3>1 DEF MarkOrderDelivered
      <4>2. [order |-> v.order, status |-> "delivered"] \in Update
        BY <1>t, <1>s, <4>1 DEF View, Update
      <4>3. QED
        BY <4>1, <4>2
    <3>2. CASE SubmitReview(c)
      <4>1. PICK v \in panel[c] : SendJson(c, [order |-> v.order, status |-> "review"])
        BY <3>2 DEF SubmitReview
      <4>2. [order |-> v.order, status |-> "review"] \in Review
        BY <1>t, <4>1 DEF View, Review
      <4>3. QED
        BY <4>1, <4>2
    <3>3. QED
      BY <1>5, <3>1, <3>2
  <2>2. PICK m \in Update \cup Review : SendJson(c, m) /\ m.status \in {"delivered", "review"}
    BY <2>1
  <2>3. /\ \A x \in Sessions \ {c} : outbox'[x] = outbox[x]
        /\ Range(outbox'[c]) \subseteq Range(outbox[c]) \cup {m}
        /\ UNCHANGED inbox
    BY <1>t, <2>2, SendAppends
  <2>4. \A r \in Dashboards : handling'[r] = handling[r]
    BY <1>t, <1>5 DEF MarkOrderDelivered, SubmitReview, Begin
  <2>5. QED
    BY <1>t, <2>2, <2>3, <2>4 DEF News
<1>6. ASSUME NEW s \in Sessions, ProcessCommand(s) PROVE News'
  <2> DEFINE m == Head(outbox[s])
  <2>1. /\ m \in Range(outbox[s]) /\ Range(outbox'[s]) \subseteq Range(outbox[s])
        /\ \A x \in Sessions \ {s} : outbox'[x] = outbox[x]
        /\ \/ UNCHANGED inbox
           \/ /\ m \in Update
              /\ \A c \in Customers : Range(inbox'[c]) \subseteq Range(inbox[c]) \cup {m}
    BY <1>6, CommandMoves
  <2>2. handling' = handling
    BY <1>6 DEF ProcessCommand
  <2> HIDE DEF m
  <2>3. m \in Update => m.status \in {"confirmed", "shipped", "delivered"}
    BY <2>1, <1>s DEF News, Update, Sessions
  <2>4. QED
    BY <1>t, <2>1, <2>2, <2>3 DEF News
<1>7. ASSUME NEW c \in Customers, OnOrderStatusUpdated(c) PROVE News'
  <2>1. /\ Range(inbox'[c]) \subseteq Range(inbox[c])
        /\ \A x \in Customers \ {c} : inbox'[x] = inbox[x]
        /\ UNCHANGED <<handling, outbox>>
    BY <1>7, PushIsStored
  <2>2. QED
    BY <2>1 DEF News
<1>8. ASSUME NEW s \in Sessions, Connect(s) \/ Restart(s) PROVE News'
  BY <1>t, <1>8 DEF Connect, Restart, End, News
<1>9. ASSUME NEW s \in Sessions, Disconnect(s) PROVE News'
  <2>1. /\ \A x \in Sessions : Range(outbox'[x]) \subseteq Range(outbox[x])
        /\ \A c \in Customers : Range(inbox'[c]) \subseteq Range(inbox[c])
        /\ UNCHANGED handling
    BY <1>9, BreakLoses
  <2>2. QED
    BY <1>t, <2>1 DEF News
<1>10. CASE UNCHANGED vars
  BY <1>10 DEF vars, News
<1>11. QED
  BY <1>1, <1>2, <1>3, <1>4, <1>5, <1>6, <1>7, <1>8, <1>9, <1>10
     DEF Next, Dashboard, Customer, Connection

\* What is known of every order and message: NothingInvented, no stage skipped, News.
KnownInv == StageInv /\ NoStageSkipped /\ News

\* KnownInv is inductive.
LEMMA KnownInvariant == ASSUME TrackingAssumption PROVE Spec => []KnownInv
<1>1. Init => News
  <2>1. Range(<<>>) = {}
    BY DEF Range
  <2>2. QED
    BY <2>1 DEF Init, News, Sessions
<1>2. StageInv /\ News /\ [Next]_vars => News'
  BY NewsStep DEF StageInv
<1>3. QED
  BY <1>1, <1>2, StageInvariant, StagesAreNotSkipped, PTL DEF Spec, KnownInv

-----------------------------------------------------------------------------
(***************************************************************************)
(* Cancelled orders.  Whoever writes a status of an order that is out of   *)
(* reach would have been told of it, and nobody was.                       *)
(***************************************************************************)

\* An order that was never confirmed was never in a later stage either.
LEMMA UnconfirmedIsEarly ==
  ASSUME NoStageSkipped, NEW o \in Orders, "confirmed" \notin reached[o]
  PROVE  "shipped" \notin reached[o] /\ "delivered" \notin reached[o]
BY StageOrder DEF NoStageSkipped

\* A write for another order, or one that cancels, leaves the row cancelled.
LEMMA WriteSpares ==
  ASSUME TypeOK, NEW o \in Orders, OutOfReach(o), NEW u \in Update, Write(u),
         u.order # o \/ u.status = "cancelled"
  PROVE  status'[o] = "cancelled" /\ "confirmed" \notin reached'[o]
BY DEF TypeOK, OutOfReach, Write, Update

\* Every step leaves an order out of reach that is.
LEMMA ReachStep ==
  ASSUME TrackingAssumption, KnownInv, [Next]_vars, NEW o \in Orders, OutOfReach(o)
  PROVE  OutOfReach(o)'
<1> USE DEF rows, screens, network
<1> DEFINE RowStays == status'[o] = "cancelled" /\ "confirmed" \notin reached'[o]
<1>t. /\ TypeOK /\ NothingInvented /\ News
      /\ status \in [Orders -> Statuses \cup {"none"}]
      /\ board \in [Dashboards -> [Orders -> Statuses \cup {"none"}]]
      /\ panel \in [Customers -> SUBSET View]
      /\ handling \in [Sessions -> SUBSET Update]
      /\ Customers \subseteq Sessions /\ Dashboards \subseteq Sessions
  BY DEF KnownInv, StageInv, TypeOK, Sessions
<1>s. {"pending", "confirmed", "shipped", "delivered", "cancelled"} = Statuses
  BY DEF Statuses
<1>r. /\ status[o] = "cancelled" /\ \A r \in Dashboards : board[r][o] # "pending"
      /\ \A s \in {"confirmed", "shipped", "delivered"} : s \notin reached[o]
  BY UnconfirmedIsEarly DEF OutOfReach, KnownInv
<1>b. \A r \in Dashboards : board'[r] \in {board[r], status} => board'[r][o] # "pending"
  BY <1>r
<1>w. ASSUME NEW u \in Update, Write(u), u.order # o \/ u.status = "cancelled"
      PROVE  RowStays
  BY <1>t, <1>w, WriteSpares
<1>m. ASSUME NEW u \in Update, Held(u), u.status \in {"confirmed", "shipped", "delivered"}
      PROVE  u.order # o
  BY <1>r, <1>m DEF Held
<1>1. ASSUME NEW c \in Customers, NEW p \in Orders, PlaceOrder(c, p) PROVE OutOfReach(o)'
  <2>1. [order |-> p, status |-> "pending"] \in Update /\ p # o
    BY <1>1, <1>r, <1>s DEF PlaceOrder, Placed, Update
  <2>2. Write([order |-> p, status |-> "pending"]) /\ UNCHANGED board
    BY <1>1 DEF PlaceOrder
  <2>3. QED
    BY <1>r, <1>w, <2>1, <2>2 DEF OutOfReach
<1>2. ASSUME NEW c \in Customers, PaymentRefused(c) PROVE OutOfReach(o)'
  <2>1. PICK u \in handling[c] : UpdateOrderStatus([order |-> u.order, status |-> "cancelled"])
    BY <1>2 DEF PaymentRefused
  <2>2. [order |-> u.order, status |-> "cancelled"] \in Update
    BY <1>t, <1>s, <2>1 DEF Update
  <2>3. Write([order |-> u.order, status |-> "cancelled"]) /\ UNCHANGED board
    BY <1>2, <2>1 DEF PaymentRefused, UpdateOrderStatus
  <2>4. QED
    BY <1>r, <1>w, <2>2, <2>3 DEF OutOfReach
<1>3. ASSUME NEW r \in Dashboards, NEW p \in Orders, ConfirmOrder(r, p) \/ ShipOrder(r, p)
      PROVE  OutOfReach(o)'
  <2>1. /\ board[r][p] \in {"pending", "confirmed"} /\ UNCHANGED board
        /\ \E s \in {"confirmed", "shipped"} : Write([order |-> p, status |-> s])
    BY <1>3 DEF ConfirmOrder, ShipOrder, ConfirmEnabled, ShipEnabled, UpdateOrderStatus
  <2>2. PICK s \in {"confirmed", "shipped"} : Write([order |-> p, status |-> s])
    BY <2>1
  <2>3. board[r][p] = "confirmed" => "confirmed" \in reached[p]
    BY <1>t DEF NothingInvented, Listed
  <2>4. p # o
    BY <1>r, <2>1, <2>3
  <2>5. [order |-> p, status |-> s] \in Update
    BY <1>s DEF Update
  <2>6. QED
    BY <1>r, <1>w, <2>1, <2>2, <2>4, <2>5 DEF OutOfReach
<1>4. ASSUME NEW c \in Customers, MarkOrderDelivered(c) PROVE OutOfReach(o)'
  <2>1. PICK v \in panel[c] : /\ v.status = "shipped"
                              /\ Write([order |-> v.order, status |-> "delivered"])
    BY <1>4 DEF MarkOrderDelivered, CanConfirmDelivery, UpdateOrderStatus
  <2>2. v.order # o
    BY <1>t, <1>r, <2>1 DEF NothingInvented, Held
  <2>3. [order |-> v.order, status |-> "delivered"] \in Update
    BY <1>t, <1>s, <2>1 DEF Update, View
  <2>4. QED
    BY <1>4, <1>r, <1>w, <2>1, <2>2, <2>3 DEF MarkOrderDelivered, OutOfReach
<1>5. ASSUME NEW s \in Sessions, ProcessCommand(s) PROVE OutOfReach(o)'
  <2> DEFINE m == Head(outbox[s])
  <2>1. /\ m \in Range(outbox[s])
        /\ \/ UNCHANGED <<status, reached>>
           \/ m \in Update /\ Write(m)
    BY <1>t, <1>5, CommandMoves
  <2>2. UNCHANGED board
    BY <1>5 DEF ProcessCommand
  <2> HIDE DEF m
  <2>3. m \in Update => Held(m) /\ m.status \in {"confirmed", "shipped", "delivered"}
    BY <1>t, <1>s, <2>1, UpdatesAreNoReviews DEF NothingInvented, News, Sessions, Update
  <2>4. QED
    BY <1>r, <1>m, <1>w, <2>1, <2>2, <2>3 DEF OutOfReach
<1>6. ASSUME NEW c \in Customers, OnOrderStatusUpdated(c) PROVE OutOfReach(o)'
  <2> DEFINE u == Head(inbox[c])
  <2>1. u \in Update /\ u \in Range(inbox[c]) /\ Write(u) /\ UNCHANGED board
    BY <1>t, <1>6, PushIsStored
  <2> HIDE DEF u
  <2>2. Held(u) /\ u.status \in {"confirmed", "shipped", "delivered"}
    BY <1>t, <2>1 DEF NothingInvented, News
  <2>3. QED
    BY <1>r, <1>m, <1>w, <2>1, <2>2 DEF OutOfReach
<1>k. ASSUME UNCHANGED <<status, reached>>, \A r \in Dashboards : board'[r] \in {board[r], status}
      PROVE  OutOfReach(o)'
  BY <1>k, <1>b DEF OutOfReach
<1>7. ASSUME NEW r \in Dashboards, CheckForNewData(r) \/ MirrorUpdate(r) PROVE OutOfReach(o)'
  BY <1>t, <1>k, <1>7 DEF CheckForNewData, MirrorUpdate, LoadOrders
<1>8. ASSUME NEW c \in Customers,
             \/ PaymentSucceeds(c) \/ RefreshPage(c) \/ SubmitReview(c)
             \/ \E p \in Orders : OpenOrder(c, p)
      PROVE  OutOfReach(o)'
  BY <1>k, <1>8 DEF PaymentSucceeds, RefreshPage, SubmitReview, OpenOrder, LoadOrderDetails, Track
<1>9. ASSUME NEW s \in Sessions, Connect(s) \/ Disconnect(s) \/ Restart(s) PROVE OutOfReach(o)'
  BY <1>t, <1>k, <1>9 DEF Connect, Disconnect, Restart
<1>10. CASE UNCHANGED vars
  BY <1>10 DEF vars, OutOfReach
<1>11. QED
  BY <1>1, <1>2, <1>3, <1>4, <1>5, <1>6, <1>7, <1>8, <1>9, <1>10
     DEF Next, Dashboard, Customer, Connection

\* An order whose payment was refused, that nobody has confirmed and no dashboard
\* lists as pending, stays cancelled, for any number of dashboards, windows and orders.
THEOREM CancelledOrdersStay ==
  ASSUME TrackingAssumption PROVE Spec => CancelledStaysCancelled
<1>1. KnownInv /\ [Next]_vars => [\A o \in Orders : OutOfReach(o) => OutOfReach(o)']_vars
  BY ReachStep
<1>2. QED
  BY <1>1, KnownInvariant, PTL DEF Spec, CancelledStaysCancelled

-----------------------------------------------------------------------------
(***************************************************************************)
(* Late confirmations.  With one dashboard, every queue that still holds   *)
(* the confirmation of a shipped order holds the shipping behind it, or    *)
(* will get it from the dashboard; so whoever stores the one will store    *)
(* the other.                                                              *)
(***************************************************************************)

OneDashboard(r) == Dashboards = {r}

Confirmed(o) == [order |-> o, status |-> "confirmed"]
Shipped(o) == [order |-> o, status |-> "shipped"]
WasShipped(o) == "shipped" \in reached[o]

\* In the queue q the shipping of o comes behind each confirmation of it.
Follows(q, o) ==
  \A i \in 1 .. Len(q) : q[i] = Confirmed(o) =>
    \E j \in 1 .. Len(q) : i < j /\ q[j] = Shipped(o)

\* An order that was confirmed does not wait, and the dashboard does not list it as
\* waiting, except while it confirms it; then it has not been shipped.
ConfirmedOnce(r) ==
  \A o \in Orders :
    /\ "confirmed" \in reached[o] =>
         /\ status[o] \notin {"none", "pending"}
         /\ board[r][o] = "pending" => Confirmed(o) \in handling[r]
    /\ Confirmed(o) \in handling[r] => ~WasShipped(o)

\* Who was never connected has sent and got nothing; if it is the dashboard, nobody
\* has been told of a confirmation.
NewIsSilent(r) ==
  /\ \A s \in Sessions : conn[s] # "online" => outbox[s] = <<>>
  /\ \A c \in Customers : conn[c] # "online" => inbox[c] = <<>>
  /\ conn[r] # "online" =>
       \A o \in Orders : /\ \A c \in Customers : Confirmed(o) \notin Range(inbox[c])
                         /\ WasShipped(o) => status[o] # "confirmed"

\* Behind the confirmation of a shipped order comes its shipping.
ShippingFollows(r) ==
  \A o \in Orders : WasShipped(o) =>
    \/ Shipped(o) \in handling[r]
    \/ /\ Follows(outbox[r], o)
       /\ \A c \in Customers : Shipped(o) \in Range(outbox[r]) \/ Follows(inbox[c], o)

\* The dashboard, the server or a customer window still has the shipping to pass on.
ComingFrom(r, o) ==
  \/ Shipped(o) \in handling[r] \cup Range(outbox[r])
  \/ \E c \in Customers : Shipped(o) \in Range(inbox[c])

\* ShippingIsRestored, where no connection has broken.
Restored(r) == \A o \in Orders : status[o] = "confirmed" /\ WasShipped(o) => ComingFrom(r, o)

Orderly(r) == NewIsSilent(r) /\ ShippingFollows(r) /\ Restored(r)

\* An update is known by its order and its status.
LEMMA UpdateIsItsFields ==
  ASSUME NEW u \in Update
  PROVE  /\ u.order \in Orders
         /\ u.status = "confirmed" <=> u = Confirmed(u.order)
         /\ u.status = "shipped" <=> u = Shipped(u.order)
BY DEF Update, Confirmed, Shipped

\* Confirming and shipping are different updates, of each order.
LEMMA CopiesDiffer ==
  ASSUME NEW o, NEW p
  PROVE  /\ Confirmed(o) # Shipped(p)
         /\ Confirmed(o) = Confirmed(p) => o = p
         /\ Shipped(o) = Shipped(p) => o = p
<1>1. Confirmed(o).order = o /\ Confirmed(p).order = p /\ Confirmed(o).status = "confirmed"
  BY DEF Confirmed
<1>2. Shipped(o).order = o /\ Shipped(p).order = p /\ Shipped(p).status = "shipped"
  BY DEF Shipped
<1>3. QED
  BY <1>1, <1>2

\* A queue without a confirmation has nothing to be followed.
LEMMA NothingToFollow ==
  ASSUME NEW S, NEW q \in Seq(S), NEW o, Confirmed(o) \notin Range(q)
  PROVE  Follows(q, o)
<1>1. DOMAIN q = 1 .. Len(q)
  BY LenProperties
<1>2. QED
  BY <1>1 DEF Follows, Range

\* What is sent later comes behind.
LEMMA AppendFollows ==
  ASSUME NEW S, NEW q \in Seq(S), NEW o, NEW m \in S
  PROVE  /\ Follows(q, o) /\ m # Confirmed(o) => Follows(Append(q, m), o)
         /\ m = Shipped(o) => Follows(Append(q, m), o)
<1>1. /\ Len(Append(q, m)) = Len(q) + 1 /\ Len(q) \in Nat
      /\ \A i \in 1 .. Len(q) : Append(q, m)[i] = q[i]
      /\ Append(q, m)[Len(q) + 1] = m
  BY AppendProperties, LenProperties
<1>2. ASSUME Follows(q, o), m # Confirmed(o) PROVE Follows(Append(q, m), o)
  <2> SUFFICES ASSUME NEW i \in 1 .. Len(Append(q, m)), Append(q, m)[i] = Confirmed(o)
               PROVE  \E j \in 1 .. Len(Append(q, m)) : i < j /\ Append(q, m)[j] = Shipped(o)
    BY DEF Follows
  <2>1. i \in 1 .. Len(q) /\ q[i] = Confirmed(o)
    BY <1>1, <1>2
  <2>2. PICK j \in 1 .. Len(q) : i < j /\ q[j] = Shipped(o)
    BY <1>2, <2>1 DEF Follows
  <2>3. QED
    BY <1>1, <2>2
<1>3. ASSUME m = Shipped(o) PROVE Follows(Append(q, m), o)
  <2> SUFFICES ASSUME NEW i \in 1 .. Len(Append(q, m)), Append(q, m)[i] = Confirmed(o)
               PROVE  \E j \in 1 .. Len(Append(q, m)) : i < j /\ Append(q, m)[j] = Shipped(o)
    BY DEF Follows
  <2>1. i # Len(q) + 1
    BY <1>1, <1>3, CopiesDiffer
  <2>2. Len(q) + 1 \in 1 .. Len(Append(q, m)) /\ i < Len(q) + 1
    BY <1>1, <2>1
  <2>3. QED
    BY <1>1, <1>3, <2>2
<1>4. QED
  BY <1>2, <1>3

\* Reading the first message leaves the others in order; if it is a confirmation,
\* the shipping is among them.
LEMMA TailFollows ==
  ASSUME NEW S, NEW q \in Seq(S), q # <<>>, NEW o, Follows(q, o)
  PROVE  /\ Follows(Tail(q), o)
         /\ Head(q) = Confirmed(o) => Shipped(o) \in Range(Tail(q))
<1>1. /\ Tail(q) \in Seq(S) /\ Head(q) = q[1]
      /\ Len(Tail(q)) = Len(q) - 1 /\ Len(q) \in Nat /\ Len(q) # 0
      /\ \A i \in 1 .. Len(Tail(q)) : Tail(q)[i] = q[i + 1]
  BY HeadTailProperties, LenProperties, EmptySeq
<1>2. ASSUME NEW i \in 1 .. Len(q), q[i] = Confirmed(o)
      PROVE  \E j \in 1 .. Len(Tail(q)) : i < j + 1 /\ Tail(q)[j] = Shipped(o)
  <2>1. PICK j \in 1 .. Len(q) : i < j /\ q[j] = Shipped(o)
    BY <1>2 DEF Follows
  <2>2. j - 1 \in 1 .. Len(Tail(q)) /\ Tail(q)[j - 1] = Shipped(o) /\ i < (j - 1) + 1
    BY <1>1, <2>1
  <2>3. QED
    BY <2>2
<1>3. Follows(Tail(q), o)
  <2> SUFFICES ASSUME NEW i \in 1 .. Len(Tail(q)), Tail(q)[i] = Confirmed(o)
               PROVE  \E j \in 1 .. Len(Tail(q)) : i < j /\ Tail(q)[j] = Shipped(o)
    BY DEF Follows
  <2>1. i + 1 \in 1 .. Len(q) /\ q[i + 1] = Confirmed(o)
    BY <1>1
  <2>2. PICK j \in 1 .. Len(Tail(q)) : i + 1 < j + 1 /\ Tail(q)[j] = Shipped(o)
    BY <1>2, <2>1
  <2>3. QED
    BY <1>1, <2>2
<1>4. Head(q) = Confirmed(o) => Shipped(o) \in Range(Tail(q))
  <2>1. DOMAIN Tail(q) = 1 .. Len(Tail(q))
    BY <1>1, LenProperties
  <2>2. 1 \in 1 .. Len(q)
    BY <1>1
  <2>3. QED
    BY <1>1, <1>2, <2>1, <2>2 DEF Range
<1>5. QED
  BY <1>3, <1>4

\* A write moves one order to the written status and adds that to its past.
LEMMA WriteEffect ==
  ASSUME TypeOK, NEW u \in Update, Write(u)
  PROVE  /\ u.order \in Orders
         /\ status'[u.order] = u.status /\ reached'[u.order] = reached[u.order] \cup {u.status}
         /\ \A o \in Orders : o # u.order => status'[o] = status[o] /\ reached'[o] = reached[o]
BY DEF TypeOK, Write, Update

\* What is stored again is a status the order has held, of an order that waits no more.
LEMMA StoredAgain ==
  ASSUME TrackingAssumption, KnownInv, NEW u \in Update,
         \/ \E c \in Customers : u \in Range(inbox[c])
         \/ \E s \in Sessions : u \in Range(outbox[s])
  PROVE  Held(u) /\ u.status \in {"confirmed", "shipped", "delivered"}
<1>1. NothingInvented /\ News
  BY DEF KnownInv, StageInv
<1>2. u \notin Review
  BY UpdatesAreNoReviews
<1>3. u.status # "review"
  BY DEF Update, Statuses
<1>4. QED
  BY <1>1, <1>2, <1>3 DEF NothingInvented, News, Sessions

\* Nobody but a dashboard that lists an order as waiting confirms it for the first time,
\* and it does so once.
LEMMA OnceStep ==
  ASSUME TrackingAssumption, KnownInv, NEW r, OneDashboard(r), ConfirmedOnce(r), [Next]_vars
  PROVE  ConfirmedOnce(r)'
<1> USE DEF rows, screens, network
<1>t. /\ TypeOK /\ NothingInvented /\ NoStageSkipped /\ News /\ Dashboards = {r}
      /\ status \in [Orders -> Statuses \cup {"none"}]
      /\ board \in [Dashboards -> [Orders -> Statuses \cup {"none"}]]
      /\ panel \in [Customers -> SUBSET View]
      /\ handling \in [Sessions -> SUBSET Update]
      /\ Customers \subseteq Sessions /\ r \in Sessions /\ r \notin Customers
  BY DEF KnownInv, StageInv, TypeOK, Sessions, TrackingAssumption, OneDashboard
<1>s. {"pending", "confirmed", "shipped", "delivered", "cancelled"} = Statuses
  BY DEF Statuses
<1>o. \A o \in Orders : WasShipped(o) => "confirmed" \in reached[o]
  BY <1>t, StageOrder DEF NoStageSkipped, WasShipped
<1>w. ASSUME NEW u \in Update, Write(u), UNCHANGED <<board, handling>>, Held(u),
             u.status \in {"confirmed", "shipped", "delivered"}
      PROVE  ConfirmedOnce(r)'
  <2>1. /\ u.order \in Orders
        /\ status'[u.order] = u.status /\ reached'[u.order] = reached[u.order] \cup {u.status}
        /\ \A o \in Orders : o # u.order => status'[o] = status[o] /\ reached'[o] = reached[o]
    BY <1>t, <1>w, WriteEffect
  <2>2. \A o \in Orders : /\ "confirmed" \in reached'[o] => "confirmed" \in reached[o]
                          /\ "shipped" \in reached'[o] => "shipped" \in reached[o]
    BY <1>w, <2>1 DEF WasShipped, Held
  <2>3. \A o \in Orders : "confirmed" \in reached'[o] => status'[o] \notin {"none", "pending"}
    BY <1>w, <2>1, <2>2 DEF ConfirmedOnce
  <2>4. QED
    BY <1>w, <2>2, <2>3 DEF ConfirmedOnce, WasShipped
<1>k. ASSUME UNCHANGED <<status, reached>>,
             \/ board'[r] = board[r] /\ handling'[r] = handling[r]
             \/ board'[r] = status /\ handling'[r] = {}
      PROVE  ConfirmedOnce(r)'
  BY <1>k DEF ConfirmedOnce, WasShipped
<1>1. ASSUME NEW c \in Customers, NEW p \in Orders, PlaceOrder(c, p) PROVE ConfirmedOnce(r)'
  <2> DEFINE u == [order |-> p, status |-> "pending"]
  <2>1. u \in Update /\ u.order = p /\ u.status = "pending"
    BY <1>s, UpdateIsTyped
  <2>2. Write(u) /\ status[p] = "none" /\ UNCHANGED board /\ handling'[r] = handling[r]
    BY <1>1, <1>t DEF PlaceOrder, Placed, Begin
  <2> HIDE DEF u
  <2>3. /\ status'[p] = "pending" /\ reached'[p] = reached[p] \cup {"pending"}
        /\ \A o \in Orders : o # p => status'[o] = status[o] /\ reached'[o] = reached[o]
    BY <1>t, <2>1, <2>2, WriteEffect
  <2>4. "confirmed" \notin reached'[p] /\ ~WasShipped(p)'
    BY <1>o, <2>2, <2>3 DEF ConfirmedOnce, WasShipped
  <2>5. QED
    BY <2>2, <2>3, <2>4 DEF ConfirmedOnce, WasShipped
<1>2. ASSUME NEW c \in Customers, PaymentRefused(c) PROVE ConfirmedOnce(r)'
  <2>1. PICK u \in handling[c] : UpdateOrderStatus([order |-> u.order, status |-> "cancelled"])
    BY <1>2 DEF PaymentRefused
  <2>2. [order |-> u.order, status |-> "cancelled"] \in Update
    BY <1>t, <1>s, <2>1 DEF Update
  <2>3. handling'[r] = handling[r] /\ UNCHANGED board
    BY <1>2, <1>t DEF PaymentRefused, End
  <2>4. Write([order |-> u.order, status |-> "cancelled"])
    BY <2>1 DEF UpdateOrderStatus
  <2>5. /\ u.order \in Orders /\ status'[u.order] = "cancelled"
        /\ reached'[u.order] = reached[u.order] \cup {"cancelled"}
        /\ \A o \in Orders : o # u.order => status'[o] = status[o] /\ reached'[o] = reached[o]
    BY <1>t, <2>2, <2>4, WriteEffect
  <2>6. QED
    BY <2>3, <2>5 DEF ConfirmedOnce, WasShipped
<1>3. ASSUME NEW p \in Orders, ConfirmOrder(r, p) PROVE ConfirmedOnce(r)'
  <2>1. /\ board[r][p] = "pending" /\ handling[r] = {} /\ UNCHANGED board
        /\ Write(Confirmed(p)) /\ handling'[r] = {Confirmed(p)}
    BY <1>3, <1>t DEF ConfirmOrder, ConfirmEnabled, Idle, UpdateOrderStatus, Begin, Confirmed
  <2>2. Confirmed(p) \in Update /\ Confirmed(p).order = p /\ Confirmed(p).status = "confirmed"
    BY <1>s DEF Confirmed, Update
  <2>3. /\ status'[p] = "confirmed" /\ reached'[p] = reached[p] \cup {"confirmed"}
        /\ \A o \in Orders : o # p => status'[o] = status[o] /\ reached'[o] = reached[o]
    BY <1>t, <2>1, <2>2, WriteEffect
  <2>4. "confirmed" \notin reached[p] /\ ~WasShipped(p)'
    BY <1>o, <2>1, <2>3 DEF ConfirmedOnce, WasShipped
  <2>5. \A o \in Orders : o # p /\ "confirmed" \in reached[o] => board[r][o] # "pending"
    BY <2>1 DEF ConfirmedOnce
  <2>6. \A o \in Orders : Confirmed(o) \in handling'[r] => o = p
    BY <2>1, CopiesDiffer
  <2>7. QED
    BY <2>1, <2>3, <2>4, <2>5, <2>6 DEF ConfirmedOnce, WasShipped
<1>4. ASSUME NEW p \in Orders, ShipOrder(r, p) PROVE ConfirmedOnce(r)'
  <2>1. /\ board[r][p] = "confirmed" /\ handling[r] = {} /\ UNCHANGED board
        /\ Write(Shipped(p)) /\ handling'[r] = {Shipped(p)}
    BY <1>4, <1>t DEF ShipOrder, ShipEnabled, Idle, UpdateOrderStatus, Begin, Shipped
  <2>2. Shipped(p) \in Update /\ Shipped(p).order = p /\ Shipped(p).status = "shipped"
    BY <1>s DEF Shipped, Update
  <2>3. /\ status'[p] = "shipped" /\ reached'[p] = reached[p] \cup {"shipped"}
        /\ \A o \in Orders : o # p => status'[o] = status[o] /\ reached'[o] = reached[o]
    BY <1>t, <2>1, <2>2, WriteEffect
  <2>4. \A o \in Orders : Confirmed(o) \notin handling'[r]
    BY <2>1, CopiesDiffer
  <2>5. QED
    BY <2>1, <2>3, <2>4 DEF ConfirmedOnce
<1>5. ASSUME NEW c \in Customers, MarkOrderDelivered(c) PROVE ConfirmedOnce(r)'
  <2>1. PICK v \in panel[c] : Write([order |-> v.order, status |-> "delivered"])
    BY <1>5 DEF MarkOrderDelivered, UpdateOrderStatus
  <2>2. [order |-> v.order, status |-> "delivered"] \in Update
    BY <1>t, <1>s, <2>1 DEF Update, View
  <2>3. handling'[r] = handling[r] /\ UNCHANGED board
    BY <1>5, <1>t DEF MarkOrderDelivered, Begin
  <2>4. /\ v.order \in Orders /\ status'[v.order] = "delivered"
        /\ reached'[v.order] = reached[v.order] \cup {"delivered"}
        /\ \A o \in Orders : o # v.order => status'[o] = status[o] /\ reached'[o] = reached[o]
    BY <1>t, <2>1, <2>2, WriteEffect
  <2>5. QED
    BY <2>3, <2>4 DEF ConfirmedOnce, WasShipped
<1>6. ASSUME NEW s \in Sessions, ProcessCommand(s) PROVE ConfirmedOnce(r)'
  <2> DEFINE m == Head(outbox[s])
  <2>0. TypeOK
    BY <1>t
  <2>1. /\ m \in Range(outbox[s])
        /\ \/ UNCHANGED <<status, reached>>
           \/ m \in Update /\ Write(m)
    BY <2>0, <1>6, CommandMoves
  <2>2. UNCHANGED <<board, handling>>
    BY <1>6 DEF ProcessCommand
  <2> HIDE DEF m
  <2>3. m \in Update => Held(m) /\ m.status \in {"confirmed", "shipped", "delivered"}
    BY <2>1, StoredAgain
  <2>4. QED
    BY <1>k, <1>w, <2>1, <2>2, <2>3
<1>7. ASSUME NEW c \in Customers, OnOrderStatusUpdated(c) PROVE ConfirmedOnce(r)'
  <2> DEFINE u == Head(inbox[c])
  <2>1. u \in Update /\ u \in Range(inbox[c]) /\ Write(u) /\ UNCHANGED <<board, handling>>
    BY <1>t, <1>7, PushIsStored
  <2> HIDE DEF u
  <2>2. Held(u) /\ u.status \in {"confirmed", "shipped", "delivered"}
    BY <2>1, StoredAgain
  <2>3. QED
    BY <1>w, <2>1, <2>2
<1>8. ASSUME CheckForNewData(r) \/ MirrorUpdate(r) PROVE ConfirmedOnce(r)'
  BY <1>t, <1>k, <1>8 DEF CheckForNewData, MirrorUpdate, LoadOrders, Idle, End
<1>9. ASSUME NEW c \in Customers,
             \/ PaymentSucceeds(c) \/ RefreshPage(c) \/ SubmitReview(c)
             \/ \E p \in Orders : OpenOrder(c, p)
      PROVE  ConfirmedOnce(r)'
  BY <1>t, <1>k, <1>9
     DEF PaymentSucceeds, RefreshPage, SubmitReview, OpenOrder, LoadOrderDetails, Track, End
<1>10. ASSUME NEW s \in Sessions, Connect(s) \/ Disconnect(s) \/ Restart(s)
       PROVE  ConfirmedOnce(r)'
  BY <1>t, <1>k, <1>10 DEF Connect, Disconnect, Restart, End
<1>11. CASE UNCHANGED vars
  BY <1>11 DEF vars, ConfirmedOnce, WasShipped
<1>12. QED
  BY <1>t, <1>1, <1>2, <1>3, <1>4, <1>5, <1>6, <1>7, <1>8, <1>9, <1>10, <1>11
     DEF Next, Dashboard, Customer, Connection

\* Steps that leave the pushes and the dashboard's queue alone, ship nothing and confirm
\* only what was never shipped.
LEMMA CalmStep ==
  ASSUME NEW r \in Sessions, Orderly(r), UNCHANGED inbox, outbox'[r] = outbox[r],
         \A s \in Sessions : conn'[s] # "online" =>
            conn[s] # "online" /\ outbox'[s] = outbox[s],
         Customers \subseteq Sessions, handling[r] \subseteq handling'[r],
         \A o \in Orders : WasShipped(o)' => WasShipped(o),
         \A o \in Orders : status'[o] = "confirmed" => status[o] = "confirmed" \/ ~WasShipped(o)'
  PROVE  Orderly(r)'
<1>1. NewIsSilent(r)'
  BY DEF Orderly, NewIsSilent
<1>2. ShippingFollows(r)'
  <2>1. \A o \in Orders : /\ Follows(outbox[r], o)' <=> Follows(outbox[r], o)
                          /\ \A c \in Customers : Follows(inbox[c], o)' <=> Follows(inbox[c], o)
    BY DEF Follows, Confirmed, Shipped
  <2>2. QED
    BY <2>1 DEF Orderly, ShippingFollows, Shipped
<1>3. Restored(r)'
  BY DEF Orderly, Restored, ComingFrom, Shipped
<1>4. QED
  BY <1>1, <1>2, <1>3 DEF Orderly

\* As long as the dashboard was never connected it does not matter what it forgets.
LEMMA OfflineStep ==
  ASSUME TypeOK, NEW r \in Sessions, Orderly(r), conn[r] # "online",
         UNCHANGED <<status, reached, inbox, outbox>>, Customers \subseteq Sessions,
         \A s \in Sessions : conn'[s] # "online" => conn[s] # "online"
  PROVE  Orderly(r)'
<1>1. NewIsSilent(r)'
  BY DEF Orderly, NewIsSilent, WasShipped
<1>2. \A o \in Orders : /\ Follows(outbox[r], o)
                        /\ \A c \in Customers : Follows(inbox[c], o)
  <2>1. outbox[r] = <<>> /\ \A o \in Orders : \A c \in Customers : Confirmed(o) \notin Range(inbox[c])
    BY DEF Orderly, NewIsSilent
  <2>2. Range(<<>>) = {} /\ <<>> \in Seq(Update)
    BY EmptySeq DEF Range
  <2>3. \A c \in Customers : inbox[c] \in Seq(Update)
    BY DEF TypeOK
  <2>4. QED
    BY <2>1, <2>2, <2>3, NothingToFollow
<1>3. ShippingFollows(r)'
  <2>1. \A o \in Orders : /\ Follows(outbox[r], o)' <=> Follows(outbox[r], o)
                          /\ \A c \in Customers : Follows(inbox[c], o)' <=> Follows(inbox[c], o)
    BY DEF Follows, Confirmed, Shipped
  <2>2. QED
    BY <1>2, <2>1 DEF ShippingFollows
<1>4. Restored(r)'
  BY DEF Orderly, NewIsSilent, Restored, WasShipped
<1>5. QED
  BY <1>1, <1>3, <1>4 DEF Orderly

\* What is sent or forgotten by the dashboard keeps the order of its queue.
LEMMA MirrorStep ==
  ASSUME TrackingAssumption, KnownInv, NEW r, OneDashboard(r), ConfirmedOnce(r), Orderly(r),
         MirrorUpdate(r)
  PROVE  Orderly(r)'
<1>t. /\ TypeOK /\ News /\ r \in Dashboards /\ r \in Sessions /\ Customers \subseteq Sessions
      /\ handling \in [Sessions -> SUBSET Update]
      /\ outbox[r] \in Seq(Update \cup Review)
  BY DEF KnownInv, StageInv, TypeOK, Sessions, OneDashboard
<1>1. PICK u \in handling[r] : SendJson(r, u)
  BY DEF MirrorUpdate
<1>2. /\ u \in Update \cup Review /\ handling[r] = {u} /\ handling'[r] = {}
      /\ UNCHANGED <<status, reached>>
  BY <1>t, <1>1 DEF MirrorUpdate, End, News, rows
<1>3. /\ \A x \in Sessions \ {r} : outbox'[x] = outbox[x]
      /\ IF conn[r] = "online" THEN outbox'[r] = Append(outbox[r], u)
                               ELSE outbox'[r] = outbox[r]
      /\ UNCHANGED <<conn, inbox>>
  BY <1>t, <1>1, <1>2, SendAppends
<1>4. CASE conn[r] # "online"
  <2>1. UNCHANGED outbox
    BY <1>1, <1>4 DEF SendJson
  <2>2. QED
    BY <1>t, <1>2, <1>3, <1>4, <2>1, OfflineStep
<1>5. CASE conn[r] = "online"
  <2>a. outbox'[r] = Append(outbox[r], u)
    BY <1>3, <1>5
  <2>b. Range(Append(outbox[r], u)) = Range(outbox[r]) \cup {u}
    BY <1>t, <1>2, RangeOfAppend
  <2>1. outbox'[r] = Append(outbox[r], u) /\ Range(outbox'[r]) = Range(outbox[r]) \cup {u}
    BY <2>a, <2>b
  <2>2. NewIsSilent(r)'
    <3>1. \A s \in Sessions : conn'[s] # "online" => outbox'[s] = <<>>
      BY <1>3, <1>5 DEF Orderly, NewIsSilent
    <3>2. /\ \A c \in Customers : conn'[c] # "online" => inbox'[c] = <<>>
          /\ conn'[r] = "online"
      BY <1>3, <1>5 DEF Orderly, NewIsSilent
    <3>3. QED
      BY <3>1, <3>2 DEF NewIsSilent
  <2>3. ASSUME NEW o \in Orders, WasShipped(o)
        PROVE  /\ Follows(Append(outbox[r], u), o)
               /\ \A c \in Customers : Shipped(o) \in Range(outbox'[r]) \/ Follows(inbox[c], o)
    <3>1. CASE u = Shipped(o)
      BY <1>t, <1>2, <2>1, <3>1, AppendFollows
    <3>2. CASE u # Shipped(o)
      <4>1. u # Confirmed(o)
        BY <1>2, <2>3 DEF ConfirmedOnce
      <4>2. /\ Follows(outbox[r], o)
            /\ \A c \in Customers : Shipped(o) \in Range(outbox[r]) \/ Follows(inbox[c], o)
        BY <1>2, <2>3, <3>2 DEF Orderly, ShippingFollows
      <4>3. QED
        BY <1>t, <1>2, <2>1, <4>1, <4>2, AppendFollows
    <3>3. QED
      BY <3>1, <3>2
  <2>4. ShippingFollows(r)'
    <3>1. \A o \in Orders :
            /\ Follows(outbox[r], o)' <=> Follows(Append(outbox[r], u), o)
            /\ \A c \in Customers : Follows(inbox[c], o)' <=> Follows(inbox[c], o)
      BY <1>3, <2>1 DEF Follows, Confirmed, Shipped
    <3>2. \A o \in Orders : WasShipped(o)' => WasShipped(o)
      BY <1>2 DEF WasShipped
    <3>3. QED
      BY <2>3, <3>1, <3>2 DEF ShippingFollows, Shipped
  <2>5. Restored(r)'
    BY <1>2, <1>3, <2>1 DEF Orderly, Restored, ComingFrom, Shipped, WasShipped
  <2>6. QED
    BY <2>2, <2>4, <2>5 DEF Orderly
<1>6. QED
  BY <1>4, <1>5

\* What is not read as the first message is among the rest.
LEMMA TailKeeps ==
  ASSUME NEW S, NEW q \in Seq(S), q # <<>>
  PROVE  Range(q) \subseteq {Head(q)} \cup Range(Tail(q))
<1>1. /\ Tail(q) \in Seq(S) /\ Head(q) = q[1]
      /\ Len(Tail(q)) = Len(q) - 1
      /\ \A i \in 1 .. Len(Tail(q)) : Tail(q)[i] = q[i + 1]
  BY HeadTailProperties
<1>2. DOMAIN q = 1 .. Len(q) /\ Len(q) \in Nat /\ Len(q) # 0
  BY LenProperties, EmptySeq
<1>3. DOMAIN Tail(q) = 1 .. (Len(q) - 1)
  BY <1>1, LenProperties
<1>4. \A i \in 1 .. Len(q) : i # 1 => i - 1 \in 1 .. (Len(q) - 1) /\ Tail(q)[i - 1] = q[i]
  BY <1>1, <1>2
<1>5. ASSUME NEW x \in Range(q), x # Head(q) PROVE x \in Range(Tail(q))
  <2>1. PICK i \in 1 .. Len(q) : q[i] = x
    BY <1>2, <1>5 DEF Range
  <2>2. i - 1 \in DOMAIN Tail(q) /\ Tail(q)[i - 1] = x
    BY <1>1, <1>3, <1>4, <1>5, <2>1
  <2>3. QED
    BY <2>2 DEF Range
<1>6. QED
  BY <1>5

\* Shipping is what the dashboard sends next.
LEMMA ShipStep ==
  ASSUME TypeOK, NEW r \in Dashboards, NEW p \in Orders, Orderly(r), ShipOrder(r, p)
  PROVE  Orderly(r)'
<1>1. /\ Write(Shipped(p)) /\ handling[r] = {} /\ handling'[r] = {Shipped(p)}
      /\ UNCHANGED <<conn, outbox, inbox>>
  BY DEF ShipOrder, UpdateOrderStatus, Begin, Shipped, Idle, network, TypeOK, Sessions
<1>2. Shipped(p) \in Update /\ Shipped(p).order = p /\ Shipped(p).status = "shipped"
  BY DEF Shipped, Update, Statuses
<1>3. /\ status'[p] = "shipped" /\ reached'[p] = reached[p] \cup {"shipped"}
      /\ \A o \in Orders : o # p => status'[o] = status[o] /\ reached'[o] = reached[o]
  BY <1>1, <1>2, WriteEffect
<1>4. \A o \in Orders : WasShipped(o)' => WasShipped(o) \/ o = p
  BY <1>3 DEF WasShipped
<1>5. NewIsSilent(r)'
  BY <1>1, <1>3, <1>4 DEF Orderly, NewIsSilent
<1>6. ShippingFollows(r)'
  <2>1. \A o \in Orders : /\ Follows(outbox[r], o)' <=> Follows(outbox[r], o)
                          /\ \A c \in Customers : Follows(inbox[c], o)' <=> Follows(inbox[c], o)
    BY <1>1 DEF Follows, Confirmed, Shipped
  <2>2. QED
    BY <1>1, <1>4, <2>1 DEF Orderly, ShippingFollows, Shipped
<1>7. Restored(r)'
  BY <1>1, <1>3, <1>4 DEF Orderly, Restored, ComingFrom, Shipped
<1>8. QED
  BY <1>5, <1>6, <1>7 DEF Orderly

\* What the server reads of a dashboard it tells every window that is connected.
LEMMA ReadDashboardStep ==
  ASSUME TrackingAssumption, KnownInv, NEW r, OneDashboard(r), Orderly(r), ProcessCommand(r)
  PROVE  Orderly(r)'
<1> DEFINE m == Head(outbox[r])
<1>t. /\ TypeOK /\ News /\ r \in Dashboards /\ r \in Sessions /\ Customers \subseteq Sessions
      /\ r \notin Customers /\ outbox[r] \in Seq(Update \cup Review) /\ outbox[r] # <<>>
      /\ \A c \in Customers : inbox[c] \in Seq(Update)
  BY DEF KnownInv, StageInv, TypeOK, Sessions, OneDashboard, TrackingAssumption, ProcessCommand
<1>1. /\ m \in Range(outbox[r]) /\ outbox'[r] = Tail(outbox[r])
      /\ \A x \in Sessions \ {r} : outbox'[x] = outbox[x]
      /\ \/ m \in Review
         \/ /\ m \in Update /\ Write(m)
            /\ \A c \in Customers :
                 inbox'[c] = IF conn[c] = "online" THEN Append(inbox[c], m) ELSE inbox[c]
  BY <1>t, CommandMoves
<1>2. UNCHANGED <<handling, conn>>
  BY DEF ProcessCommand
<1>3. Range(outbox[r]) \subseteq {m} \cup Range(outbox'[r])
  BY <1>t, <1>1, TailKeeps
<1>4. \A o \in Orders : Follows(outbox[r], o) =>
        /\ Follows(outbox'[r], o)
        /\ m = Confirmed(o) => Shipped(o) \in Range(outbox'[r])
  BY <1>t, <1>1, TailFollows
<1> HIDE DEF m
<1>5. m \in Update /\ m.status \in {"confirmed", "shipped"} /\ Held(m)
  <2>1. m.status \in {"confirmed", "shipped"}
    BY <1>t, <1>1 DEF News
  <2>2. m \notin Review
    BY <2>1 DEF Review
  <2>3. QED
    BY <1>t, <1>1, <2>1, <2>2, StoredAgain
<1>6. /\ m.order \in Orders /\ status'[m.order] = m.status
      /\ \A o \in Orders : o # m.order => status'[o] = status[o]
      /\ \A o \in Orders : WasShipped(o)' <=> WasShipped(o)
  <2>1. /\ m.order \in Orders
        /\ status'[m.order] = m.status /\ reached'[m.order] = reached[m.order] \cup {m.status}
        /\ \A o \in Orders : o # m.order => status'[o] = status[o] /\ reached'[o] = reached[o]
    BY <1>t, <1>1, <1>2, <1>5, WriteEffect DEF Review, Update
  <2>2. QED
    BY <1>5, <2>1 DEF WasShipped, Held
<1>7. \A c \in Customers :
        inbox'[c] = IF conn[c] = "online" THEN Append(inbox[c], m) ELSE inbox[c]
  BY <1>1, <1>5, UpdatesAreNoReviews
<1>8. \A c \in Customers : Range(inbox[c]) \subseteq Range(inbox'[c])
  <2>1. \A c \in Customers : Range(Append(inbox[c], m)) = Range(inbox[c]) \cup {m}
    BY <1>t, <1>5, RangeOfAppend
  <2>2. QED
    BY <1>7, <2>1
<1>9. conn[r] = "online" /\ \A c \in Customers : conn[c] # "online" => inbox[c] = <<>>
  BY <1>t DEF Orderly, NewIsSilent
<1>10. NewIsSilent(r)'
  <2>1. \A s \in Sessions : conn'[s] # "online" => outbox'[s] = <<>>
    BY <1>1, <1>2, <1>9 DEF Orderly, NewIsSilent
  <2>2. /\ \A c \in Customers : conn'[c] # "online" => inbox'[c] = <<>>
        /\ conn'[r] = "online"
    BY <1>2, <1>7, <1>9
  <2>3. QED
    BY <2>1, <2>2 DEF NewIsSilent
<1>11. ASSUME NEW o \in Orders, WasShipped(o), Shipped(o) \notin handling[r]
       PROVE  /\ Follows(outbox'[r], o)
              /\ m = Confirmed(o) => Shipped(o) \in Range(outbox'[r])
              /\ \A c \in Customers : Shipped(o) \in Range(outbox'[r]) \/ Follows(inbox'[c], o)
  <2>1. /\ Follows(outbox[r], o)
        /\ \A c \in Customers : Shipped(o) \in Range(outbox[r]) \/ Follows(inbox[c], o)
    BY <1>11 DEF Orderly, ShippingFollows
  <2>2. ASSUME NEW c \in Customers, m # Confirmed(o)
        PROVE  Shipped(o) \in Range(outbox'[r]) \/ Follows(inbox'[c], o)
    <3>1. CASE m = Shipped(o)
      <4>1. CASE conn[c] = "online"
        BY <1>t, <1>5, <1>7, <3>1, <4>1, AppendFollows
      <4>2. CASE conn[c] # "online"
        <5>1. inbox'[c] = <<>> /\ Range(<<>>) = {} /\ <<>> \in Seq(Update)
          BY <1>7, <1>9, <4>2, EmptySeq DEF Range
        <5>2. QED
          BY <5>1, NothingToFollow
      <4>3. QED
        BY <4>1, <4>2
    <3>2. CASE m # Shipped(o)
      <4>1. Shipped(o) \in Range(outbox'[r]) \/ Follows(inbox[c], o)
        BY <1>3, <2>1, <3>2
      <4>2. Follows(inbox[c], o) => Follows(inbox'[c], o)
        BY <1>t, <1>5, <1>7, <2>2, AppendFollows
      <4>3. QED
        BY <4>1, <4>2
    <3>3. QED
      BY <3>1, <3>2
  <2>3. QED
    BY <1>4, <2>1, <2>2
<1>12. ShippingFollows(r)'
  <2>1. \A o \in Orders : /\ Follows(outbox[r], o)' <=> Follows(outbox'[r], o)
                          /\ \A c \in Customers : Follows(inbox[c], o)' <=> Follows(inbox'[c], o)
    BY DEF Follows, Confirmed, Shipped
  <2>2. QED
    BY <1>2, <1>6, <1>11, <2>1 DEF ShippingFollows, Shipped
<1>13. Restored(r)'
  <2> SUFFICES ASSUME NEW o \in Orders, status'[o] = "confirmed", WasShipped(o)
               PROVE  ComingFrom(r, o)'
    BY <1>6 DEF Restored
  <2>1. CASE o = m.order
    <3>1. m = Confirmed(o)
      BY <1>5, <1>6, <2>1, UpdateIsItsFields
    <3>2. QED
      BY <1>2, <1>11, <3>1 DEF ComingFrom, Shipped
  <2>2. CASE o # m.order
    <3>1. ComingFrom(r, o) /\ m # Shipped(o)
      BY <1>6, <2>2 DEF Orderly, Restored, Shipped
    <3>2. QED
      BY <1>2, <1>3, <1>8, <3>1 DEF ComingFrom, Shipped
  <2>3. QED
    BY <2>1, <2>2
<1>14. QED
  BY <1>10, <1>12, <1>13 DEF Orderly

\* What the server reads of a customer window is no news about shipping.
LEMMA ReadCustomerStep ==
  ASSUME TrackingAssumption, KnownInv, NEW r, OneDashboard(r), Orderly(r),
         NEW s \in Customers, ProcessCommand(s)
  PROVE  Orderly(r)'
<1> DEFINE m == Head(outbox[s])
<1>t. /\ TypeOK /\ News /\ r \in Sessions /\ s \in Sessions /\ Customers \subseteq Sessions
      /\ r # s /\ outbox[s] # <<>> /\ \A c \in Customers : inbox[c] \in Seq(Update)
  BY DEF KnownInv, StageInv, TypeOK, Sessions, OneDashboard, TrackingAssumption, ProcessCommand
<1>1. /\ m \in Range(outbox[s])
      /\ \A x \in Sessions \ {s} : outbox'[x] = outbox[x]
      /\ \/ UNCHANGED <<status, reached, inbox>> /\ m \in Review
         \/ /\ m \in Update /\ Write(m)
            /\ \A c \in Customers : \/ inbox'[c] = inbox[c]
                                    \/ conn[c] = "online" /\ inbox'[c] = Append(inbox[c], m)
  BY <1>t, CommandMoves
<1>2. UNCHANGED <<handling, conn>>
  BY DEF ProcessCommand
<1> HIDE DEF m
<1>3. conn[s] = "online" /\ m.status \in {"delivered", "review"}
  BY <1>t, <1>1 DEF Orderly, NewIsSilent, News
<1>4. CASE UNCHANGED <<status, reached, inbox>>
  <2>1. outbox'[r] = outbox[r]
    BY <1>t, <1>1
  <2>2. \A x \in Sessions : conn'[x] # "online" => conn[x] # "online" /\ outbox'[x] = outbox[x]
    BY <1>1, <1>2, <1>3
  <2>3. \A o \in Orders : /\ WasShipped(o)' <=> WasShipped(o)
                          /\ status'[o] = status[o]
    BY <1>4 DEF WasShipped
  <2>4. QED
    BY <1>t, <1>2, <1>4, <2>1, <2>2, <2>3, CalmStep
<1>5. ASSUME m \in Update, Write(m),
             \A c \in Customers : \/ inbox'[c] = inbox[c]
                                  \/ conn[c] = "online" /\ inbox'[c] = Append(inbox[c], m)
      PROVE  Orderly(r)'
  <2>1. /\ \A o \in Orders : status'[o] = "confirmed" => status[o] = "confirmed"
        /\ \A o \in Orders : WasShipped(o)' <=> WasShipped(o)
    <3>1. /\ m.order \in Orders /\ m.status = "delivered"
          /\ status'[m.order] = m.status /\ reached'[m.order] = reached[m.order] \cup {m.status}
          /\ \A o \in Orders : o # m.order => status'[o] = status[o] /\ reached'[o] = reached[o]
      BY <1>t, <1>3, <1>5, WriteEffect DEF Update, Statuses
    <3>2. QED
      BY <3>1 DEF WasShipped
  <2>2. \A o \in Orders : m # Confirmed(o) /\ m # Shipped(o)
    BY <1>3 DEF Confirmed, Shipped
  <2>3. \A c \in Customers : /\ Range(inbox[c]) \subseteq Range(inbox'[c])
                             /\ Range(inbox'[c]) \subseteq Range(inbox[c]) \cup {m}
    <3>1. \A c \in Customers : Range(Append(inbox[c], m)) = Range(inbox[c]) \cup {m}
      BY <1>t, <1>5, RangeOfAppend
    <3>2. QED
      BY <1>5, <3>1
  <2>4. NewIsSilent(r)'
    <3>1. \A x \in Sessions : conn'[x] # "online" => outbox'[x] = <<>>
      BY <1>1, <1>2, <1>3 DEF Orderly, NewIsSilent
    <3>2. \A c \in Customers : conn'[c] # "online" => inbox'[c] = <<>>
      BY <1>2, <1>5 DEF Orderly, NewIsSilent
    <3>3. conn[r] # "online" =>
            \A o \in Orders : /\ \A c \in Customers : Confirmed(o) \notin Range(inbox[c])
                              /\ WasShipped(o) => status[o] # "confirmed"
      BY DEF Orderly, NewIsSilent
    <3>4. conn'[r] # "online" =>
            \A o \in Orders : /\ \A c \in Customers : Confirmed(o) \notin Range(inbox'[c])
                              /\ WasShipped(o)' => status'[o] # "confirmed"
      BY <1>2, <2>1, <2>2, <2>3, <3>3
    <3>5. QED
      BY <3>1, <3>2, <3>4 DEF NewIsSilent, Confirmed
  <2>5. ShippingFollows(r)'
    <3>1. \A o \in Orders : /\ Follows(outbox[r], o)' <=> Follows(outbox[r], o)
                            /\ \A c \in Customers : Follows(inbox[c], o)' <=> Follows(inbox'[c], o)
      BY <1>t, <1>1 DEF Follows, Confirmed, Shipped
    <3>2. ASSUME NEW o \in Orders, NEW c \in Customers, Follows(inbox[c], o)
          PROVE  Follows(inbox'[c], o)
      <4>1. Follows(Append(inbox[c], m), o)
        BY <1>t, <1>5, <2>2, <3>2, AppendFollows
      <4>2. QED
        BY <1>5, <3>2, <4>1
    <3>3. outbox'[r] = outbox[r]
      BY <1>t, <1>1
    <3>4. QED
      BY <1>2, <2>1, <3>1, <3>2, <3>3 DEF Orderly, ShippingFollows, Shipped
  <2>6. Restored(r)'
    <3>1. outbox'[r] = outbox[r]
      BY <1>t, <1>1
    <3>2. \A o \in Orders : ComingFrom(r, o) => ComingFrom(r, o)'
      BY <1>2, <2>3, <3>1 DEF ComingFrom, Shipped
    <3>3. QED
      BY <2>1, <3>2 DEF Orderly, Restored
  <2>7. QED
    BY <2>4, <2>5, <2>6 DEF Orderly
<1>6. QED
  BY <1>1, <1>4, <1>5

\* What a customer window stores it has been told before what follows it.
LEMMA StoreStep ==
  ASSUME TrackingAssumption, KnownInv, NEW r \in Sessions, Orderly(r),
         NEW c \in Customers, OnOrderStatusUpdated(c)
  PROVE  Orderly(r)'
<1> DEFINE u == Head(inbox[c])
<1>t. /\ TypeOK /\ Customers \subseteq Sessions
      /\ inbox[c] \in Seq(Update) /\ inbox[c] # <<>>
  BY DEF KnownInv, StageInv, TypeOK, Sessions, OnOrderStatusUpdated
<1>1. /\ u \in Update /\ u \in Range(inbox[c]) /\ Write(u)
      /\ inbox'[c] = Tail(inbox[c]) /\ Range(inbox'[c]) \subseteq Range(inbox[c])
      /\ \A x \in Customers \ {c} : inbox'[x] = inbox[x]
      /\ UNCHANGED <<handling, conn, outbox>>
  BY <1>t, PushIsStored
<1>2. Range(inbox[c]) \subseteq {u} \cup Range(inbox'[c])
  BY <1>t, <1>1, TailKeeps
<1>3. \A o \in Orders : Follows(inbox[c], o) =>
        /\ Follows(inbox'[c], o)
        /\ u = Confirmed(o) => Shipped(o) \in Range(inbox'[c])
  BY <1>t, <1>1, TailFollows
<1> HIDE DEF u
<1>4. Held(u)
  BY <1>1, StoredAgain
<1>5. /\ u.order \in Orders /\ status'[u.order] = u.status
      /\ \A o \in Orders : o # u.order => status'[o] = status[o]
      /\ \A o \in Orders : WasShipped(o)' <=> WasShipped(o)
  <2>1. /\ u.order \in Orders
        /\ status'[u.order] = u.status /\ reached'[u.order] = reached[u.order] \cup {u.status}
        /\ \A o \in Orders : o # u.order => status'[o] = status[o] /\ reached'[o] = reached[o]
    BY <1>t, <1>1, WriteEffect
  <2>2. QED
    BY <1>4, <2>1 DEF WasShipped, Held
<1>6. \A o \in Orders : status'[o] = "confirmed" =>
        (status[o] = "confirmed" /\ o # u.order) \/ u = Confirmed(o)
  BY <1>1, <1>5, UpdateIsItsFields
<1>7. NewIsSilent(r)'
  <2>1. \A x \in Customers : conn'[x] # "online" => inbox'[x] = <<>>
    BY <1>t, <1>1 DEF Orderly, NewIsSilent
  <2>2. conn'[r] # "online" =>
          \A o \in Orders : /\ \A x \in Customers : Confirmed(o) \notin Range(inbox'[x])
                            /\ WasShipped(o)' => status'[o] # "confirmed"
    BY <1>1, <1>5, <1>6 DEF Orderly, NewIsSilent
  <2>3. QED
    BY <1>1, <2>1, <2>2 DEF Orderly, NewIsSilent, Confirmed
<1>8. ShippingFollows(r)'
  <2>1. \A o \in Orders : /\ Follows(outbox[r], o)' <=> Follows(outbox[r], o)
                          /\ \A x \in Customers : Follows(inbox[x], o)' <=> Follows(inbox'[x], o)
    BY <1>1 DEF Follows, Confirmed, Shipped
  <2>2. \A o \in Orders, x \in Customers : Follows(inbox[x], o) => Follows(inbox'[x], o)
    BY <1>1, <1>3
  <2>3. QED
    BY <1>1, <1>5, <2>1, <2>2 DEF Orderly, ShippingFollows, Shipped
<1>9. Restored(r)'
  <2> SUFFICES ASSUME NEW o \in Orders, status'[o] = "confirmed", WasShipped(o)
               PROVE  ComingFrom(r, o)'
    BY <1>5 DEF Restored
  <2>1. CASE u = Confirmed(o)
    <3>1. \/ Shipped(o) \in handling[r] \cup Range(outbox[r])
          \/ Shipped(o) \in Range(inbox'[c])
      BY <1>3, <2>1 DEF Orderly, ShippingFollows
    <3>2. QED
      BY <1>1, <3>1 DEF ComingFrom, Shipped
  <2>2. CASE status[o] = "confirmed" /\ o # u.order
    <3>1. ComingFrom(r, o) /\ u # Shipped(o)
      BY <2>2 DEF Orderly, Restored, Shipped
    <3>2. QED
      BY <1>1, <1>2, <3>1 DEF ComingFrom, Shipped
  <2>3. QED
    BY <1>6, <2>1, <2>2
<1>10. QED
  BY <1>7, <1>8, <1>9 DEF Orderly

\* Every step of a system whose connections hold keeps the messages in order.
LEMMA OrderlyStep ==
  ASSUME TrackingAssumption, KnownInv, NEW r, OneDashboard(r), ConfirmedOnce(r), Orderly(r),
         [Next]_vars, ~broken'
  PROVE  Orderly(r)'
<1> USE DEF rows, screens, network
<1>t. /\ TypeOK /\ NoStageSkipped /\ News /\ Dashboards = {r}
      /\ panel \in [Customers -> SUBSET View] /\ handling \in [Sessions -> SUBSET Update]
      /\ Customers \subseteq Sessions /\ r \in Sessions /\ r \notin Customers
      /\ Sessions = Customers \cup {r}
  BY DEF KnownInv, StageInv, TypeOK, Sessions, TrackingAssumption, OneDashboard
<1>s. {"pending", "confirmed", "shipped", "delivered", "cancelled"} = Statuses
  BY DEF Statuses
<1>w. ASSUME NEW u \in Update, Write(u), u.status \in {"pending", "cancelled", "delivered"}
      PROVE  \A o \in Orders : /\ WasShipped(o)' => WasShipped(o)
                               /\ status'[o] = "confirmed" => status[o] = "confirmed"
  <2>1. /\ u.order \in Orders
        /\ status'[u.order] = u.status /\ reached'[u.order] = reached[u.order] \cup {u.status}
        /\ \A o \in Orders : o # u.order => status'[o] = status[o] /\ reached'[o] = reached[o]
    BY <1>t, <1>w, WriteEffect
  <2>2. QED
    BY <1>w, <2>1 DEF WasShipped
<1>k. ASSUME UNCHANGED <<conn, outbox, inbox>>, handling[r] \subseteq handling'[r],
             \A o \in Orders : /\ WasShipped(o)' => WasShipped(o)
                               /\ status'[o] = "confirmed" =>
                                    status[o] = "confirmed" \/ ~WasShipped(o)'
      PROVE  Orderly(r)'
  BY <1>t, <1>k, CalmStep
<1>1. ASSUME NEW c \in Customers, NEW p \in Orders, PlaceOrder(c, p) PROVE Orderly(r)'
  <2> DEFINE u == [order |-> p, status |-> "pending"]
  <2>1. u \in Update /\ u.status = "pending"
    BY <1>s, UpdateIsTyped
  <2>2. Write(u) /\ handling'[r] = handling[r] /\ UNCHANGED <<conn, outbox, inbox>>
    BY <1>1, <1>t DEF PlaceOrder, Begin
  <2> HIDE DEF u
  <2>3. QED
    BY <1>k, <1>w, <2>1, <2>2
<1>2. ASSUME NEW c \in Customers, PaymentRefused(c) PROVE Orderly(r)'
  <2>1. PICK u \in handling[c] : UpdateOrderStatus([order |-> u.order, status |-> "cancelled"])
    BY <1>2 DEF PaymentRefused
  <2> DEFINE v == [order |-> u.order, status |-> "cancelled"]
  <2>2. v \in Update /\ v.status = "cancelled" /\ Write(v)
    BY <1>t, <1>s, <2>1 DEF Update, UpdateOrderStatus
  <2>3. handling'[r] = handling[r] /\ UNCHANGED <<conn, outbox, inbox>>
    BY <1>2, <1>t DEF PaymentRefused, End
  <2> HIDE DEF v
  <2>4. QED
    BY <1>k, <1>w, <2>2, <2>3
<1>3. ASSUME NEW p \in Orders, ConfirmOrder(r, p) PROVE Orderly(r)'
  <2>1. /\ board[r][p] = "pending" /\ handling[r] = {} /\ UNCHANGED <<conn, outbox, inbox>>
        /\ Write(Confirmed(p))
    BY <1>3, <1>t DEF ConfirmOrder, ConfirmEnabled, Idle, UpdateOrderStatus, Confirmed
  <2>2. Confirmed(p) \in Update /\ Confirmed(p).order = p /\ Confirmed(p).status = "confirmed"
    BY <1>s DEF Confirmed, Update
  <2>3. /\ status'[p] = "confirmed" /\ reached'[p] = reached[p] \cup {"confirmed"}
        /\ \A o \in Orders : o # p => status'[o] = status[o] /\ reached'[o] = reached[o]
    BY <1>t, <2>1, <2>2, WriteEffect
  <2>4. "confirmed" \notin reached[p] /\ ~WasShipped(p)
    BY <1>t, <2>1, StageOrder DEF ConfirmedOnce, NoStageSkipped, WasShipped
  <2>5. \A o \in Orders : /\ WasShipped(o)' => WasShipped(o)
                          /\ status'[o] = "confirmed" =>
                               status[o] = "confirmed" \/ ~WasShipped(o)'
    BY <2>3, <2>4 DEF WasShipped
  <2>6. QED
    BY <1>k, <2>1, <2>5
<1>4. ASSUME NEW p \in Orders, ShipOrder(r, p) PROVE Orderly(r)'
  BY <1>t, <1>4, ShipStep
<1>5. ASSUME MirrorUpdate(r) PROVE Orderly(r)'
  BY <1>5, MirrorStep
<1>6. ASSUME NEW c \in Customers, NEW m \in Update \cup Review, SendJson(c, m),
             handling'[r] = handling[r],
             \A o \in Orders : /\ WasShipped(o)' => WasShipped(o)
                               /\ status'[o] = "confirmed" => status[o] = "confirmed"
      PROVE  Orderly(r)'
  <2>1. /\ \A x \in Sessions \ {c} : outbox'[x] = outbox[x]
        /\ conn[c] # "online" => outbox'[c] = outbox[c]
        /\ UNCHANGED <<conn, inbox>>
    BY <1>t, <1>6, SendAppends
  <2>2. /\ outbox'[r] = outbox[r]
        /\ \A x \in Sessions : conn'[x] # "online" => conn[x] # "online" /\ outbox'[x] = outbox[x]
    BY <1>t, <2>1
  <2>3. QED
    BY <1>t, <1>6, <2>1, <2>2, CalmStep
<1>7. ASSUME NEW c \in Customers, MarkOrderDelivered(c) PROVE Orderly(r)'
  <2>1. PICK v \in panel[c] : /\ Write([order |-> v.order, status |-> "delivered"])
                              /\ SendJson(c, [order |-> v.order, status |-> "delivered"])
    BY <1>7 DEF MarkOrderDelivered, UpdateOrderStatus
  <2> DEFINE u == [order |-> v.order, status |-> "delivered"]
  <2>2. u \in Update /\ u.status = "delivered" /\ Write(u) /\ SendJson(c, u)
    BY <1>t, <1>s, <2>1 DEF Update, View
  <2>3. handling'[r] = handling[r]
    BY <1>7, <1>t DEF MarkOrderDelivered, Begin
  <2> HIDE DEF u
  <2>4. QED
    BY <1>w, <1>6, <2>2, <2>3
<1>8. ASSUME NEW c \in Customers, SubmitReview(c) PROVE Orderly(r)'
  <2>1. PICK v \in panel[c] : SendJson(c, [order |-> v.order, status |-> "review"])
    BY <1>8 DEF SubmitReview
  <2> DEFINE m == [order |-> v.order, status |-> "review"]
  <2>2. m \in Update \cup Review /\ SendJson(c, m)
    BY <1>t, <2>1 DEF Review, View
  <2>3. UNCHANGED <<status, reached, handling>>
    BY <1>8 DEF SubmitReview
  <2> HIDE DEF m
  <2>4. QED
    BY <1>6, <2>2, <2>3 DEF WasShipped
<1>9. ASSUME NEW s \in Sessions, ProcessCommand(s) PROVE Orderly(r)'
  BY <1>t, <1>9, ReadDashboardStep, ReadCustomerStep
<1>10. ASSUME NEW c \in Customers, OnOrderStatusUpdated(c) PROVE Orderly(r)'
  BY <1>t, <1>10, StoreStep
<1>11. ASSUME \/ CheckForNewData(r)
              \/ \E c \in Customers : \/ PaymentSucceeds(c) \/ RefreshPage(c)
                                      \/ \E p \in Orders : OpenOrder(c, p)
       PROVE  Orderly(r)'
  <2>1. UNCHANGED <<status, reached, conn, outbox, inbox>> /\ handling'[r] = handling[r]
    BY <1>t, <1>11 DEF CheckForNewData, PaymentSucceeds, RefreshPage, OpenOrder, End
  <2>2. QED
    BY <1>k, <2>1 DEF WasShipped
<1>12. ASSUME NEW s \in Sessions, Connect(s) PROVE Orderly(r)'
  <2>1. /\ UNCHANGED <<status, reached, handling, inbox, outbox>>
        /\ \A x \in Sessions : conn'[x] # "online" => conn[x] # "online"
    BY <1>t, <1>12 DEF Connect, TypeOK
  <2>2. QED
    BY <1>t, <2>1, CalmStep DEF WasShipped
<1>13. ASSUME NEW s \in Sessions, Restart(s) PROVE Orderly(r)'
  <2>1. /\ UNCHANGED <<status, reached, inbox, outbox>> /\ conn[s] # "online"
        /\ \A x \in Sessions : conn'[x] # "online" => conn[x] # "online"
        /\ s # r => handling'[r] = handling[r]
    BY <1>t, <1>13 DEF Restart, Online, End
  <2>2. CASE s = r
    BY <1>t, <2>1, <2>2, OfflineStep
  <2>3. CASE s # r
    BY <1>t, <2>1, <2>3, CalmStep DEF WasShipped
  <2>4. QED
    BY <2>2, <2>3
<1>14. ASSUME NEW s \in Sessions, Disconnect(s) PROVE FALSE
  BY <1>14 DEF Disconnect
<1>15. CASE UNCHANGED vars
  BY <1>k, <1>15 DEF vars, WasShipped
<1>16. QED
  BY <1>t, <1>1, <1>2, <1>3, <1>4, <1>5, <1>7, <1>8, <1>9, <1>10, <1>11, <1>12, <1>13, <1>14, <1>15
     DEF Next, Dashboard, Customer, Connection

\* A connection that broke stays in the history.
LEMMA BrokenStays ==
  ASSUME TrackingAssumption, TypeOK, broken, [Next]_vars
  PROVE  broken'
<1> USE DEF rows, screens, network
<1>1. ASSUME NEW s \in Sessions, NEW m, SendJson(s, m) PROVE broken'
  BY <1>1 DEF SendJson
<1>2. ASSUME NEW r \in Dashboards, Dashboard(r) PROVE broken'
  BY <1>1, <1>2 DEF Dashboard, CheckForNewData, MirrorUpdate, ConfirmOrder, ShipOrder, Sessions
<1>3. ASSUME NEW c \in Customers, Customer(c) PROVE broken'
  BY <1>1, <1>3
     DEF Customer, PaymentSucceeds, PaymentRefused, MarkOrderDelivered, RefreshPage,
         SubmitReview, OnOrderStatusUpdated, PlaceOrder, OpenOrder, Sessions
<1>4. ASSUME NEW s \in Sessions, Connection(s) PROVE broken'
  BY <1>4 DEF Connection, ProcessCommand, Connect, Disconnect, Restart
<1>5. QED
  BY <1>2, <1>3, <1>4 DEF Next, vars

\* ShippingIsRestored, with one dashboard: a shipped order that a late push has set back
\* to confirmed is shipped again by what is still on its way, whatever the number of
\* orders and windows, as long as no connection breaks.
THEOREM ShippingComesBack ==
  ASSUME TrackingAssumption, NEW CONSTANT r, OneDashboard(r)
  PROVE  Spec => []ShippingIsRestored
<1> DEFINE Inv == ConfirmedOnce(r) /\ (~broken => Orderly(r))
<1>t. r \in Sessions
  BY DEF OneDashboard, Sessions
<1>1. Init => Inv
  <2> SUFFICES ASSUME Init PROVE Inv
    OBVIOUS
  <2>1. ConfirmedOnce(r)
    BY <1>t DEF Init, ConfirmedOnce, OneDashboard
  <2>2. Range(<<>>) = {} /\ <<>> \in Seq(Update)
    BY EmptySeq DEF Range
  <2>3. \A o \in Orders : Follows(<<>>, o)
    BY <2>2, NothingToFollow
  <2>4. Orderly(r)
    BY <1>t, <2>2, <2>3
       DEF Init, Orderly, NewIsSilent, ShippingFollows, Restored, WasShipped
  <2>5. QED
    BY <2>1, <2>4
<1>2. KnownInv /\ Inv /\ [Next]_vars => Inv'
  <2> SUFFICES ASSUME KnownInv, Inv, [Next]_vars PROVE Inv'
    OBVIOUS
  <2>1. ConfirmedOnce(r)'
    BY OnceStep
  <2>2. ASSUME ~broken' PROVE Orderly(r)'
    <3>1. ~broken
      BY <2>2, BrokenStays DEF KnownInv, StageInv
    <3>2. QED
      BY <2>2, <3>1, OrderlyStep
  <2>3. QED
    BY <2>1, <2>2
<1>3. Inv => ShippingIsRestored
  BY <1>t DEF Orderly, Restored, ComingFrom, WasShipped, Shipped, ShippingIsRestored, OnItsWay
<1>4. QED
  BY <1>1, <1>2, <1>3, KnownInvariant, PTL DEF Spec

-----------------------------------------------------------------------------
(***************************************************************************)
(* Without a server: one dashboard that nobody writes past, so that the    *)
(* orders it may confirm or ship are as it shows them.                     *)
(***************************************************************************)

LocalOnly == ~Network /\ WalletOrders = {} /\ \E r : Dashboards = {r}

NothingSent ==
  /\ \A s \in Sessions : conn[s] # "online" /\ outbox[s] = <<>>
  /\ \A c \in Customers : inbox[c] = <<>>

NothingUnpaid == \A c \in Customers : \A u \in handling[c] : u.status = "delivered"

\* What the dashboard offers a button for is in that stage, except for the order
\* that its running handler is moving on.
BoardIsCurrent ==
  \A r \in Dashboards, o \in Orders :
     /\ board[r][o] \in {"pending", "confirmed"}
     /\ \A u \in handling[r] : u.order # o
     => status[o] = board[r][o]

\* What a page offers to mark as delivered has been shipped.
PageIsLate ==
  \A c \in Customers : \A v \in panel[c] :
     v.status = "shipped" => status[v.order] \in {"shipped", "delivered"}

LocalInv == StageInv /\ NothingSent /\ NothingUnpaid /\ BoardIsCurrent /\ PageIsLate

\* The steps that are left when nobody is connected.
LocalNext ==
  \/ \E r \in Dashboards :
        \/ CheckForNewData(r) \/ MirrorUpdate(r)
        \/ \E o \in Orders : ConfirmOrder(r, o) \/ ShipOrder(r, o)
  \/ \E c \in Customers :
        \/ MarkOrderDelivered(c) \/ RefreshPage(c) \/ SubmitReview(c)
        \/ \E o \in Orders : PlaceOrder(c, o) \/ OpenOrder(c, o)
  \/ \E s \in Sessions : Restart(s)

\* Without a server and wallet orders, the steps that only connections, pushes
\* and payments make cannot be taken.
LEMMA LocalActions ==
  ASSUME TrackingAssumption, LocalOnly, LocalInv, Next
  PROVE  LocalNext /\ NothingSent'
<1> USE DEF rows, screens, network
<1>t. TypeOK
  BY DEF LocalInv, StageInv
<1>n. /\ NothingSent /\ NothingUnpaid
      /\ Customers \subseteq Sessions /\ Dashboards \subseteq Sessions
  BY DEF LocalInv, Sessions
<1>1. ASSUME NEW c \in Customers, PaymentSucceeds(c) \/ PaymentRefused(c) PROVE FALSE
  BY <1>1, <1>n DEF PaymentSucceeds, PaymentRefused, NothingUnpaid
<1>2. ASSUME NEW c \in Customers, OnOrderStatusUpdated(c) PROVE FALSE
  BY <1>2, <1>n DEF OnOrderStatusUpdated, NothingSent
<1>3. ASSUME NEW s \in Sessions, ProcessCommand(s) \/ Connect(s) \/ Disconnect(s) PROVE FALSE
  BY <1>3, <1>n DEF ProcessCommand, Connect, Disconnect, Online, NothingSent, LocalOnly
<1>4. LocalNext
  BY <1>1, <1>2, <1>3 DEF Next, Dashboard, Customer, Connection, LocalNext
<1>5. ASSUME NEW s \in Sessions, NEW m, SendJson(s, m) PROVE UNCHANGED network
  BY <1>5, <1>n DEF SendJson, NothingSent
<1>6. ASSUME UNCHANGED network PROVE NothingSent'
  BY <1>6, <1>n DEF NothingSent
<1>7. ASSUME NEW s \in Sessions, Restart(s) PROVE NothingSent'
  BY <1>t, <1>7, <1>n DEF Restart, NothingSent, TypeOK
<1>8. ASSUME NEW r \in Dashboards, NEW o \in Orders, ConfirmOrder(r, o) \/ ShipOrder(r, o)
      PROVE  NothingSent'
  BY <1>6, <1>8 DEF ConfirmOrder, ShipOrder
<1>9. ASSUME NEW r \in Dashboards, CheckForNewData(r) \/ MirrorUpdate(r) PROVE NothingSent'
  BY <1>5, <1>6, <1>9, <1>n DEF CheckForNewData, MirrorUpdate
<1>10. ASSUME NEW c \in Customers, MarkOrderDelivered(c) \/ RefreshPage(c) \/ SubmitReview(c)
       PROVE  NothingSent'
  BY <1>5, <1>6, <1>10, <1>n DEF MarkOrderDelivered, RefreshPage, SubmitReview
<1>11. ASSUME NEW c \in Customers, NEW o \in Orders, PlaceOrder(c, o) \/ OpenOrder(c, o)
       PROVE  NothingSent'
  BY <1>6, <1>11 DEF PlaceOrder, OpenOrder
<1>12. QED
  BY <1>4, <1>7, <1>8, <1>9, <1>10, <1>11 DEF LocalNext

\* Entering the next stage is a step of the documented machine.
LEMMA WriteAdvances ==
  ASSUME NEW o \in Orders, NEW s \in Statuses, Write([order |-> o, status |-> s]),
         status[o] = CASE s = "pending" -> "none" [] s = "confirmed" -> "pending"
                       [] s = "shipped" -> "confirmed" [] s = "delivered" -> "shipped"
                       [] s = "cancelled" -> "pending"
  PROVE  DocumentedMachine!Next
<1>1. DocumentedMachine!Enter(o, s) /\ s \in DocumentedMachine!Stages
  BY DEF Write, Statuses, DocumentedMachine!Enter, DocumentedMachine!Stages
<1>2. status[o] = DocumentedMachine!Before[s]
  BY <1>1 DEF DocumentedMachine!Before
<1>3. DocumentedMachine!Advance(o)
  BY <1>1, <1>2 DEF DocumentedMachine!Advance
<1>4. QED
  BY <1>3 DEF DocumentedMachine!Next

\* Every local step is a step of the documented machine and leaves the dashboard
\* current and the pages late.
LEMMA LocalStep ==
  ASSUME TrackingAssumption, LocalOnly, LocalInv, [Next]_vars
  PROVE  /\ [DocumentedMachine!Next]_(DocumentedMachine!vars)
         /\ NothingUnpaid' /\ BoardIsCurrent' /\ PageIsLate'
<1> USE DEF rows, screens, network
<1> DEFINE Good == /\ DocumentedMachine!Next \/ UNCHANGED <<status, reached>>
                   /\ NothingUnpaid' /\ BoardIsCurrent' /\ PageIsLate'
<1>t. /\ TypeOK /\ NothingInvented
      /\ NothingUnpaid /\ BoardIsCurrent /\ PageIsLate
      /\ status \in [Orders -> Statuses \cup {"none"}]
      /\ reached \in [Orders -> SUBSET Statuses]
      /\ board \in [Dashboards -> [Orders -> Statuses \cup {"none"}]]
      /\ panel \in [Customers -> SUBSET View]
      /\ handling \in [Sessions -> SUBSET Update]
  BY DEF LocalInv, StageInv, TypeOK
<1>c. /\ Customers \subseteq Sessions /\ Dashboards \subseteq Sessions
      /\ \A c \in Customers, r \in Dashboards : c # r
  BY DEF Sessions, TrackingAssumption
<1>s. {"pending", "confirmed", "shipped", "delivered", "cancelled"} = Statuses
  BY DEF Statuses
<1>v. \A c \in Customers : \A v \in panel[c] : v.order \in Orders /\ Held(v)
  BY <1>t DEF View, NothingInvented
\* Steps that write no status.
<1>n. ASSUME UNCHANGED <<status, reached>>,
             \A c \in Customers : handling'[c] \subseteq handling[c],
             \A r \in Dashboards : \/ board'[r] = board[r] /\ handling'[r] = handling[r]
                                  \/ board'[r] = status,
             \A c \in Customers : \A v \in panel'[c] :
                \/ \E w \in panel[c] : v.order = w.order /\ v.status = w.status
                \/ v.status = status[v.order]
      PROVE  Good
  <2>1. NothingUnpaid'
    BY <1>t, <1>n DEF NothingUnpaid
  <2>2. BoardIsCurrent'
    BY <1>t, <1>n DEF BoardIsCurrent
  <2>3. PageIsLate'
    BY <1>t, <1>n DEF PageIsLate
  <2>4. QED
    BY <1>n, <2>1, <2>2, <2>3
\* Steps that move an order of the idle dashboard on.
<1>d. ASSUME NEW r \in Dashboards, NEW o \in Orders, NEW s \in {"confirmed", "shipped"},
             Idle(r), board[r][o] = IF s = "confirmed" THEN "pending" ELSE "confirmed",
             Write([order |-> o, status |-> s]), Begin(r, [order |-> o, status |-> s]),
             UNCHANGED <<board, panel>>
      PROVE  Good
  <2>1. status[o] = IF s = "confirmed" THEN "pending" ELSE "confirmed"
    BY <1>t, <1>d DEF Idle, BoardIsCurrent
  <2>2. DocumentedMachine!Next
    BY <1>s, <1>d, <2>1, WriteAdvances
  <2>3. /\ status' = [status EXCEPT ![o] = s]
        /\ handling' = [handling EXCEPT ![r] = {[order |-> o, status |-> s]}]
        /\ r \in Sessions
    BY <1>c, <1>d DEF Write, Begin
  <2>4. NothingUnpaid'
    BY <1>t, <1>c, <2>3 DEF NothingUnpaid
  <2>5. BoardIsCurrent'
    <3>1. \A q \in Dashboards : q = r
      BY DEF LocalOnly
    <3>2. \A p \in Orders : (\A u \in handling'[r] : u.order # p) => p # o
      BY <1>t, <2>3
    <3>3. \A p \in Orders : p # o => status'[p] = status[p]
      BY <1>t, <2>3
    <3>4. handling[r] = {}
      BY <1>d DEF Idle
    <3>5. QED
      BY <1>t, <1>d, <3>1, <3>2, <3>3, <3>4 DEF BoardIsCurrent
  <2>6. PageIsLate'
    BY <1>t, <1>v, <1>d, <2>1, <2>3 DEF PageIsLate
  <2>7. QED
    BY <2>2, <2>4, <2>5, <2>6
<1>1. ASSUME NEW r \in Dashboards, CheckForNewData(r) \/ MirrorUpdate(r) PROVE Good
  <2>1. board' = [board EXCEPT ![r] = status] /\ UNCHANGED <<status, reached, panel>>
    BY <1>1 DEF CheckForNewData, MirrorUpdate, LoadOrders
  <2>2. handling' = handling \/ handling' = [handling EXCEPT ![r] = {}]
    BY <1>1 DEF CheckForNewData, MirrorUpdate, End
  <2>3. \A s \in Sessions : handling'[s] \subseteq handling[s] /\ (s # r => handling'[s] = handling[s])
    BY <1>t, <2>2
  <2>4. QED
    BY <1>t, <1>c, <1>n, <2>1, <2>3
<1>2. ASSUME NEW r \in Dashboards, NEW o \in Orders, ConfirmOrder(r, o) PROVE Good
  BY <1>2, <1>d DEF ConfirmOrder, ConfirmEnabled, UpdateOrderStatus
<1>3. ASSUME NEW r \in Dashboards, NEW o \in Orders, ShipOrder(r, o) PROVE Good
  BY <1>3, <1>d DEF ShipOrder, ShipEnabled, UpdateOrderStatus
<1>4. ASSUME NEW c \in Customers, MarkOrderDelivered(c) PROVE Good
  <2>1. PICK v \in panel[c] :
          /\ v.status = "shipped" /\ Write([order |-> v.order, status |-> "delivered"])
          /\ Begin(c, [order |-> v.order, status |-> "delivered"])
    BY <1>4 DEF MarkOrderDelivered, CanConfirmDelivery, UpdateOrderStatus
  <2>2. /\ v.order \in Orders /\ c \in Sessions
        /\ status[v.order] \in {"shipped", "delivered"}
        /\ UNCHANGED <<board, panel>>
    BY <1>t, <1>c, <1>v, <1>4, <2>1 DEF PageIsLate, MarkOrderDelivered
  <2>3. /\ status' = [status EXCEPT ![v.order] = "delivered"]
        /\ reached' = [reached EXCEPT ![v.order] = @ \cup {"delivered"}]
        /\ handling' = [handling EXCEPT ![c] = {[order |-> v.order, status |-> "delivered"]}]
    BY <2>1 DEF Write, Begin
  <2>4. DocumentedMachine!Next \/ UNCHANGED <<status, reached>>
    <3>1. CASE status[v.order] = "shipped"
      BY <1>s, <2>1, <2>2, <3>1, WriteAdvances
    <3>2. CASE status[v.order] = "delivered"
      <4>1. "delivered" \in reached[v.order]
        BY <1>t, <2>2, <3>2 DEF NothingInvented, Placed
      <4>2. QED
        BY <1>t, <2>2, <2>3, <3>2, <4>1
    <3>3. QED
      BY <2>2, <3>1, <3>2
  <2>5. NothingUnpaid'
    BY <1>t, <1>c, <2>2, <2>3 DEF NothingUnpaid
  <2>6. BoardIsCurrent'
    <3>1. \A r \in Dashboards : handling'[r] = handling[r]
      BY <1>t, <1>c, <2>3
    <3>2. QED
      BY <1>t, <2>2, <2>3, <3>1 DEF BoardIsCurrent
  <2>7. PageIsLate'
    BY <1>t, <1>v, <2>2, <2>3 DEF PageIsLate
  <2>8. QED
    BY <2>4, <2>5, <2>6, <2>7
<1>5. ASSUME NEW c \in Customers, RefreshPage(c) PROVE Good
  <2>1. PICK u \in handling[c] : LoadOrderDetails(c, u.order)
    BY <1>5 DEF RefreshPage
  <2>2. /\ panel' = [panel EXCEPT ![c] = {Page(u.order)}]
        /\ handling' = [handling EXCEPT ![c] = {}]
        /\ UNCHANGED <<status, reached, board>>
    BY <1>5, <2>1 DEF RefreshPage, LoadOrderDetails, End
  <2>3. Page(u.order).status = status[Page(u.order).order]
    BY DEF Page
  <2>4. \A d \in Customers : \A v \in panel'[d] : v \in panel[d] \/ v = Page(u.order)
    BY <1>t, <2>2
  <2>5. \A s \in Sessions : handling'[s] \subseteq handling[s] /\ (s # c => handling'[s] = handling[s])
    BY <1>t, <2>2
  <2>6. QED
    BY <1>n, <1>c, <2>2, <2>3, <2>4, <2>5
<1>6. ASSUME NEW c \in Customers, SubmitReview(c) PROVE Good
  <2>1. PICK v \in panel[c] : panel' = [panel EXCEPT ![c] = {[v EXCEPT !.reviewed = TRUE]}]
    BY <1>6 DEF SubmitReview
  <2>2. [v EXCEPT !.reviewed = TRUE].order = v.order /\ [v EXCEPT !.reviewed = TRUE].status = v.status
    BY <1>t, <2>1 DEF View
  <2>3. \A d \in Customers : \A w \in panel'[d] :
           \E x \in panel[d] : w.order = x.order /\ w.status = x.status
    BY <1>t, <2>1, <2>2
  <2>4. UNCHANGED <<status, reached, board, handling>>
    BY <1>6 DEF SubmitReview
  <2>5. QED
    BY <1>n, <2>3, <2>4
<1>7. ASSUME NEW c \in Customers, NEW o \in Orders, PlaceOrder(c, o) PROVE Good
  <2>1. /\ Write([order |-> o, status |-> "pending"]) /\ status[o] = "none"
        /\ UNCHANGED <<board, panel, handling>>
    BY <1>7 DEF PlaceOrder, Placed, LocalOnly
  <2>2. DocumentedMachine!Next
    BY <1>s, <2>1, WriteAdvances
  <2>3. status' = [status EXCEPT ![o] = "pending"]
    BY <2>1 DEF Write
  <2>4. NothingUnpaid' /\ BoardIsCurrent'
    BY <1>t, <2>1, <2>3 DEF NothingUnpaid, BoardIsCurrent
  <2>5. PageIsLate'
    BY <1>t, <1>v, <2>1, <2>3 DEF PageIsLate
  <2>6. QED
    BY <2>2, <2>4, <2>5
<1>8. ASSUME NEW c \in Customers, NEW o \in Orders, OpenOrder(c, o) PROVE Good
  <2>1. /\ panel' = [panel EXCEPT ![c] = {Page(o)}]
        /\ UNCHANGED <<status, reached, board, handling>>
    BY <1>8 DEF OpenOrder, LoadOrderDetails
  <2>2. Page(o).status = status[Page(o).order]
    BY DEF Page
  <2>3. \A d \in Customers : \A v \in panel'[d] : v \in panel[d] \/ v = Page(o)
    BY <1>t, <2>1
  <2>4. QED
    BY <1>n, <2>1, <2>2, <2>3
<1>9. ASSUME NEW s \in Sessions, Restart(s) PROVE Good
  <2>1. /\ board' = IF s \in Dashboards THEN [board EXCEPT ![s] = status] ELSE board
        /\ panel' = [c \in Customers |-> IF c = s THEN {} ELSE panel[c]]
        /\ handling' = [handling EXCEPT ![s] = {}]
        /\ UNCHANGED <<status, reached>>
    BY <1>9 DEF Restart, End
  <2>2. \A x \in Sessions : handling'[x] \subseteq handling[x] /\ (x # s => handling'[x] = handling[x])
    BY <1>t, <2>1
  <2>3. \A c \in Customers : panel'[c] \subseteq panel[c]
    BY <2>1
  <2>4. \A r \in Dashboards : IF r = s THEN board'[r] = status ELSE board'[r] = board[r]
    BY <1>t, <2>1
  <2>5. QED
    BY <1>n, <1>c, <2>1, <2>2, <2>3, <2>4
<1>10. ASSUME UNCHANGED vars PROVE Good
  <2>1. UNCHANGED <<status, reached, board, panel, handling>>
    BY <1>10 DEF vars
  <2>2. /\ \A c \in Customers : handling'[c] \subseteq handling[c]
        /\ \A r \in Dashboards : board'[r] = board[r] /\ handling'[r] = handling[r]
        /\ \A c \in Customers : \A v \in panel'[c] : v \in panel[c]
    BY <2>1
  <2>3. UNCHANGED <<status, reached>>
    BY <2>1
  <2> HIDE DEF Good
  <2>4. QED
    BY <1>n, <2>2, <2>3
<1>11. Good
  <2>1. CASE LocalNext
    BY <1>1, <1>2, <1>3, <1>4, <1>5, <1>6, <1>7, <1>8, <1>9, <2>1 DEF LocalNext
  <2>2. CASE Next
    BY <2>1, <2>2, LocalActions
  <2> HIDE DEF Good
  <2>3. QED
    BY <1>10, <2>2
<1>12. QED
  BY <1>11 DEF DocumentedMachine!vars

\* With one dashboard, no server and cash orders, an order runs through exactly the
\* machine of PROTOCOL.md:64, with any number of customer windows and orders, and
\* with processes that end at any time.
THEOREM LocalOrdersAreCanonical ==
  ASSUME TrackingAssumption, LocalOnly
  PROVE  Spec => Canonical
<1>1. Init => LocalInv /\ DocumentedMachine!Init
  <2> SUFFICES ASSUME Init PROVE LocalInv /\ DocumentedMachine!Init
    OBVIOUS
  <2>1. NothingSent /\ NothingUnpaid
    BY DEF Init, NothingSent, NothingUnpaid, Sessions
  <2>2. BoardIsCurrent /\ PageIsLate
    BY DEF Init, BoardIsCurrent, PageIsLate
  <2>3. DocumentedMachine!Init
    BY DEF Init, DocumentedMachine!Init
  <2>4. QED
    BY <2>1, <2>2, <2>3, StageInit DEF LocalInv
<1>2. LocalInv /\ [Next]_vars => LocalInv' /\ [DocumentedMachine!Next]_(DocumentedMachine!vars)
  <2> SUFFICES ASSUME LocalInv, [Next]_vars
               PROVE  LocalInv' /\ [DocumentedMachine!Next]_(DocumentedMachine!vars)
    OBVIOUS
  <2>1. StageInv'
    BY TypeStep, StageStep DEF LocalInv, StageInv
  <2>2. NothingSent'
    <3>1. CASE Next
      BY <3>1, LocalActions
    <3>2. CASE UNCHANGED vars
      BY <3>2 DEF vars, network, NothingSent, LocalInv
    <3>3. QED
      BY <3>1, <3>2
  <2>3. QED
    BY <2>1, <2>2, LocalStep DEF LocalInv
<1>3. QED
  BY <1>1, <1>2, PTL DEF Spec, Canonical, DocumentedMachine!Spec

=============================================================================
