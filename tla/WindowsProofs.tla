---------------------------- MODULE WindowsProofs ---------------------------
(***************************************************************************)
(* Theorems about what two kinds of client windows show: Dashboard, for    *)
(* any number of orders, and RestaurantList, for any number of   *)
(* clients, restaurants and changes.                                       *)
(***************************************************************************)
EXTENDS Dashboard, RestaurantList, FiniteSetTheorems, SequenceTheorems, TLAPS

-----------------------------------------------------------------------------
(***************************************************************************)
(* Dashboard.                                                              *)
(***************************************************************************)

\* A restaurant has finitely many orders.
LEMMA WindowBounds ==
  ASSUME DashboardAssumption
  PROVE  IsFiniteSet(Orders)
BY DEF DashboardAssumption

WindowStage == {"pending", "confirmed", "shipped"}
WindowUpdate == [order : Orders, status : WindowStage]

WindowTypes ==
  /\ rows \in [Orders -> WindowStage \cup {"none", "deleted"}]
  /\ list \in [Orders -> WindowStage \cup {"none"}]
  /\ table \in [Orders -> WindowStage \cup {"none"}]
  /\ last \in Nat /\ boxes \in 0..2
  /\ due \in BOOLEAN /\ notice \in BOOLEAN
  /\ written \in Seq(WindowUpdate) /\ sent \in Seq(WindowUpdate)
  /\ unsent \subseteq WindowUpdate /\ known \subseteq Orders

LEMMA WindowTypesAre == DashboardTypeOK <=> WindowTypes
BY DEF DashboardTypeOK, WindowTypes, Gone, WindowStage, WindowUpdate

\* The count of a list is the number of the orders listed.
LEMMA CountIs == \A l : Count(l) = Cardinality(Listed(l))
BY DEF Count

\* The types and the order of the mirrored updates; a load that is due is a handler's, or a
\* poll's outside of its own box.
WindowInv == WindowTypes /\ MirrorsInOrder /\ (due => boxes < 2)

\* The list and the count follow what was announced: no more orders are listed or counted
\* than have ever been known, and a known order leaves the list by being deleted only.
KnownInv ==
  /\ last <= Cardinality(known)
  /\ Count(list) <= Cardinality(known)
  /\ \A o \in known : rows[o] # "none"
  /\ \A o \in known : rows[o] # "deleted" => list[o] # "none"
  /\ boxes = 0 => last = Count(list)

LEMMA SelectedType ==
  ASSUME WindowTypes
  PROVE  Selected \in [Orders -> WindowStage \cup {"none"}]
BY DEF WindowTypes, Selected, Gone, WindowStage

\* The end of a load sends what a handler has written, when no box is left.
LEMMA LoadEnds ==
  ASSUME WindowInv, NEW n \in 0..2, EndOfLoad(n),
      list' \in [Orders -> WindowStage \cup {"none"}],
         IsFiniteSet(Orders)
  PROVE  /\ table' = list' /\ last' \in Nat /\ boxes' = n
         /\ notice' \in BOOLEAN /\ sent' \in Seq(WindowUpdate) /\ written' = written
         /\ unsent' \subseteq WindowUpdate
         /\ unsent' = {} => sent' = written'
         /\ \A u \in unsent' : written' = Append(sent', u) /\ boxes' > 0
<1>1. table' = list' /\ last' = Count(list') /\ boxes' = n
  BY DEF EndOfLoad
<1>2. IsFiniteSet(Listed(list'))
  <2>1. Listed(list') \in SUBSET Orders
    BY DEF Listed
  <2>2. QED
    BY <2>1, FS_Subset
<1>3. last' \in Nat
  BY <1>1, <1>2, CountIs, FS_CardinalityType
<1>4. CASE n = 0 /\ unsent # {}
  <2>1. /\ unsent' = {} /\ notice' = TRUE /\ written' = written
        /\ \E u \in unsent : sent' = Append(sent, u)
    BY <1>4 DEF EndOfLoad, HandlerGoesOn
  <2>2. PICK u \in unsent : sent' = Append(sent, u)
    BY <2>1
  <2>3. u \in WindowUpdate /\ sent \in Seq(WindowUpdate) /\ written = Append(sent, u)
    BY <2>2 DEF WindowInv, WindowTypes, MirrorsInOrder, WindowUpdate, WindowStage
  <2>4. sent' \in Seq(WindowUpdate) /\ sent' = written'
    BY <2>1, <2>2, <2>3
  <2>5. QED
    BY <1>1, <1>3, <2>1, <2>4
<1>5. CASE ~(n = 0 /\ unsent # {})
  <2>1. UNCHANGED <<unsent, notice, written, sent>>
    BY <1>5 DEF EndOfLoad, updating
  <2>2. n = 0 => unsent = {}
    BY <1>5
  <2>3. QED
    BY <1>1, <1>3, <2>1, <2>2 DEF WindowInv, WindowTypes, MirrorsInOrder, WindowUpdate,
       WindowStage
<1>6. QED
  BY <1>4, <1>5

\* A step of the restaurant's window or of another process keeps the order of the updates.
LEMMA WindowStep ==
  ASSUME DashboardAssumption, WindowInv, [DashboardNext]_dashboardVars
  PROVE  WindowInv'
<1>. USE DEF WindowInv, history, updating
<1>0. /\ WindowTypes /\ MirrorsInOrder /\ boxes \in 0..2
      /\ IsFiniteSet(Orders)
  BY WindowBounds DEF WindowTypes
<1>1. ASSUME NEW o \in Orders, CreateNewOrder(o) \/ DeleteUserOf(o)
      PROVE  WindowInv'
  <2>1. /\ rows' \in [Orders -> WindowStage \cup {"none", "deleted"}]
        /\ UNCHANGED <<list, last, table, due, boxes, unsent, notice, written, sent, known>>
    BY <1>0, <1>1 DEF CreateNewOrder, DeleteUserOf, WindowTypes, Gone, WindowStage
  <2>2. WindowTypes'
    BY <1>0, <2>1 DEF WindowTypes, Gone, WindowStage
  <2>3. QED
    BY <2>1, <2>2 DEF MirrorsInOrder
<1>2. CASE CheckForNewData
  <2>0. Cardinality(unsent) \in 0..1
    <3>1. CASE unsent = {}
      BY <3>1, FS_EmptySet
    <3>2. CASE unsent # {}
      <4>1. PICK u : u \in unsent
        BY <3>2
      <4>2. ASSUME NEW v \in unsent PROVE v = u
        <5>1. /\ written = Append(sent, u) /\ written = Append(sent, v)
              /\ sent \in Seq(WindowUpdate) /\ u \in WindowUpdate /\ v \in WindowUpdate
          BY <1>0, <4>1, <4>2 DEF MirrorsInOrder, WindowTypes
        <5>2. /\ Append(sent, u)[Len(sent) + 1] = u
              /\ Append(sent, v)[Len(sent) + 1] = v
          BY <5>1, AppendProperties
        <5>3. QED
          BY <5>1, <5>2
      <4>3. unsent = {u}
        BY <4>1, <4>2
      <4>4. Cardinality({u}) = 1
        BY FS_Singleton
      <4>5. QED
        BY <4>3, <4>4
    <3>3. QED
      BY <3>1, <3>2
  <2>1. /\ due' = TRUE /\ ~due /\ boxes < 2
        /\ UNCHANGED <<rows, list, last, table, boxes, unsent, notice, written, sent, known>>
    BY <1>0, <1>2, <2>0 DEF CheckForNewData, Polling
  <2>2. WindowTypes'
    BY <1>0, <2>1 DEF WindowTypes
  <2>3. QED
    BY <2>1, <2>2 DEF MirrorsInOrder
<1>3. CASE LoadQuietly
  <2>1. /\ due /\ due' = FALSE /\ list' = Selected /\ EndOfLoad(boxes)
        /\ UNCHANGED <<rows, known>>
    BY <1>3 DEF LoadQuietly, Load
  <2>2. list' \in [Orders -> WindowStage \cup {"none"}]
    BY <1>0, <2>1, SelectedType
  <2>3. /\ table' = list' /\ last' \in Nat /\ boxes' = boxes
        /\ notice' \in BOOLEAN /\ sent' \in Seq(WindowUpdate) /\ written' = written
        /\ unsent' \subseteq WindowUpdate
        /\ unsent' = {} => sent' = written'
        /\ \A u \in unsent' : written' = Append(sent', u) /\ boxes' > 0
    BY <1>0, <2>1, <2>2, LoadEnds
  <2>4. WindowTypes'
    BY <1>0, <2>1, <2>2, <2>3 DEF WindowTypes
  <2>5. QED
    BY <2>1, <2>3, <2>4 DEF MirrorsInOrder
<1>4. CASE LoadAndAnnounce
  <2>1. /\ due /\ due' = FALSE /\ list' = Selected /\ boxes' = boxes + 1
        /\ known' = known \cup Listed(list')
        /\ UNCHANGED <<rows, last, table, unsent, notice, written, sent>>
    BY <1>4 DEF LoadAndAnnounce, Load
  <2>2. list' \in [Orders -> WindowStage \cup {"none"}]
    BY <1>0, <2>1, SelectedType
  <2>3. boxes' \in 0..2 /\ boxes' > 0
    BY <1>0, <2>1
  <2>4. known' \subseteq Orders
    BY <1>0, <2>1 DEF Listed, WindowTypes
  <2>5. WindowTypes'
    BY <1>0, <2>1, <2>2, <2>3, <2>4 DEF WindowTypes
  <2>6. QED
    BY <2>1, <2>3, <2>5 DEF MirrorsInOrder
<1>5. CASE CloseBox
  <2>1. ~due /\ boxes > 0 /\ UNCHANGED <<rows, list, due, known>> /\ EndOfLoad(boxes - 1)
    BY <1>5 DEF CloseBox
  <2>2. list' \in [Orders -> WindowStage \cup {"none"}]
    BY <1>0, <2>1 DEF WindowTypes, WindowStage
  <2>3. boxes - 1 \in 0..2
    BY <1>0, <2>1
  <2>4. /\ table' = list' /\ last' \in Nat /\ boxes' = boxes - 1
        /\ notice' \in BOOLEAN /\ sent' \in Seq(WindowUpdate) /\ written' = written
        /\ unsent' \subseteq WindowUpdate
        /\ unsent' = {} => sent' = written'
        /\ \A u \in unsent' : written' = Append(sent', u) /\ boxes' > 0
    BY <1>0, <2>1, <2>2, <2>3, LoadEnds
  <2>5. WindowTypes'
    BY <1>0, <2>1, <2>2, <2>3, <2>4 DEF WindowTypes
  <2>6. QED
    BY <2>1, <2>4, <2>5 DEF MirrorsInOrder
<1>6. CASE UpdateOrdersView
  <2>1. /\ table' = list
        /\ UNCHANGED <<rows, list, last, due, boxes, unsent, notice, written, sent, known>>
    BY <1>6 DEF UpdateOrdersView
  <2>2. WindowTypes'
    BY <1>0, <2>1 DEF WindowTypes
  <2>3. QED
    BY <2>1, <2>2 DEF MirrorsInOrder
<1>7. CASE CloseNotice
  <2>1. /\ notice' = FALSE
        /\ UNCHANGED <<rows, list, last, table, due, boxes, unsent, written, sent, known>>
    BY <1>7 DEF CloseNotice
  <2>2. WindowTypes'
    BY <1>0, <2>1 DEF WindowTypes
  <2>3. QED
    BY <2>1, <2>2 DEF MirrorsInOrder
<1>8. ASSUME NEW o \in Orders, ConfirmOrder(o) \/ ShipOrder(o)
      PROVE  WindowInv'
  <2>1. PICK s \in WindowStage : UpdateOrderStatus(o, s)
    BY <1>8 DEF ConfirmOrder, ShipOrder, WindowStage
  <2>. DEFINE u == [order |-> o, status |-> s]
  <2>2. /\ ~due /\ boxes = 0 /\ unsent = {} /\ sent = written
        /\ UNCHANGED <<list, last, table, boxes, sent, known>>
    BY <1>0, <2>1 DEF UpdateOrderStatus, Idle, MirrorsInOrder
  <2>3. CASE rows[o] \in Gone
    <3>1. notice' = TRUE /\ UNCHANGED <<rows, due, unsent, written>>
      BY <2>1, <2>3 DEF UpdateOrderStatus
    <3>2. WindowTypes'
      BY <1>0, <2>2, <3>1 DEF WindowTypes
    <3>3. QED
      BY <2>2, <3>1, <3>2 DEF MirrorsInOrder
  <2>4. CASE rows[o] \notin Gone
    <3>1. /\ rows' = [rows EXCEPT ![o] = s]
          /\ due' = TRUE /\ unsent' = {u} /\ written' = Append(written, u) /\ notice' = notice
      BY <2>1, <2>4 DEF UpdateOrderStatus
    <3>2. u \in WindowUpdate /\ written \in Seq(WindowUpdate)
      BY <1>0 DEF WindowTypes, WindowUpdate, WindowStage
    <3>3. written' \in Seq(WindowUpdate) /\ unsent' \subseteq WindowUpdate
      BY <3>1, <3>2
    <3>4. rows' \in [Orders -> WindowStage \cup {"none", "deleted"}]
      BY <1>0, <2>1, <3>1 DEF WindowTypes
    <3>5. WindowTypes'
      BY <1>0, <2>2, <3>1, <3>3, <3>4 DEF WindowTypes
    <3>6. boxes < 2
      BY <1>0, <2>2, WindowBounds
    <3>7. MirrorsInOrder'
      BY <2>2, <3>1 DEF MirrorsInOrder
    <3>8. QED
      BY <2>2, <3>1, <3>5, <3>6, <3>7
  <2>5. QED
    BY <2>3, <2>4
<1>9. CASE UNCHANGED dashboardVars
  BY <1>9 DEF dashboardVars, WindowTypes, MirrorsInOrder
<1>10. QED
  BY <1>1, <1>2, <1>3, <1>4, <1>5, <1>6, <1>7, <1>8, <1>9 DEF DashboardNext

LEMMA WindowInit ==
  ASSUME DashboardAssumption, DashboardInit
  PROVE  WindowInv
<1>1. rows \in [Orders -> {"none", "pending"}]
  BY DEF DashboardInit
<1>2. Selected \in [Orders -> WindowStage \cup {"none"}]
  BY <1>1 DEF Selected, Gone, WindowStage
<1>3. Listed(Selected) \in SUBSET Orders
  BY DEF Listed
<1>4. last \in Nat
  BY <1>3, CountIs, FS_Subset, FS_CardinalityType, WindowBounds DEF DashboardInit
<1>5. known \subseteq Orders
  BY <1>3 DEF DashboardInit
<1>6. rows \in [Orders -> WindowStage \cup {"none", "deleted"}]
  BY <1>1 DEF WindowStage
<1>7. boxes \in 0..2 /\ written \in Seq(WindowUpdate) /\ sent \in Seq(WindowUpdate)
  BY WindowBounds DEF DashboardInit
<1>8. WindowTypes
  BY <1>2, <1>4, <1>5, <1>6, <1>7 DEF DashboardInit, WindowTypes
<1>9. QED
  BY <1>8 DEF DashboardInit, MirrorsInOrder, WindowInv

\* However often boxes open and close in a button's handler, what other sessions are told
\* of is what the restaurant did, in its order: MirrorsInOrder, for any number of orders.
THEOREM UpdatesAreMirroredInOrder ==
  ASSUME DashboardAssumption
  PROVE  DashboardSpec => [](DashboardTypeOK /\ MirrorsInOrder)
<1>1. DashboardInit => WindowInv
  BY WindowInit
<1>2. WindowInv /\ [DashboardNext]_dashboardVars => WindowInv'
  BY WindowStep
<1>3. WindowInv => DashboardTypeOK /\ MirrorsInOrder
  BY WindowTypesAre DEF WindowInv
<1>4. QED
  BY <1>1, <1>2, <1>3, PTL DEF DashboardSpec

\* Deleting a set from a finite one takes away what they share.
LEMMA WithoutShared ==
  ASSUME NEW S, NEW K, IsFiniteSet(S), IsFiniteSet(K)
  PROVE  /\ IsFiniteSet(S \ K) /\ IsFiniteSet(K \ S)
         /\ Cardinality(S) \in Nat /\ Cardinality(K) \in Nat
         /\ Cardinality(S \ K) \in Nat /\ Cardinality(K \ S) \in Nat
         /\ Cardinality(S) <= Cardinality(K) <=> Cardinality(S \ K) <= Cardinality(K \ S)
<1>. DEFINE B == S \cap K
<1>1. /\ S \ K \in SUBSET S /\ K \ S \in SUBSET K /\ B \in SUBSET S
      /\ (S \ K) \cup B = S /\ (K \ S) \cup B = K
      /\ (S \ K) \cap B = {} /\ (K \ S) \cap B = {}
  OBVIOUS
<1>. HIDE DEF B
<1>2. IsFiniteSet(S \ K) /\ IsFiniteSet(K \ S) /\ IsFiniteSet(B)
  BY <1>1, FS_Subset
<1>3. /\ Cardinality(S) = Cardinality(S \ K) + Cardinality(B) - Cardinality({})
      /\ Cardinality(K) = Cardinality(K \ S) + Cardinality(B) - Cardinality({})
  <2>1. Cardinality((S \ K) \cup B) =
          Cardinality(S \ K) + Cardinality(B) - Cardinality((S \ K) \cap B)
    BY <1>2, FS_Union
  <2>2. Cardinality((K \ S) \cup B) =
          Cardinality(K \ S) + Cardinality(B) - Cardinality((K \ S) \cap B)
    BY <1>2, FS_Union
  <2>3. QED
    BY <1>1, <2>1, <2>2
<1>4. /\ Cardinality(S \ K) \in Nat /\ Cardinality(K \ S) \in Nat
      /\ Cardinality(B) \in Nat /\ Cardinality({}) = 0
  BY <1>2, FS_CardinalityType, FS_EmptySet
<1>5. QED
  BY <1>2, <1>3, <1>4

\* What is listed, known or deleted is a finite set of orders.
LEMMA WindowSets ==
  ASSUME DashboardAssumption, NEW S, S \subseteq Orders
  PROVE  IsFiniteSet(S) /\ Cardinality(S) \in Nat
<1>1. S \in SUBSET Orders
  OBVIOUS
<1>2. QED
  BY <1>1, FS_Subset, FS_CardinalityType, WindowBounds

\* No more than there are in a set that holds them.
LEMMA WindowFewer ==
  ASSUME DashboardAssumption, NEW S, NEW T, S \subseteq T, T \subseteq Orders
  PROVE  Cardinality(S) <= Cardinality(T)
<1>1. IsFiniteSet(T) /\ S \in SUBSET T
  BY WindowSets
<1>2. QED
  BY <1>1, FS_Subset

\* A load that lists more than were counted makes all it lists known.
LEMMA KnownStep ==
  ASSUME DashboardAssumption, WindowInv, WindowInv', KnownInv, [DashboardNext]_dashboardVars
  PROVE  KnownInv'
<1>0. /\ known \subseteq Orders /\ known' \subseteq Orders
      /\ last \in Nat /\ boxes \in Nat /\ boxes' \in Nat
      /\ rows \in [Orders -> WindowStage \cup {"none", "deleted"}]
  BY WindowBounds DEF WindowInv, WindowTypes
<1>1. \A l : Listed(l) \subseteq Orders /\ Count(l) = Cardinality(Listed(l)) /\ Count(l) \in Nat
  BY CountIs, WindowSets DEF Listed
<1>2. CASE /\ UNCHANGED <<list, last, boxes, known>>
           /\ \A o \in known : rows'[o] # "none"
           /\ \A o \in known : rows'[o] # "deleted" => rows[o] # "deleted"
  BY <1>2 DEF KnownInv, Count, Listed
<1>3. ASSUME Load
      PROVE  /\ \A o \in Listed(list') : rows'[o] # "none"
             /\ \A o \in known : rows'[o] # "none"
             /\ \A o \in known : rows'[o] # "deleted" => list'[o] # "none"
             /\ \A o \in Listed(list') : list'[o] # "none"
  <2>1. list' = Selected /\ rows' = rows
    BY <1>3 DEF Load
  <2>2. QED
    BY <1>0, <2>1 DEF Selected, Listed, Gone, KnownInv
<1>4. CASE LoadQuietly
  <2>1. /\ Load /\ known' = known /\ Count(list') <= last
        /\ last' = Count(list')
    BY <1>0, <1>1, <1>4 DEF LoadQuietly, EndOfLoad, News
  <2>2. last <= Cardinality(known) /\ Cardinality(known) \in Nat
    BY <1>0, WindowSets DEF KnownInv
  <2>3. Count(list') <= Cardinality(known')
    BY <1>0, <1>1, <2>1, <2>2
  <2>4. QED
    BY <1>3, <2>1, <2>3 DEF KnownInv
<1>5. CASE LoadAndAnnounce
  <2>1. /\ Load /\ known' = known \cup Listed(list') /\ last' = last /\ boxes' = boxes + 1
    BY <1>5 DEF LoadAndAnnounce
  <2>2. /\ Cardinality(known) <= Cardinality(known')
        /\ Count(list') <= Cardinality(known')
        /\ Cardinality(known) \in Nat /\ Cardinality(known') \in Nat
    BY <1>0, <1>1, <2>1, WindowFewer, WindowSets
  <2>3. last' <= Cardinality(known')
    BY <1>0, <2>1, <2>2 DEF KnownInv
  <2>4. boxes' # 0
    BY <1>0, <2>1
  <2>5. QED
    BY <1>3, <2>1, <2>2, <2>3, <2>4 DEF KnownInv
<1>6. CASE CloseBox
  <2>1. UNCHANGED <<rows, list, known>> /\ last' = Count(list')
    BY <1>6 DEF CloseBox, EndOfLoad
  <2>2. Count(list') = Count(list)
    BY <2>1
  <2>3. QED
    BY <2>1, <2>2 DEF KnownInv
<1>7. ASSUME NEW o \in Orders, CreateNewOrder(o) \/ DeleteUserOf(o)
      PROVE  KnownInv'
  BY <1>0, <1>2, <1>7 DEF CreateNewOrder, DeleteUserOf, history, Gone, KnownInv
<1>8. ASSUME NEW o \in Orders, ConfirmOrder(o) \/ ShipOrder(o)
      PROVE  KnownInv'
  <2>1. PICK s \in WindowStage : UpdateOrderStatus(o, s)
    BY <1>8 DEF ConfirmOrder, ShipOrder, WindowStage
  <2>2. s # "none" /\ s # "deleted"
    BY DEF WindowStage
  <2>3. UNCHANGED <<list, last, boxes, known>>
    BY <2>1 DEF UpdateOrderStatus
  <2>4. \/ rows' = rows
        \/ rows[o] \notin Gone /\ rows' = [rows EXCEPT ![o] = s]
    BY <2>1 DEF UpdateOrderStatus
  <2>5. QED
    BY <1>0, <1>2, <2>2, <2>3, <2>4 DEF KnownInv, Gone
<1>9. CASE CheckForNewData \/ UpdateOrdersView \/ CloseNotice \/ UNCHANGED dashboardVars
  BY <1>2, <1>9 DEF CheckForNewData, UpdateOrdersView, CloseNotice, dashboardVars, history,
     KnownInv
<1>10. QED
  BY <1>4, <1>5, <1>6, <1>7, <1>8, <1>9 DEF DashboardNext

LEMMA KnownInit ==
  ASSUME DashboardAssumption, DashboardInit
  PROVE  KnownInv
<1>1. /\ list = Selected /\ last = Count(list) /\ known = Listed(list)
      /\ rows \in [Orders -> {"none", "pending"}]
  BY DEF DashboardInit
<1>2. Count(list) = Cardinality(known) /\ Cardinality(known) \in Nat
  BY <1>1, CountIs, WindowSets DEF Listed
<1>3. /\ \A o \in known : rows[o] # "none"
      /\ \A o \in known : list[o] # "none"
  BY <1>1 DEF Listed, Selected, Gone
<1>4. QED
  BY <1>1, <1>2, <1>3 DEF KnownInv

\* Every order that came to the list without a box is paid for by a deleted one:
\* UnannouncedArePaidFor.
THEOREM MissedOrdersArePaidFor ==
  ASSUME DashboardAssumption
  PROVE  DashboardSpec => []UnannouncedArePaidFor
<1>1. DashboardInit => WindowInv /\ KnownInv
  BY WindowInit, KnownInit
<1>2. WindowInv /\ KnownInv /\ [DashboardNext]_dashboardVars => WindowInv' /\ KnownInv'
  BY WindowStep, KnownStep
<1>3. ASSUME WindowInv, KnownInv
      PROVE  UnannouncedArePaidFor
  <2>. DEFINE L == Listed(list)
              Deleted == {o \in Orders : rows[o] = "deleted"}
  <2>1. known \subseteq Orders /\ L \subseteq Orders /\ Deleted \subseteq Orders
    BY <1>3 DEF WindowInv, WindowTypes, Listed
  <2>2. Cardinality(L) <= Cardinality(known)
    BY <1>3, CountIs DEF KnownInv
  <2>3. known \ L \subseteq Deleted
    BY <1>3, <2>1 DEF KnownInv, Listed
  <2>. HIDE DEF L, Deleted
  <2>4. /\ Cardinality(L \ known) <= Cardinality(known \ L)
        /\ Cardinality(L \ known) \in Nat /\ Cardinality(known \ L) \in Nat
    BY <2>1, <2>2, WindowSets, WithoutShared
  <2>5. Cardinality(known \ L) <= Cardinality(Deleted) /\ Cardinality(Deleted) \in Nat
    BY <2>1, <2>3, WindowFewer, WindowSets
  <2>6. Cardinality(L \ known) <= Cardinality(Deleted)
    BY <2>4, <2>5
  <2>7. QED
    BY <2>6 DEF UnannouncedArePaidFor, L, Deleted
<1>4. QED
  BY <1>1, <1>2, <1>3, PTL DEF DashboardSpec

\* A box that opens when none is open lists an order no box or start has listed:
\* FreshBoxHasNews.
THEOREM FreshBoxesHaveNews ==
  ASSUME DashboardAssumption
  PROVE  DashboardSpec => FreshBoxHasNews
<1>1. DashboardInit => WindowInv /\ KnownInv
  BY WindowInit, KnownInit
<1>2. WindowInv /\ KnownInv /\ [DashboardNext]_dashboardVars => WindowInv' /\ KnownInv'
  BY WindowStep, KnownStep
<1>3. WindowInv /\ KnownInv /\ [DashboardNext]_dashboardVars => [boxes = 0 /\ boxes' = 1 => known' # known]_dashboardVars
  <2>1. SUFFICES ASSUME WindowInv, KnownInv, DashboardNext, boxes = 0, boxes' = 1, known' = known
                 PROVE  FALSE
    OBVIOUS
  <2>2. LoadAndAnnounce
    <3>1. ASSUME NEW n, EndOfLoad(n) PROVE boxes' = n
      BY <3>1 DEF EndOfLoad
    <3>2. ~(LoadQuietly \/ CloseBox)
      BY <2>1, <3>1 DEF LoadQuietly, CloseBox
    <3>3. QED
      BY <2>1, <3>2 DEF DashboardNext, CreateNewOrder, DeleteUserOf, CheckForNewData,
         UpdateOrdersView,
                        CloseNotice, ConfirmOrder, ShipOrder, UpdateOrderStatus
  <2>3. /\ list' = Selected /\ Listed(list') \subseteq known
        /\ Count(list') > Count(list)
    BY <2>1, <2>2 DEF LoadAndAnnounce, Load, News, KnownInv
  <2>4. Listed(list') \subseteq Listed(list)
    BY <2>1, <2>3 DEF Listed, Selected, Gone, KnownInv
  <2>5. Listed(list) \subseteq Orders
    BY DEF Listed
  <2>6. Cardinality(Listed(list')) <= Cardinality(Listed(list))
    BY <2>4, <2>5, WindowFewer
  <2>7. /\ Count(list') = Cardinality(Listed(list')) /\ Count(list) = Cardinality(Listed(list))
        /\ Cardinality(Listed(list')) \in Nat /\ Cardinality(Listed(list)) \in Nat
    BY <2>4, <2>5, CountIs, WindowSets
  <2>8. QED
    BY <2>3, <2>6, <2>7
<1>4. QED
  BY <1>1, <1>2, <1>3, PTL DEF DashboardSpec, FreshBoxHasNews

-----------------------------------------------------------------------------
(***************************************************************************)
(* RestaurantList.                                                         *)
(***************************************************************************)

\* A client has one list at most, and no list shows nothing.
OneList ==
  \A c \in Clients : (\A d, e \in dialog[c] : d = e) /\ (dialog[c] = {} => shown[c] = {})

\* Every copy of a row, wherever it is, was approved once.
RowsWereApproved ==
  /\ Catalogue \subseteq approved /\ cache \subseteq approved
  /\ \A c \in Clients :
       /\ storing[c].left \subseteq approved
       /\ \A i \in DOMAIN answers[c] : answers[c][i].rows \subseteq approved

\* An answer no change came after is part of the catalogue, on the way and while it is stored.
AnswersAreOfTheirTime ==
  \A c \in Clients :
    /\ \A i \in DOMAIN answers[c] :
         /\ answers[c][i].asOf <= changes
         /\ answers[c][i].asOf = changes => answers[c][i].rows \subseteq Catalogue
    /\ Storing(c) =>
         /\ storing[c].asOf <= changes
         /\ storing[c].asOf = changes => storing[c].left \subseteq Catalogue

\* Who stores alone is the only one who does, and the cache is what the answer said.
AloneIsAlone ==
  \A c \in Clients : Storing(c) /\ storing[c].alone =>
    /\ \A q \in Clients : Storing(q) => q = c
    /\ storing[c].asOf = changes => cache \subseteq Catalogue

\* Between the two queries a list is the catalogue's part of it.
FreshlyDrawn ==
  \A c \in Clients : step[c] = "answered" /\ storing[c].asOf = changes =>
    \A d \in dialog[c] : shown[c] = GetAllRestaurants(c, d)

ApprovedInv == OneList /\ RowsWereApproved /\ ListKeepsItsFilter
QuietInv == AnswersAreOfTheirTime /\ AloneIsAlone /\ FreshlyDrawn

LEMMA CatalogueRows ==
  ASSUME TypeOK
  PROVE  Catalogue \subseteq Row /\ \A c, d : GetAllRestaurants(c, d) \subseteq Row
BY DEF TypeOK, Catalogue, RowOf, GetAllRestaurants, Row

LEMMA NothingType == Nothing \in [left : SUBSET Row, asOf : Nat, alone : BOOLEAN]
BY DEF Nothing

\* What reading from and adding to a queue leaves in it.
LEMMA QueueSteps ==
  ASSUME NEW S, NEW q \in Seq(S)
  PROVE  /\ <<>> \in Seq(S)
         /\ q # <<>> => /\ Head(q) \in S /\ Tail(q) \in Seq(S)
                       /\ 1 \in DOMAIN q /\ Head(q) = q[1]
                       /\ \A i \in DOMAIN Tail(q) : i + 1 \in DOMAIN q /\ Tail(q)[i] = q[i + 1]
         /\ \A m \in S :
              /\ Append(q, m) \in Seq(S)
              /\ \A i \in DOMAIN Append(q, m) :
                   Append(q, m)[i] = m \/ (i \in DOMAIN q /\ Append(q, m)[i] = q[i])
<1>1. /\ DOMAIN q = 1 .. Len(q) /\ Len(q) \in Nat
      /\ <<>> \in Seq(S)
  OBVIOUS
<1>2. ASSUME q # <<>>
      PROVE  /\ Head(q) \in S /\ Tail(q) \in Seq(S)
             /\ 1 \in DOMAIN q /\ Head(q) = q[1]
             /\ \A i \in DOMAIN Tail(q) : i + 1 \in DOMAIN q /\ Tail(q)[i] = q[i + 1]
  BY <1>2
<1>3. ASSUME NEW m \in S
      PROVE  /\ Append(q, m) \in Seq(S)
             /\ \A i \in DOMAIN Append(q, m) :
                  Append(q, m)[i] = m \/ (i \in DOMAIN q /\ Append(q, m)[i] = q[i])
  OBVIOUS
<1>4. QED
  BY <1>1, <1>2, <1>3

\* Types of the list.
LEMMA ListTypeStep ==
  ASSUME ListAssumption, TypeOK, [Next]_vars
  PROVE  TypeOK'
<1>. USE DEF catalogue, window, handler, wire
<1>. DEFINE Dialog == [filter : SUBSET Profile, favOnly : BOOLEAN]
            Job == [left : SUBSET Row, asOf : Nat, alone : BOOLEAN]
            Answer == [rows : SUBSET Row, asOf : Nat]
<1>1. ASSUME NEW r \in Restaurants, ChangeCatalogue(r)
      PROVE  TypeOK'
  <2>1. /\ profile' \in [Restaurants -> Profile]
        /\ standing' \in [Restaurants -> {"approved", "waiting", "deleted"}]
    <3>. USE DEF TypeOK
    <3>1. CASE ApproveRestaurant(r)
      BY <3>1 DEF ApproveRestaurant
    <3>2. CASE DisapproveRestaurant(r)
      BY <3>2 DEF DisapproveRestaurant
    <3>3. CASE DeleteUser(r)
      BY <3>3 DEF DeleteUser
    <3>4. ASSUME NEW p \in Profile, UpdateRestaurantDetails(r, p)
          PROVE  /\ profile' \in [Restaurants -> Profile]
                 /\ standing' \in [Restaurants -> {"approved", "waiting", "deleted"}]
      BY <3>4 DEF UpdateRestaurantDetails
    <3>. HIDE DEF TypeOK
    <3>5. QED
      BY <1>1, <3>1, <3>2, <3>3, <3>4 DEF ChangeCatalogue
  <2>2. /\ changes' = changes + 1 /\ approved' = approved \cup Catalogue'
        /\ UNCHANGED <<cache, favorites, dialog, menu, shown, step, storing, connected, asked,
                       answers>>
    BY <1>1 DEF ChangeCatalogue, ApproveRestaurant, DisapproveRestaurant, DeleteUser,
                UpdateRestaurantDetails, Change
  <2>3. Catalogue' \subseteq Row
    BY <2>1 DEF Catalogue, RowOf, Row
  <2>4. changes' \in Nat /\ approved' \subseteq Row
    BY <2>2, <2>3 DEF TypeOK
  <2>. HIDE DEF catalogue, window, handler, wire
  <2>5. QED
    BY <2>1, <2>2, <2>4 DEF TypeOK
<1>2. ASSUME NEW c \in Clients, Customer(c)
      PROVE  TypeOK'
  <2>1. ASSUME NEW f \in Filters[c], OpenList(c, f)
        PROVE  TypeOK'
    <3>. DEFINE d == [filter |-> f, favOnly |-> FALSE]
    <3>1. d \in Dialog
      BY DEF ListAssumption
    <3>2. /\ dialog' = [dialog EXCEPT ![c] = {d}]
          /\ shown' = [shown EXCEPT ![c] = GetAllRestaurants(c, d)]
          /\ step' = [step EXCEPT ![c] = "opening"]
          /\ UNCHANGED <<profile, standing, changes, approved, cache, favorites, menu,
                         storing, connected, asked, answers>>
      BY <2>1 DEF OpenList, DrawCatalogue
    <3>. HIDE DEF d
    <3>3. QED
      BY <3>1, <3>2, CatalogueRows DEF TypeOK, Steps
  <2>2. ASSUME NEW row \in Row, OnRestaurantItemClicked(c, row)
        PROVE  TypeOK'
    BY <2>2 DEF OnRestaurantItemClicked, TypeOK, Row
  <2>3. CASE ToggleFavOnly(c)
    <3>1. PICK old \in dialog[c] :
            LET d == [old EXCEPT !.favOnly = ~@]
            IN  /\ dialog' = [dialog EXCEPT ![c] = {d}]
                /\ DrawCatalogue(c, d, "toggling")
      BY <2>3 DEF ToggleFavOnly
    <3>. DEFINE d == [old EXCEPT !.favOnly = ~@]
    <3>2. /\ dialog' = [dialog EXCEPT ![c] = {d}]
          /\ shown' = [shown EXCEPT ![c] = GetAllRestaurants(c, d)]
          /\ step' = [step EXCEPT ![c] = "toggling"]
      BY <3>1 DEF DrawCatalogue
    <3>3. UNCHANGED <<profile, standing, changes, approved, cache, favorites, menu, storing,
                      connected, asked, answers>>
      BY <2>3 DEF ToggleFavOnly
    <3>4. old \in Dialog
      BY DEF TypeOK
    <3>5. d \in Dialog
      BY <3>4
    <3>. HIDE DEF d
    <3>6. QED
      BY <3>2, <3>3, <3>5, CatalogueRows DEF TypeOK, Steps
  <2>4. CASE ToggleFavorite(c)
    BY <2>4 DEF ToggleFavorite, TypeOK
  <2>5. CASE CloseMenu(c)
    BY <2>5 DEF CloseMenu, TypeOK
  <2>6. CASE CloseList(c)
    BY <2>6 DEF CloseList, TypeOK
  <2>7. QED
    BY <1>2, <2>1, <2>2, <2>3, <2>4, <2>5, <2>6 DEF Customer
<1>3. ASSUME NEW c \in Clients, answers[c] # <<>>
      PROVE  Head(answers[c]) \in Answer /\ Tail(answers[c]) \in Seq(Answer)
  <2>1. answers[c] \in Seq(Answer)
    BY DEF TypeOK
  <2>. HIDE DEF Answer
  <2>2. QED
    BY <1>3, <2>1, QueueSteps
<1>4. ASSUME NEW c \in Clients, Handle(c)
      PROVE  TypeOK'
  <2>1. ASSUME NEW alone \in BOOLEAN, answers[c] # <<>>, BeginStoring(c, alone)
        PROVE  /\ step' \in [Clients -> Steps] /\ storing' \in [Clients -> Job]
               /\ answers' \in [Clients -> Seq(Answer)]
               /\ UNCHANGED <<profile, standing, changes, approved, favorites, dialog, menu,
                              shown, connected, asked>>
    <3>1. /\ step' = [step EXCEPT ![c] = "storing"]
          /\ storing' = [q \in Clients |->
               IF q = c THEN [left  |-> Head(answers[c]).rows,
                              asOf  |-> Head(answers[c]).asOf,
                              alone |-> alone]
               ELSE [storing[q] EXCEPT !.alone = FALSE]]
          /\ answers' = [answers EXCEPT ![c] = Tail(@)]
      BY <2>1 DEF BeginStoring
    <3>2. \A q \in Clients : storing[q] \in Job /\ [storing[q] EXCEPT !.alone = FALSE] \in Job
      BY DEF TypeOK
    <3>3. [left |-> Head(answers[c]).rows, asOf |-> Head(answers[c]).asOf,
        alone |-> alone] \in Job
      BY <1>3, <2>1
    <3>4. storing' \in [Clients -> Job]
      BY <3>1, <3>2, <3>3
    <3>5. step' \in [Clients -> Steps]
      BY <3>1 DEF TypeOK, Steps
    <3>6. answers' \in [Clients -> Seq(Answer)]
      BY <1>3, <2>1, <3>1 DEF TypeOK
    <3>7. QED
      BY <2>1, <3>4, <3>5, <3>6 DEF BeginStoring
  <2>2. CASE OnRestaurantsReceived(c) \/ OnRestaurantsReceivedFails(c)
    <3>1. /\ answers[c] # <<>> /\ \E alone \in BOOLEAN : BeginStoring(c, alone)
          /\ cache' \in {cache, {}}
      BY <2>2 DEF OnRestaurantsReceived, OnRestaurantsReceivedFails, Receives
    <3>2. QED
      BY <2>1, <3>1 DEF TypeOK
  <2>3. CASE AnswerIgnored(c)
    BY <1>3, <2>3 DEF AnswerIgnored, TypeOK
  <2>4. ASSUME NEW row \in storing[c].left, AddRestaurant(c, row) \/ AddRestaurantFails(c, row)
        PROVE  TypeOK'
    <3>1. /\ storing' = [storing EXCEPT ![c].left = @ \ {row}]
          /\ UNCHANGED <<profile, standing, changes, approved, favorites, dialog, menu, shown,
                         step, connected, asked, answers>>
          /\ cache' = cache \/ cache' = {x \in cache : x.id # row.id} \cup {row}
      BY <2>4 DEF AddRestaurant, AddRestaurantFails, Stored
    <3>2. storing[c] \in Job /\ row \in Row
      BY DEF TypeOK
    <3>3. storing' \in [Clients -> Job]
      BY <3>1, <3>2 DEF TypeOK
    <3>4. cache' \subseteq Row
      BY <3>1, <3>2 DEF TypeOK
    <3>5. QED
      BY <3>1, <3>3, <3>4 DEF TypeOK
  <2>5. CASE DrawAnswer(c)
    <3>1. PICK d \in dialog[c] : DrawCatalogue(c, d, "answered")
      BY <2>5 DEF DrawAnswer
    <3>2. /\ shown' = [shown EXCEPT ![c] = GetAllRestaurants(c, d)]
          /\ step' = [step EXCEPT ![c] = "answered"]
          /\ UNCHANGED <<profile, standing, changes, approved, cache, favorites, dialog, menu,
                         storing, connected, asked, answers>>
      BY <2>5, <3>1 DEF DrawAnswer, DrawCatalogue
    <3>3. QED
      BY <3>2, CatalogueRows DEF TypeOK, Steps
  <2>6. CASE DrawCache(c)
    <3>1. PICK d \in dialog[c] :
            /\ shown' = [shown EXCEPT ![c] = AppendUnique(@, GetCachedRestaurants(c, d))]
            /\ asked' = asked \/ asked' = [asked EXCEPT ![c] = Append(@, d.filter)]
      BY <2>6 DEF DrawCache
    <3>2. /\ step' = [step EXCEPT ![c] = "idle"] /\ storing' = [storing EXCEPT ![c] = Nothing]
          /\ UNCHANGED <<profile, standing, changes, approved, cache, favorites, dialog, menu,
                         connected, answers>>
      BY <2>6 DEF DrawCache
    <3>3. AppendUnique(shown[c], GetCachedRestaurants(c, d)) \subseteq Row
      BY DEF AppendUnique, GetCachedRestaurants, TypeOK
    <3>4. d.filter \in SUBSET Profile
      BY DEF TypeOK
    <3>5. asked' \in [Clients -> Seq(SUBSET Profile)]
      <4>1. asked \in [Clients -> Seq(SUBSET Profile)]
        BY DEF TypeOK
      <4>2. Append(asked[c], d.filter) \in Seq(SUBSET Profile)
        BY <3>4, <4>1, QueueSteps
      <4>3. QED
        BY <3>1, <4>1, <4>2
    <3>6. shown' \in [Clients -> SUBSET Row]
      BY <3>1, <3>3 DEF TypeOK
    <3>7. QED
      BY <3>2, <3>5, <3>6, NothingType DEF TypeOK, Steps
  <2>7. QED
    BY <1>4, <2>2, <2>3, <2>4, <2>5, <2>6 DEF Handle
<1>5. ASSUME NEW c \in Clients, GetRestaurants(c)
      PROVE  TypeOK'
  <2>. DEFINE found == {row \in Catalogue : row.profile \in Head(asked[c])}
  <2>1. /\ asked[c] # <<>>
        /\ asked' = [asked EXCEPT ![c] = Tail(@)]
        /\ answers' = [answers EXCEPT ![c] = Append(@, [rows |-> found, asOf |-> changes])]
        /\ UNCHANGED <<profile, standing, changes, approved, cache, favorites, dialog, menu,
                       shown, step, storing, connected>>
    BY <1>5 DEF GetRestaurants
  <2>2. [rows |-> found, asOf |-> changes] \in Answer
    BY CatalogueRows DEF TypeOK
  <2>. HIDE DEF found
  <2>3. Tail(asked[c]) \in Seq(SUBSET Profile)
    BY <2>1, QueueSteps DEF TypeOK
  <2>4. Append(answers[c], [rows |-> found, asOf |-> changes]) \in Seq(Answer)
    <3>1. answers[c] \in Seq(Answer)
      BY DEF TypeOK
    <3>. HIDE DEF Answer
    <3>2. QED
      BY <2>2, <3>1, QueueSteps
  <2>5. QED
    BY <2>1, <2>3, <2>4 DEF TypeOK
<1>6. ASSUME NEW c \in Clients, Lose(c)
      PROVE  /\ connected' \in [Clients -> BOOLEAN]
             /\ asked' \in [Clients -> Seq(SUBSET Profile)]
             /\ answers' \in [Clients -> Seq(Answer)]
  <2>1. <<>> \in Seq(SUBSET Profile) /\ <<>> \in Seq(Answer)
    OBVIOUS
  <2>. HIDE DEF Answer
  <2>2. QED
    BY <1>6, <2>1 DEF Lose, TypeOK, Answer
<1>7. ASSUME NEW c \in Clients, Connect(c) \/ Disconnect(c) \/ Restart(c)
      PROVE  TypeOK'
  <2>1. CASE Connect(c)
    BY <2>1 DEF Connect, TypeOK
  <2>2. CASE Disconnect(c)
    BY <1>6, <2>2 DEF Disconnect, TypeOK
  <2>3. CASE Restart(c)
    BY <1>6, <2>3, NothingType DEF Restart, TypeOK, Steps
  <2>4. QED
    BY <1>7, <2>1, <2>2, <2>3
<1>8. CASE UNCHANGED vars
  BY <1>8 DEF vars, TypeOK
<1>9. QED
  BY <1>1, <1>2, <1>4, <1>5, <1>7, <1>8 DEF Next

LEMMA ListTypeInit ==
  ASSUME ListAssumption, Init
  PROVE  TypeOK
<1>1. /\ profile \in [Restaurants -> Profile]
      /\ standing \in [Restaurants -> {"approved", "waiting", "deleted"}]
  BY DEF Init, ListAssumption
<1>2. approved \subseteq Row
  BY <1>1 DEF Init, Catalogue, RowOf, Row
<1>3. storing \in [Clients -> [left : SUBSET Row, asOf : Nat, alone : BOOLEAN]]
  BY NothingType DEF Init
<1>4. asked \in [Clients -> Seq(SUBSET Profile)]
      /\ answers \in [Clients -> Seq([rows : SUBSET Row, asOf : Nat])]
  BY DEF Init
<1>5. QED
  BY <1>1, <1>2, <1>3, <1>4 DEF Init, TypeOK, Steps

\* Only a change of the catalogue changes it.
LEMMA CatalogueStays ==
  ASSUME UNCHANGED <<profile, standing>>
  PROVE  Catalogue' = Catalogue
BY DEF Catalogue, RowOf

\* What the first query shows.
LEMMA DrawnRows ==
  ASSUME NEW c, NEW d
  PROVE  \A row \in GetAllRestaurants(c, d) : row \in Catalogue /\ row.profile \in d.filter
BY DEF GetAllRestaurants, Wanted

\* And the second one adds to it.
LEMMA CachedRows ==
  ASSUME NEW c, NEW d, NEW S
  PROVE  \A row \in AppendUnique(S, GetCachedRestaurants(c, d)) :
           row \in S \/ (row \in cache /\ row.profile \in d.filter)
BY DEF AppendUnique, GetCachedRestaurants, Wanted

\* Every queue holds what it held, or less.
NoNewAnswer ==
  \A q \in Clients : \A i \in DOMAIN answers'[q] :
    \E j \in DOMAIN answers[q] : answers'[q][i] = answers[q][j]

LEMMA AnswerRead ==
  ASSUME TypeOK, NEW c \in Clients, answers[c] # <<>>, answers' = [answers EXCEPT ![c] = Tail(@)]
  PROVE  NoNewAnswer /\ 1 \in DOMAIN answers[c] /\ Head(answers[c]) = answers[c][1]
<1>. DEFINE Answer == [rows : SUBSET Row, asOf : Nat]
<1>1. answers \in [Clients -> Seq(Answer)]
  BY DEF TypeOK
<1>. HIDE DEF Answer
<1>2. /\ 1 \in DOMAIN answers[c] /\ Head(answers[c]) = answers[c][1]
      /\ \A i \in DOMAIN Tail(answers[c]) :
           i + 1 \in DOMAIN answers[c] /\ Tail(answers[c])[i] = answers[c][i + 1]
  BY <1>1, QueueSteps
<1>3. \A q \in Clients : answers'[q] = IF q = c THEN Tail(answers[c]) ELSE answers[q]
  BY <1>1
<1>4. QED
  BY <1>2, <1>3 DEF NoNewAnswer

LEMMA AnswersLost ==
  ASSUME TypeOK, NEW c \in Clients, Lose(c)
  PROVE  NoNewAnswer
BY DEF Lose, TypeOK, NoNewAnswer

\* An answer is given: one more line in one queue.
LEMMA AnswerGiven ==
  ASSUME TypeOK, NEW c \in Clients, GetRestaurants(c)
  PROVE  /\ UNCHANGED <<profile, standing, changes, approved, cache, favorites, dialog, shown,
                        step, storing>>
         /\ \A q \in Clients : \A i \in DOMAIN answers'[q] :
              \/ i \in DOMAIN answers[q] /\ answers'[q][i] = answers[q][i]
              \/ answers'[q][i].rows \subseteq Catalogue /\ answers'[q][i].asOf = changes
<1>. DEFINE Answer == [rows : SUBSET Row, asOf : Nat]
            found == {row \in Catalogue : row.profile \in Head(asked[c])}
            new == [rows |-> found, asOf |-> changes]
<1>1. /\ UNCHANGED <<profile, standing, changes, approved, cache, favorites, dialog, shown,
                     step, storing>>
      /\ answers' = [answers EXCEPT ![c] = Append(@, new)]
  BY DEF GetRestaurants, catalogue, window, handler
<1>2. new \in Answer /\ new.rows \subseteq Catalogue /\ new.asOf = changes
  BY CatalogueRows DEF TypeOK
<1>3. answers \in [Clients -> Seq(Answer)]
  BY DEF TypeOK
<1>. HIDE DEF Answer, new
<1>4. \A i \in DOMAIN Append(answers[c], new) :
        Append(answers[c], new)[i] = new \/ (i \in DOMAIN answers[c] /\ Append(answers[c],
            new)[i] = answers[c][i])
  BY <1>2, <1>3, QueueSteps
<1>5. \A q \in Clients : answers'[q] = IF q = c THEN Append(answers[c], new) ELSE answers[q]
  BY <1>1, <1>3
<1>6. QED
  BY <1>1, <1>2, <1>4, <1>5

\* An answer begins to be stored: whoever did so is not alone any more.
Begins(c, alone) ==
  /\ step[c] = "idle" /\ 1 \in DOMAIN answers[c]
  /\ step' = [step EXCEPT ![c] = "storing"]
  /\ storing'[c].left = answers[c][1].rows /\ storing'[c].asOf = answers[c][1].asOf
  /\ storing'[c].alone = alone
  /\ \A q \in Clients \ {c} : storing'[q].left = storing[q].left /\ storing'[q].asOf = storing[q].asOf
                              /\ storing'[q].alone = FALSE
  /\ NoNewAnswer
  /\ UNCHANGED <<profile, standing, changes, approved, favorites, dialog, shown>>
  /\ cache' \subseteq cache
  /\ alone => cache' = {} /\ \A q \in Clients : ~Storing(q)

LEMMA StoringBegins ==
  ASSUME TypeOK, NEW c \in Clients, OnRestaurantsReceived(c) \/ OnRestaurantsReceivedFails(c)
  PROVE  \E alone \in BOOLEAN : Begins(c, alone)
<1>1. ASSUME NEW alone \in BOOLEAN, answers[c] # <<>>, BeginStoring(c, alone)
      PROVE  /\ 1 \in DOMAIN answers[c]
             /\ step' = [step EXCEPT ![c] = "storing"]
             /\ storing'[c].left = answers[c][1].rows /\ storing'[c].asOf = answers[c][1].asOf
             /\ storing'[c].alone = alone
             /\ \A q \in Clients \ {c} : storing'[q].left = storing[q].left /\ storing'[q].asOf = storing[q].asOf
                                         /\ storing'[q].alone = FALSE
             /\ NoNewAnswer
             /\ UNCHANGED <<profile, standing, changes, approved, favorites, dialog, shown>>
  <2>1. /\ step' = [step EXCEPT ![c] = "storing"]
        /\ storing' = [q \in Clients |->
             IF q = c THEN [left  |-> Head(answers[c]).rows,
                            asOf  |-> Head(answers[c]).asOf,
                            alone |-> alone]
             ELSE [storing[q] EXCEPT !.alone = FALSE]]
        /\ answers' = [answers EXCEPT ![c] = Tail(@)]
        /\ UNCHANGED <<profile, standing, changes, approved, favorites, dialog, shown>>
    BY <1>1 DEF BeginStoring, catalogue, window
  <2>2. NoNewAnswer /\ 1 \in DOMAIN answers[c] /\ Head(answers[c]) = answers[c][1]
    BY <1>1, <2>1, AnswerRead
  <2>3. \A q \in Clients : storing[q] \in [left : SUBSET Row, asOf : Nat, alone : BOOLEAN]
    BY DEF TypeOK
  <2>4. \A q \in Clients \ {c} : storing'[q].left = storing[q].left /\ storing'[q].asOf = storing[q].asOf
                                 /\ storing'[q].alone = FALSE
    BY <2>1, <2>3
  <2>5. QED
    BY <2>1, <2>2, <2>4
<1>2. CASE OnRestaurantsReceived(c)
  <2>. DEFINE alone == \A q \in Clients : ~Storing(q)
  <2>1. /\ step[c] = "idle" /\ answers[c] # <<>> /\ BeginStoring(c, alone) /\ cache' = {}
        /\ alone \in BOOLEAN
    BY <1>2 DEF OnRestaurantsReceived, Receives
  <2>2. alone => \A q \in Clients : ~Storing(q)
    OBVIOUS
  <2>. HIDE DEF alone
  <2>3. Begins(c, alone)
    BY <1>1, <2>1, <2>2 DEF Begins
  <2>4. QED
    BY <2>1, <2>3
<1>3. CASE OnRestaurantsReceivedFails(c)
  <2>1. step[c] = "idle" /\ answers[c] # <<>> /\ BeginStoring(c, FALSE) /\ cache' = cache
    BY <1>3 DEF OnRestaurantsReceivedFails, Receives
  <2>2. Begins(c, FALSE)
    BY <1>1, <2>1 DEF Begins
  <2>3. QED
    BY <2>2
<1>4. QED
  BY <1>2, <1>3

\* A row of the answer is stored, or its statement fails.
Stores(c, row) ==
  /\ step[c] = "storing" /\ row \in storing[c].left
  /\ storing'[c].left = storing[c].left \ {row} /\ storing'[c].asOf = storing[c].asOf
  /\ storing'[c].alone = storing[c].alone
  /\ \A q \in Clients \ {c} : storing'[q] = storing[q]
  /\ cache' \subseteq cache \cup {row}
  /\ UNCHANGED <<profile, standing, changes, approved, favorites, dialog, shown, step, answers>>

LEMMA StoringGoesOn ==
  ASSUME TypeOK, NEW c \in Clients, NEW row, AddRestaurant(c, row) \/ AddRestaurantFails(c, row)
  PROVE  Stores(c, row)
<1>1. /\ step[c] = "storing" /\ row \in storing[c].left
      /\ storing' = [storing EXCEPT ![c].left = @ \ {row}]
      /\ cache' = cache \/ cache' = {x \in cache : x.id # row.id} \cup {row}
      /\ UNCHANGED <<profile, standing, changes, approved, favorites, dialog, shown, step,
                     answers>>
  BY DEF AddRestaurant, AddRestaurantFails, Stored, catalogue, window, wire
<1>2. storing[c] \in [left : SUBSET Row, asOf : Nat, alone : BOOLEAN] /\ DOMAIN storing = Clients
  BY DEF TypeOK
<1>3. QED
  BY <1>1, <1>2 DEF Stores

\* A handler draws the list of a client from the catalogue.
Draws(c, d, s) ==
  /\ dialog' = [dialog EXCEPT ![c] = {d}]
  /\ shown' = [shown EXCEPT ![c] = GetAllRestaurants(c, d)]
  /\ step' = [step EXCEPT ![c] = s]
  /\ UNCHANGED <<profile, standing, changes, approved, favorites, cache, storing, answers>>

LEMMA ListDrawn ==
  ASSUME TypeOK, OneList, NEW c \in Clients,
         (\E f \in Filters[c] : OpenList(c, f)) \/ ToggleFavOnly(c) \/ DrawAnswer(c)
  PROVE  \E d, s : /\ Draws(c, d, s) /\ s \in {"opening", "toggling", "answered"}
                   /\ s = "answered" => step[c] = "storing"
<1>. USE DEF catalogue, window, handler, wire, DrawCatalogue
<1>1. ASSUME NEW f \in Filters[c], OpenList(c, f)
      PROVE  Draws(c, [filter |-> f, favOnly |-> FALSE], "opening")
  BY <1>1 DEF OpenList, Draws
<1>2. CASE ToggleFavOnly(c)
  <2>1. PICK old \in dialog[c] : Draws(c, [old EXCEPT !.favOnly = ~@], "toggling")
    BY <1>2 DEF ToggleFavOnly, Draws
  <2>2. QED
    BY <2>1
<1>3. CASE DrawAnswer(c)
  <2>1. PICK d \in dialog[c] : DrawCatalogue(c, d, "answered")
    BY <1>3 DEF DrawAnswer
  <2>2. /\ step[c] = "storing"
        /\ UNCHANGED <<profile, standing, changes, approved, favorites, cache, storing,
                       answers, dialog>>
    BY <1>3 DEF DrawAnswer
  <2>3. dialog[c] = {d} /\ dialog' = [dialog EXCEPT ![c] = {d}]
    BY <2>1, <2>2 DEF OneList, TypeOK
  <2>4. Draws(c, d, "answered")
    BY <2>1, <2>2, <2>3 DEF Draws
  <2>5. QED
    BY <2>2, <2>4
<1>4. CASE \E f \in Filters[c] : OpenList(c, f)
  <2>1. PICK f \in Filters[c] : OpenList(c, f)
    BY <1>4
  <2>2. PICK d : d = [filter |-> f, favOnly |-> FALSE]
    OBVIOUS
  <2>3. Draws(c, d, "opening")
    BY <1>1, <2>1, <2>2
  <2>4. QED
    BY <2>3
<1>5. QED
  BY <1>2, <1>3, <1>4

\* Nothing a list or an answer consists of is touched.
LEMMA Elsewhere ==
  ASSUME NEW c \in Clients,
         \/ \E row \in Row : OnRestaurantItemClicked(c, row)
         \/ CloseMenu(c) \/ Connect(c)
  PROVE  UNCHANGED <<profile, standing, changes, approved, favorites, cache, storing, answers,
                     dialog, shown, step>>
BY DEF OnRestaurantItemClicked, CloseMenu, Connect, catalogue, window, handler, wire

\* Every row anywhere was approved, and every list keeps to its filter.
LEMMA ApprovedStep ==
  ASSUME TypeOK, ApprovedInv, [Next]_vars
  PROVE  ApprovedInv'
<1>. USE DEF ApprovedInv, catalogue, window, handler, wire
<1>0. /\ Catalogue \subseteq approved /\ cache \subseteq approved
      /\ DOMAIN dialog = Clients /\ DOMAIN shown = Clients /\ DOMAIN storing = Clients
  BY DEF TypeOK, RowsWereApproved
<1>1. CASE UNCHANGED <<profile, standing, changes, approved, favorites, cache, storing,
                       answers, dialog, shown, step>>
  BY <1>1, CatalogueStays DEF OneList, RowsWereApproved, ListKeepsItsFilter
<1>2. ASSUME NEW r \in Restaurants, ChangeCatalogue(r)
      PROVE  ApprovedInv'
  <2>1. /\ approved' = approved \cup Catalogue'
        /\ UNCHANGED <<cache, dialog, shown, storing, answers>>
    BY <1>2 DEF ChangeCatalogue, ApproveRestaurant, DisapproveRestaurant, DeleteUser,
                UpdateRestaurantDetails, Change
  <2>2. QED
    BY <2>1 DEF OneList, RowsWereApproved, ListKeepsItsFilter
<1>3. ASSUME NEW c \in Clients, NEW d, NEW s, Draws(c, d, s)
      PROVE  ApprovedInv'
  <2>1. /\ dialog' = [dialog EXCEPT ![c] = {d}]
        /\ shown' = [shown EXCEPT ![c] = GetAllRestaurants(c, d)]
        /\ UNCHANGED <<approved, cache, storing, answers>> /\ Catalogue' = Catalogue
    BY <1>3, CatalogueStays DEF Draws
  <2>2. \A row \in GetAllRestaurants(c, d) : row \in approved /\ row.profile \in d.filter
    BY <1>0, DrawnRows
  <2>3. OneList' /\ ListKeepsItsFilter'
    BY <1>0, <2>1, <2>2 DEF OneList, ListKeepsItsFilter
  <2>4. QED
    BY <2>1, <2>3 DEF RowsWereApproved
<1>4. ASSUME NEW c \in Clients, ToggleFavorite(c)
      PROVE  ApprovedInv'
  <2>1. UNCHANGED <<profile, standing, approved, cache, storing, answers, dialog, shown>>
    BY <1>4 DEF ToggleFavorite
  <2>2. QED
    BY <2>1, CatalogueStays DEF OneList, RowsWereApproved, ListKeepsItsFilter
<1>5. ASSUME NEW c \in Clients, CloseList(c)
      PROVE  ApprovedInv'
  <2>1. /\ dialog' = [dialog EXCEPT ![c] = {}] /\ shown' = [shown EXCEPT ![c] = {}]
        /\ UNCHANGED <<profile, standing, approved, cache, storing, answers>>
    BY <1>5 DEF CloseList
  <2>2. QED
    BY <1>0, <2>1, CatalogueStays DEF OneList, RowsWereApproved, ListKeepsItsFilter
<1>6. ASSUME NEW c \in Clients, OnRestaurantsReceived(c) \/ OnRestaurantsReceivedFails(c)
      PROVE  ApprovedInv'
  <2>1. PICK alone \in BOOLEAN : Begins(c, alone)
    BY <1>6, StoringBegins
  <2>2. \A q \in Clients : storing'[q].left \subseteq approved
    BY <2>1 DEF Begins, RowsWereApproved
  <2>3. /\ UNCHANGED <<profile, standing, approved, dialog,
                       shown>> /\ cache' \subseteq cache /\ NoNewAnswer
    BY <2>1 DEF Begins
  <2>4. RowsWereApproved'
    BY <2>2, <2>3, CatalogueStays DEF RowsWereApproved, NoNewAnswer
  <2>5. QED
    BY <2>3, <2>4 DEF OneList, ListKeepsItsFilter
<1>7. ASSUME NEW c \in Clients, AnswerIgnored(c)
      PROVE  ApprovedInv'
  <2>1. /\ NoNewAnswer
        /\ UNCHANGED <<profile, standing, approved, cache, storing, dialog, shown>>
    BY <1>7, AnswerRead DEF AnswerIgnored
  <2>2. QED
    BY <2>1, CatalogueStays DEF OneList, RowsWereApproved, ListKeepsItsFilter, NoNewAnswer
<1>8. ASSUME NEW c \in Clients, NEW row, AddRestaurant(c, row) \/ AddRestaurantFails(c, row)
      PROVE  ApprovedInv'
  <2>1. Stores(c, row)
    BY <1>8, StoringGoesOn
  <2>2. /\ cache' \subseteq approved /\ \A q \in Clients : storing'[q].left \subseteq approved
        /\ UNCHANGED <<profile, standing, approved, answers, dialog, shown>>
    BY <1>0, <2>1 DEF Stores, RowsWereApproved
  <2>3. QED
    BY <2>2, CatalogueStays DEF OneList, RowsWereApproved, ListKeepsItsFilter
<1>9. ASSUME NEW c \in Clients, DrawCache(c)
      PROVE  ApprovedInv'
  <2>1. PICK d \in dialog[c] :
          shown' = [shown EXCEPT ![c] = AppendUnique(@, GetCachedRestaurants(c, d))]
    BY <1>9 DEF DrawCache
  <2>2. /\ storing' = [storing EXCEPT ![c] = Nothing]
        /\ UNCHANGED <<profile, standing, approved, cache, answers, dialog>>
    BY <1>9 DEF DrawCache
  <2>. DEFINE S == AppendUnique(shown[c], GetCachedRestaurants(c, d))
  <2>3. \A row \in S : row \in shown[c] \/ (row \in cache /\ row.profile \in d.filter)
    BY CachedRows
  <2>4. shown' = [shown EXCEPT ![c] = S]
    BY <2>1
  <2>. HIDE DEF S
  <2>5. \A row \in S : row \in approved /\ \A e \in dialog[c] : row.profile \in e.filter
    BY <1>0, <2>3 DEF OneList, ListKeepsItsFilter
  <2>6. ListKeepsItsFilter' /\ OneList'
    BY <1>0, <2>2, <2>4, <2>5 DEF OneList, ListKeepsItsFilter
  <2>7. QED
    BY <1>0, <2>2, <2>6, CatalogueStays DEF RowsWereApproved, Nothing
<1>10. ASSUME NEW c \in Clients, GetRestaurants(c)
      PROVE  ApprovedInv'
  <2>1. /\ UNCHANGED <<profile, standing, approved, cache, dialog, shown, storing>>
        /\ \A q \in Clients : \A i \in DOMAIN answers'[q] : answers'[q][i].rows \subseteq approved
    BY <1>0, <1>10, AnswerGiven DEF RowsWereApproved
  <2>2. QED
    BY <2>1, CatalogueStays DEF OneList, RowsWereApproved, ListKeepsItsFilter
<1>11. ASSUME NEW c \in Clients, Disconnect(c)
      PROVE  ApprovedInv'
  <2>1. NoNewAnswer /\ UNCHANGED <<profile, standing, approved, cache, dialog, shown, storing>>
    BY <1>11, AnswersLost DEF Disconnect
  <2>2. QED
    BY <2>1, CatalogueStays DEF OneList, RowsWereApproved, ListKeepsItsFilter, NoNewAnswer
<1>12. ASSUME NEW c \in Clients, Restart(c)
      PROVE  ApprovedInv'
  <2>1. /\ NoNewAnswer /\ UNCHANGED <<profile, standing, approved, cache>>
        /\ dialog' = [dialog EXCEPT ![c] = {}] /\ shown' = [shown EXCEPT ![c] = {}]
        /\ storing' = [storing EXCEPT ![c] = Nothing]
    BY <1>12, AnswersLost DEF Restart
  <2>2. RowsWereApproved'
    BY <1>0, <2>1, CatalogueStays DEF RowsWereApproved, NoNewAnswer, Nothing
  <2>3. QED
    BY <1>0, <2>1, <2>2 DEF OneList, ListKeepsItsFilter
<1>13. ASSUME NEW c \in Clients, Customer(c)
      PROVE  ApprovedInv'
  BY <1>1, <1>3, <1>4, <1>5, <1>13, ListDrawn, Elsewhere DEF Customer
<1>14. ASSUME NEW c \in Clients, Handle(c)
      PROVE  ApprovedInv'
  <2>1. CASE DrawAnswer(c)
    BY <1>3, <2>1, ListDrawn
  <2>2. QED
    BY <1>6, <1>7, <1>8, <1>9, <1>14, <2>1 DEF Handle
<1>15. ASSUME NEW c \in Clients, Connect(c)
      PROVE  ApprovedInv'
  BY <1>1, <1>15, Elsewhere
<1>16. CASE UNCHANGED vars
  BY <1>1, <1>16 DEF vars
<1>17. QED
  BY <1>2, <1>10, <1>11, <1>12, <1>13, <1>14, <1>15, <1>16 DEF Next

LEMMA ApprovedInit ==
  ASSUME Init
  PROVE  ApprovedInv
BY DEF Init, ApprovedInv, OneList, RowsWereApproved, ListKeepsItsFilter, Nothing

\* Whatever answers come and whoever else stores one, a list shows restaurants that match
\* its own filter only, as they were once approved: ListKeepsItsFilter.
THEOREM ListsKeepTheirFilter ==
  ASSUME ListAssumption
  PROVE  Spec => [](TypeOK /\ ListKeepsItsFilter)
<1>1. Init => TypeOK /\ ApprovedInv
  BY ListTypeInit, ApprovedInit
<1>2. TypeOK /\ ApprovedInv /\ [Next]_vars => TypeOK' /\ ApprovedInv'
  BY ListTypeStep, ApprovedStep
<1>3. ApprovedInv => ListKeepsItsFilter
  BY DEF ApprovedInv
<1>4. QED
  BY <1>1, <1>2, <1>3, PTL DEF Spec

\* Whoever changes the catalogue counts it, and touches nothing else.
LEMMA ChangeCounts ==
  ASSUME NEW r \in Restaurants, ChangeCatalogue(r)
  PROVE  /\ changes' = changes + 1
         /\ UNCHANGED <<cache, favorites, dialog, shown, step, storing, answers>>
BY DEF ChangeCatalogue, ApproveRestaurant, DisapproveRestaurant, DeleteUser,
       UpdateRestaurantDetails, Change, window, handler, wire

\* The second query ends a handler.
LEMMA HandlerEnds ==
  ASSUME NEW c \in Clients, DrawCache(c)
  PROVE  /\ \E d \in dialog[c] :
              shown' = [shown EXCEPT ![c] = AppendUnique(@, GetCachedRestaurants(c, d))]
         /\ step' = [step EXCEPT ![c] = "idle"] /\ storing' = [storing EXCEPT ![c] = Nothing]
         /\ UNCHANGED <<profile, standing, changes, cache, favorites, answers, dialog>>
BY DEF DrawCache, catalogue, window

\* What was said, stored and drawn of a catalogue holds as long as nothing changes in it.
LEMMA QuietStep ==
  ASSUME TypeOK, TypeOK', OneList, QuietInv, [Next]_vars
  PROVE  QuietInv'
<1>. USE DEF catalogue, window, handler, wire
<1>0. /\ changes \in Nat /\ DOMAIN step = Clients /\ DOMAIN storing = Clients
      /\ DOMAIN dialog = Clients /\ DOMAIN shown = Clients
      /\ \A c \in Clients : storing[c].asOf \in Nat
      /\ \A c \in Clients : \A i \in DOMAIN answers[c] : answers[c][i].asOf \in Nat
  <2>1. \A c \in Clients : \A i \in DOMAIN answers[c] : answers[c][i] \in [rows : SUBSET Row,
      asOf : Nat]
    <3>. DEFINE Answer == [rows : SUBSET Row, asOf : Nat]
    <3>1. answers \in [Clients -> Seq(Answer)]
      BY DEF TypeOK
    <3>. HIDE DEF Answer
    <3>2. \A c \in Clients : \A i \in DOMAIN answers[c] : answers[c][i] \in Answer
      BY <3>1
    <3>3. QED
      BY <3>2 DEF Answer
  <2>2. QED
    BY <2>1 DEF TypeOK
<1>00. AnswersAreOfTheirTime /\ AloneIsAlone /\ FreshlyDrawn
  BY DEF QuietInv
<1>1. ASSUME UNCHANGED <<profile, standing, changes, favorites, cache, storing, dialog, shown,
                         step>>, NoNewAnswer
      PROVE  QuietInv'
  <2>1. Catalogue' = Catalogue
    BY <1>1, CatalogueStays
  <2>2. \A c, d : GetAllRestaurants(c, d)' = GetAllRestaurants(c, d)
    BY <1>1, <2>1 DEF GetAllRestaurants, Wanted
  <2>3. \A c : Storing(c)' <=> Storing(c)
    BY <1>1 DEF Storing
  <2>4. AnswersAreOfTheirTime'
    BY <1>00, <1>1, <2>1, <2>3 DEF AnswersAreOfTheirTime, NoNewAnswer
  <2>5. AloneIsAlone'
    BY <1>00, <1>1, <2>1, <2>3 DEF AloneIsAlone
  <2>6. FreshlyDrawn'
    BY <1>00, <1>1, <2>2 DEF FreshlyDrawn
  <2>7. QED
    BY <2>4, <2>5, <2>6 DEF QuietInv
<1>2. ASSUME NEW r \in Restaurants, ChangeCatalogue(r)
      PROVE  QuietInv'
  <2>1. /\ changes' = changes + 1
        /\ UNCHANGED <<cache, favorites, dialog, shown, step, storing, answers>>
    BY <1>2, ChangeCounts
  <2>2. \A n \in Nat : n <= changes => n <= changes' /\ n # changes'
    BY <1>0, <2>1
  <2>3. \A c : Storing(c)' <=> Storing(c)
    BY <2>1 DEF Storing
  <2>4. AnswersAreOfTheirTime'
    BY <1>0, <1>00, <2>1, <2>2, <2>3 DEF AnswersAreOfTheirTime
  <2>5. \A c \in Clients : Storing(c) => storing'[c].asOf # changes'
    BY <1>0, <1>00, <2>1, <2>2 DEF AnswersAreOfTheirTime
  <2>6. AloneIsAlone'
    BY <1>00, <2>1, <2>3, <2>5 DEF AloneIsAlone
  <2>7. FreshlyDrawn'
    BY <2>1, <2>5 DEF FreshlyDrawn, Storing
  <2>8. QED
    BY <2>4, <2>6, <2>7 DEF QuietInv
<1>3. ASSUME NEW c \in Clients, NEW d, NEW s, Draws(c, d, s), s \in {"opening", "toggling",
    "answered"},
             s = "answered" => step[c] = "storing"
      PROVE  QuietInv'
  <2>1. /\ dialog' = [dialog EXCEPT ![c] = {d}]
        /\ shown' = [shown EXCEPT ![c] = GetAllRestaurants(c, d)]
        /\ step' = [step EXCEPT ![c] = s]
        /\ UNCHANGED <<profile, standing, changes, favorites, cache, storing, answers>>
        /\ Catalogue' = Catalogue
    BY <1>3, CatalogueStays DEF Draws
  <2>2. \A q, e : GetAllRestaurants(q, e)' = GetAllRestaurants(q, e)
    BY <2>1 DEF GetAllRestaurants, Wanted
  <2>3. \A q \in Clients : Storing(q)' => Storing(q)
    BY <1>0, <1>3, <2>1 DEF Storing
  <2>4. AnswersAreOfTheirTime'
    BY <1>00, <2>1, <2>3 DEF AnswersAreOfTheirTime
  <2>5. AloneIsAlone'
    BY <1>00, <2>1, <2>3 DEF AloneIsAlone
  <2>6. FreshlyDrawn'
    BY <1>0, <1>00, <2>1, <2>2 DEF FreshlyDrawn
  <2>7. QED
    BY <2>4, <2>5, <2>6 DEF QuietInv
\* A client that is idle afterwards, with its list as it was or none at all.
<1>4. ASSUME NEW c \in Clients, step'[c] = "idle",
    \A q \in Clients \ {c} : step'[q] = step[q] /\ storing'[q] = storing[q]
                                                  /\ shown'[q] = shown[q] /\ dialog'[q] = dialog[q],
             NoNewAnswer,
             UNCHANGED <<profile, standing, changes, cache>>,
             \A q \in Clients \ {c} : step[q] = "answered" => favorites'[q] = favorites[q]
      PROVE  QuietInv'
  <2>1. Catalogue' = Catalogue
    BY <1>4, CatalogueStays
  <2>2. \A q \in Clients \ {c} : step[q] = "answered" =>
          \A e : GetAllRestaurants(q, e)' = GetAllRestaurants(q, e)
    BY <1>4, <2>1 DEF GetAllRestaurants, Wanted
  <2>3. \A q \in Clients : Storing(q)' => q # c /\ Storing(q)
    BY <1>4 DEF Storing
  <2>4. AnswersAreOfTheirTime'
    BY <1>00, <1>4, <2>1, <2>3 DEF AnswersAreOfTheirTime, NoNewAnswer
  <2>5. AloneIsAlone'
    BY <1>00, <1>4, <2>1, <2>3 DEF AloneIsAlone
  <2>6. FreshlyDrawn'
    BY <1>00, <1>4, <2>2 DEF FreshlyDrawn
  <2>7. QED
    BY <2>4, <2>5, <2>6 DEF QuietInv
<1>5. ASSUME NEW c \in Clients, Customer(c)
      PROVE  QuietInv'
  <2>0. UNCHANGED answers => NoNewAnswer
    BY DEF NoNewAnswer
  <2>1. CASE ToggleFavorite(c)
    <3>1. /\ step[c] = "idle"
          /\ favorites' = [favorites EXCEPT ![c] = (@ \ menu[c]) \cup (menu[c] \ @)]
          /\ UNCHANGED <<profile, standing, changes, cache, dialog, shown, step, storing,
                         answers>>
      BY <2>1 DEF ToggleFavorite
    <3>2. \A q \in Clients \ {c} : favorites'[q] = favorites[q]
      BY <3>1 DEF TypeOK
    <3>3. QED
      BY <1>4, <2>0, <3>1, <3>2
  <2>2. CASE CloseList(c)
    <3>1. /\ step[c] = "idle"
          /\ dialog' = [dialog EXCEPT ![c] = {}] /\ shown' = [shown EXCEPT ![c] = {}]
          /\ UNCHANGED <<profile, standing, changes, cache, favorites, step, storing, answers>>
      BY <2>2 DEF CloseList
    <3>2. \A q \in Clients \ {c} : dialog'[q] = dialog[q] /\ shown'[q] = shown[q]
      BY <1>0, <3>1
    <3>3. QED
      BY <1>4, <2>0, <3>1, <3>2
  <2>3. CASE CloseMenu(c) \/ \E row \in Row : OnRestaurantItemClicked(c, row)
    BY <1>1, <2>0, <2>3, Elsewhere
  <2>4. CASE ToggleFavOnly(c) \/ \E f \in Filters[c] : OpenList(c, f)
    BY <1>3, <2>4, ListDrawn
  <2>5. QED
    BY <1>5, <2>1, <2>2, <2>3, <2>4 DEF Customer
<1>6. ASSUME NEW c \in Clients, OnRestaurantsReceived(c) \/ OnRestaurantsReceivedFails(c)
      PROVE  QuietInv'
  <2>1. PICK alone \in BOOLEAN : Begins(c, alone)
    BY <1>6, StoringBegins
  <2>2. /\ step[c] = "idle" /\ 1 \in DOMAIN answers[c]
        /\ step' = [step EXCEPT ![c] = "storing"]
        /\ storing'[c].left = answers[c][1].rows /\ storing'[c].asOf = answers[c][1].asOf
        /\ storing'[c].alone = alone
        /\ \A q \in Clients \ {c} : storing'[q].left = storing[q].left /\ storing'[q].asOf = storing[q].asOf
                                    /\ storing'[q].alone = FALSE
        /\ NoNewAnswer
        /\ UNCHANGED <<profile, standing, changes, favorites, dialog, shown>>
        /\ alone => cache' = {} /\ \A q \in Clients : ~Storing(q)
    BY <2>1 DEF Begins
  <2>3. Catalogue' = Catalogue
    BY <2>2, CatalogueStays
  <2>4. \A q, e : GetAllRestaurants(q, e)' = GetAllRestaurants(q, e)
    BY <2>2, <2>3 DEF GetAllRestaurants, Wanted
  <2>5. \A q \in Clients : Storing(q)' <=> q = c \/ Storing(q)
    BY <1>0, <2>2 DEF Storing
  <2>6. AnswersAreOfTheirTime'
    <3>1. \A q \in Clients : Storing(q)' =>
            /\ storing'[q].asOf <= changes'
            /\ storing'[q].asOf = changes' => storing'[q].left \subseteq Catalogue'
      BY <1>00, <2>2, <2>3, <2>5 DEF AnswersAreOfTheirTime
    <3>2. \A q \in Clients : \A i \in DOMAIN answers'[q] :
            /\ answers'[q][i].asOf <= changes'
            /\ answers'[q][i].asOf = changes' => answers'[q][i].rows \subseteq Catalogue'
      BY <1>00, <2>2, <2>3 DEF AnswersAreOfTheirTime, NoNewAnswer
    <3>3. QED
      BY <3>1, <3>2 DEF AnswersAreOfTheirTime
  <2>7. AloneIsAlone'
    BY <2>2, <2>5 DEF AloneIsAlone
  <2>8. FreshlyDrawn'
    BY <1>0, <1>00, <2>2, <2>4 DEF FreshlyDrawn
  <2>9. QED
    BY <2>6, <2>7, <2>8 DEF QuietInv
<1>7. ASSUME NEW c \in Clients, NEW row, AddRestaurant(c, row) \/ AddRestaurantFails(c, row)
      PROVE  QuietInv'
  <2>1. Stores(c, row)
    BY <1>7, StoringGoesOn
  <2>2. /\ step[c] = "storing" /\ row \in storing[c].left
        /\ storing'[c].left = storing[c].left \ {row} /\ storing'[c].asOf = storing[c].asOf
        /\ storing'[c].alone = storing[c].alone
        /\ \A q \in Clients \ {c} : storing'[q] = storing[q]
        /\ cache' \subseteq cache \cup {row}
        /\ UNCHANGED <<profile, standing, changes, favorites, dialog, shown, step, answers>>
    BY <2>1 DEF Stores
  <2>3. Catalogue' = Catalogue
    BY <2>2, CatalogueStays
  <2>4. \A q, e : GetAllRestaurants(q, e)' = GetAllRestaurants(q, e)
    BY <2>2, <2>3 DEF GetAllRestaurants, Wanted
  <2>5. \A q \in Clients : /\ Storing(q)' <=> Storing(q)
                           /\ storing'[q].asOf = storing[q].asOf /\ storing'[q].alone = storing[q].alone
                           /\ storing'[q].left \subseteq storing[q].left
    BY <2>2 DEF Storing
  <2>6. Storing(c)
    BY <2>2 DEF Storing
  <2>7. AnswersAreOfTheirTime'
    BY <1>00, <2>2, <2>3, <2>5 DEF AnswersAreOfTheirTime
  <2>8. AloneIsAlone'
    <3>1. SUFFICES ASSUME NEW q \in Clients, Storing(q)', storing'[q].alone
                   PROVE  /\ \A p \in Clients : Storing(p)' => p = q
                          /\ storing'[q].asOf = changes' => cache' \subseteq Catalogue'
      BY DEF AloneIsAlone
    <3>2. Storing(q) /\ storing[q].alone
      BY <2>5, <3>1
    <3>3. q = c /\ \A p \in Clients : Storing(p) => p = q
      BY <1>00, <2>6, <3>2 DEF AloneIsAlone
    <3>4. storing[c].asOf = changes => cache \subseteq Catalogue /\ storing[c].left \subseteq Catalogue
      BY <1>00, <2>6, <3>2, <3>3 DEF AloneIsAlone, AnswersAreOfTheirTime
    <3>5. QED
      BY <2>2, <2>3, <2>5, <3>3, <3>4
  <2>9. FreshlyDrawn'
    BY <1>00, <2>2, <2>4, <2>5 DEF FreshlyDrawn
  <2>10. QED
    BY <2>7, <2>8, <2>9 DEF QuietInv
<1>8. ASSUME NEW c \in Clients, Handle(c)
      PROVE  QuietInv'
  <2>1. CASE AnswerIgnored(c)
    BY <1>1, <2>1, AnswerRead DEF AnswerIgnored
  <2>2. CASE DrawAnswer(c)
    BY <1>3, <2>2, ListDrawn
  <2>3. CASE DrawCache(c)
    <3>1. /\ \E d \in dialog[c] :
               shown' = [shown EXCEPT ![c] = AppendUnique(@, GetCachedRestaurants(c, d))]
          /\ step' = [step EXCEPT ![c] = "idle"] /\ storing' = [storing EXCEPT ![c] = Nothing]
          /\ UNCHANGED <<profile, standing, changes, cache, favorites, answers, dialog>>
      BY <2>3, HandlerEnds
    <3>2. /\ step'[c] = "idle" /\ NoNewAnswer
          /\ \A q \in Clients \ {c} : step'[q] = step[q] /\ storing'[q] = storing[q]
                                      /\ shown'[q] = shown[q] /\ dialog'[q] = dialog[q]
      BY <1>0, <3>1 DEF NoNewAnswer
    <3>3. QED
      BY <1>4, <3>1, <3>2
  <2>4. QED
    BY <1>6, <1>7, <1>8, <2>1, <2>2, <2>3 DEF Handle
<1>9. ASSUME NEW c \in Clients, GetRestaurants(c)
      PROVE  QuietInv'
  <2>1. /\ UNCHANGED <<profile, standing, changes, cache, favorites, dialog, shown, step,
                       storing>>
        /\ \A q \in Clients : \A i \in DOMAIN answers'[q] :
             \/ i \in DOMAIN answers[q] /\ answers'[q][i] = answers[q][i]
             \/ answers'[q][i].rows \subseteq Catalogue /\ answers'[q][i].asOf = changes
    BY <1>9, AnswerGiven
  <2>2. Catalogue' = Catalogue
    BY <2>1, CatalogueStays
  <2>3. \A q, e : GetAllRestaurants(q, e)' = GetAllRestaurants(q, e)
    BY <2>1, <2>2 DEF GetAllRestaurants, Wanted
  <2>4. \A q : Storing(q)' <=> Storing(q)
    BY <2>1 DEF Storing
  <2>5. AnswersAreOfTheirTime'
    BY <1>0, <1>00, <2>1, <2>2, <2>4 DEF AnswersAreOfTheirTime
  <2>6. AloneIsAlone'
    BY <1>00, <2>1, <2>2, <2>4 DEF AloneIsAlone
  <2>7. FreshlyDrawn'
    BY <1>00, <2>1, <2>3 DEF FreshlyDrawn
  <2>8. QED
    BY <2>5, <2>6, <2>7 DEF QuietInv
<1>10. ASSUME NEW c \in Clients, Connect(c) \/ Disconnect(c) \/ Restart(c)
      PROVE  QuietInv'
  <2>1. CASE Connect(c)
    <3>1. NoNewAnswer
      BY <2>1 DEF Connect, NoNewAnswer
    <3>2. QED
      BY <1>1, <2>1, <3>1, Elsewhere
  <2>2. CASE Disconnect(c)
    BY <1>1, <2>2, AnswersLost DEF Disconnect
  <2>3. CASE Restart(c)
    <3>1. /\ NoNewAnswer /\ UNCHANGED <<profile, standing, changes, cache, favorites>>
          /\ dialog' = [dialog EXCEPT ![c] = {}] /\ shown' = [shown EXCEPT ![c] = {}]
          /\ step' = [step EXCEPT ![c] = "idle"] /\ storing' = [storing EXCEPT ![c] = Nothing]
      BY <2>3, AnswersLost DEF Restart
    <3>2. /\ step'[c] = "idle"
          /\ \A q \in Clients \ {c} : step'[q] = step[q] /\ storing'[q] = storing[q]
                                      /\ shown'[q] = shown[q] /\ dialog'[q] = dialog[q]
      BY <1>0, <3>1
    <3>3. QED
      BY <1>4, <3>1, <3>2
  <2>4. QED
    BY <1>10, <2>1, <2>2, <2>3
<1>11. CASE UNCHANGED vars
  BY <1>1, <1>11 DEF vars, NoNewAnswer
<1>12. QED
  BY <1>2, <1>5, <1>8, <1>9, <1>10, <1>11 DEF Next

LEMMA QuietInit ==
  ASSUME Init
  PROVE  QuietInv
BY DEF Init, QuietInv, AnswersAreOfTheirTime, AloneIsAlone, FreshlyDrawn, Storing

\* A handler that has drawn an answer only goes idle by the second query, or by its end.
LEMMA AnswerIsDrawn ==
  ASSUME TypeOK, Next, NEW c \in Clients, step[c] = "answered", step'[c] = "idle", dialog'[c] # {}
  PROVE  DrawCache(c)
<1>. USE DEF catalogue, window, handler, wire
<1>1. DOMAIN step = Clients /\ DOMAIN dialog = Clients
  BY DEF TypeOK
<1>2. ~(\E r \in Restaurants : ChangeCatalogue(r))
  BY ChangeCounts
<1>3. PICK q \in Clients : \/ Customer(q) \/ Handle(q) \/ GetRestaurants(q)
                           \/ Connect(q) \/ Disconnect(q) \/ Restart(q)
  BY <1>2 DEF Next
<1>4. ~GetRestaurants(q) /\ ~Connect(q) /\ ~Disconnect(q)
  BY DEF GetRestaurants, Connect, Disconnect
<1>5. ~Restart(q)
  BY <1>1 DEF Restart
<1>6. ~Customer(q)
  <2>1. ASSUME NEW d, DrawCatalogue(q, d, "opening") \/ DrawCatalogue(q, d, "toggling")
        PROVE  FALSE
    BY <1>1, <2>1 DEF DrawCatalogue
  <2>2. QED
    BY <2>1 DEF Customer, OpenList, ToggleFavOnly, ToggleFavorite, CloseMenu, CloseList,
                OnRestaurantItemClicked
<1>7. Handle(q)
  BY <1>3, <1>4, <1>5, <1>6
<1>8. ~AnswerIgnored(q) /\ ~(\E row \in storing[q].left : AddRestaurant(q,
    row) \/ AddRestaurantFails(q, row))
  BY DEF AnswerIgnored, AddRestaurant, AddRestaurantFails, Stored
<1>9. ~DrawAnswer(q)
  BY <1>1 DEF DrawAnswer, DrawCatalogue
<1>10. ~(OnRestaurantsReceived(q) \/ OnRestaurantsReceivedFails(q))
  BY <1>1 DEF OnRestaurantsReceived, OnRestaurantsReceivedFails, BeginStoring
<1>11. DrawCache(q)
  BY <1>7, <1>8, <1>9, <1>10 DEF Handle
<1>12. q = c
  BY <1>1, <1>11 DEF DrawCache
<1>13. QED
  BY <1>11, <1>12

\* Rows that are listed already are not added.
LEMMA NothingToAdd ==
  ASSUME NEW S, NEW T, T \subseteq S
  PROVE  AppendUnique(S, T) = S
BY DEF AppendUnique

\* A list drawn from an answer is the catalogue, if nothing changed since and nobody else
\* was storing an answer meanwhile: QuietAnswerIsExact.
THEOREM QuietAnswersAreExact ==
  ASSUME ListAssumption
  PROVE  Spec => QuietAnswerIsExact
<1>. DEFINE Exact == \A c \in Clients : \A d \in dialog'[c] :
              /\ step[c] = "answered" /\ step'[c] = "idle"
              /\ storing[c].alone /\ storing[c].asOf = changes
              /\ d.favOnly => favorites[c] # {}
              => shown'[c] = Proper(c, d)
            Inv == TypeOK /\ ApprovedInv /\ QuietInv
<1>1. Init => Inv
  BY ListTypeInit, ApprovedInit, QuietInit
<1>2. Inv /\ [Next]_vars => Inv'
  <2>1. SUFFICES ASSUME Inv, [Next]_vars PROVE Inv'
    OBVIOUS
  <2>2. TypeOK'
    BY <2>1, ListTypeStep
  <2>3. QED
    BY <2>1, <2>2, ApprovedStep, QuietStep DEF ApprovedInv
<1>3. Inv /\ [Next]_vars => [Exact]_vars
  <2>1. SUFFICES ASSUME Inv, Next, NEW c \in Clients, NEW d \in dialog'[c],
                        step[c] = "answered", step'[c] = "idle",
                        storing[c].alone, storing[c].asOf = changes,
                        d.favOnly => favorites[c] # {}
                 PROVE  shown'[c] = Proper(c, d)
    OBVIOUS
  <2>2. DrawCache(c)
    BY <2>1, AnswerIsDrawn
  <2>3. PICK e \in dialog[c] :
          shown' = [shown EXCEPT ![c] = AppendUnique(@, GetCachedRestaurants(c, e))]
    BY <2>2, HandlerEnds
  <2>4. dialog' = dialog
    BY <2>2, HandlerEnds
  <2>5. d = e
    BY <2>1, <2>4 DEF ApprovedInv, OneList
  <2>6. shown[c] = GetAllRestaurants(c, d)
    BY <2>1, <2>4 DEF QuietInv, FreshlyDrawn
  <2>7. cache \subseteq Catalogue
    BY <2>1 DEF QuietInv, AloneIsAlone, Storing
  <2>8. GetCachedRestaurants(c, d) \subseteq GetAllRestaurants(c, d)
    BY <2>7 DEF GetCachedRestaurants, GetAllRestaurants
  <2>9. AppendUnique(shown[c], GetCachedRestaurants(c, d)) = GetAllRestaurants(c, d)
    BY <2>6, <2>8, NothingToAdd
  <2>10. shown'[c] = GetAllRestaurants(c, d)
    BY <2>1, <2>3, <2>5, <2>9 DEF TypeOK
  <2>11. GetAllRestaurants(c, d) = Proper(c, d)
    BY <2>1 DEF GetAllRestaurants, Proper, Wanted
  <2>12. QED
    BY <2>10, <2>11
<1>4. QED
  BY <1>1, <1>2, <1>3, PTL DEF Spec, QuietAnswerIsExact

=============================================================================
