--------------------------- MODULE OrderingProofs ---------------------------
(***************************************************************************)
(* Proofs about Ordering, for any number of processes, customers and       *)
(* coupons, with failing statements and crashes allowed.                   *)
(***************************************************************************)
EXTENDS Ordering, SequenceTheorems, FiniteSetTheorems, TLAPS

-----------------------------------------------------------------------------
(* Operators.                                                              *)

\* validateCoupon never grants more than the order's total.
LEMMA DiscountBounded ==
  ASSUME NEW c \in Coupons, NEW t \in Nat
  PROVE  Discount(c, t) \in Nat /\ Discount(c, t) <= t
<1>1. Value[c] \in Nat \ {0}
  BY OrderingAssumption
<1>2. t * Value[c] \in Nat
  BY <1>1
<1>3. (t * Value[c]) \div 100 \in Nat
  BY <1>2
<1>. QED
  BY <1>1, <1>3 DEF Discount

\* What is left to pay is a natural number.
LEMMA DueIsNat ==
  ASSUME NEW j \in Job, j.discount <= j.base
  PROVE  Due(j) \in Nat
BY DEF Due, Job

\* The locals a flow begins with.
LEMMA NewJobOK ==
  ASSUME NEW u \in Users, NEW t \in Totals, NEW c \in MaybeCoupon,
         NEW m \in Methods
  PROVE  LET j == NewJob(u, t, c, m)
         IN  /\ j \in Job
             /\ j.user \in Users /\ j.discount <= j.base
             /\ j.user = u /\ j.order = 0
<1>. DEFINE d == IF c = NoCoupon THEN 0 ELSE Discount(c, t)
<1>1. t \in Nat
  BY OrderingAssumption
<1>2. d \in Nat /\ d <= t
  BY <1>1, DiscountBounded DEF MaybeCoupon
<1>3. NewJob(u, t, c, m) =
        [user |-> u, base |-> t, coupon |-> c, discount |-> d,
         method |-> m, payable |-> TRUE, order |-> 0]
  BY DEF NewJob
<1>. HIDE DEF d
<1>. QED
  BY <1>1, <1>2, <1>3 DEF Job

\* Changing one field of one order row gives a table of order rows again.
LEMMA OrderUpdate ==
  ASSUME orders \in Seq(Order), NEW i \in 1..Len(orders), NEW r \in Order
  PROVE  /\ [orders EXCEPT ![i] = r] \in Seq(Order)
         /\ Len([orders EXCEPT ![i] = r]) = Len(orders)
         /\ [orders EXCEPT ![i] = r][i] = r
         /\ \A k \in 1..Len(orders) :
              k # i => [orders EXCEPT ![i] = r][k] = orders[k]
BY ExceptSeq

-----------------------------------------------------------------------------
(* Types.                                                                  *)

\* The initial rows and flows have their types.
LEMMA TypeInit == Init => TypeInv
<1>. SUFFICES ASSUME Init PROVE TypeInv
  OBVIOUS
<1>1. NoJob \in Job
  BY DEF NoJob, Job, MaybeCoupon, Methods
<1>2. TypeOK
  BY <1>1 DEF Init, TypeOK, Stages
<1>3. JobOK
  BY DEF Init, JobOK, NoJob, Holding
<1>. QED
  BY <1>2, <1>3 DEF TypeInv

\* RefreshTotals only touches the OK button.
LEMMA RefreshedJob ==
  ASSUME NEW j \in Job
  PROVE  LET r == RefreshTotals(j)
         IN  /\ r \in Job
             /\ r.user = j.user /\ r.order = j.order
             /\ r.discount = j.discount /\ r.base = j.base
<1>. DEFINE b == ~(j.method = "wallet" /\ balance[j.user] < Due(j))
<1>1. b \in BOOLEAN
  OBVIOUS
<1>2. RefreshTotals(j) = [j EXCEPT !.payable = b]
  BY DEF RefreshTotals
<1>. HIDE DEF b
<1>. QED
  BY <1>1, <1>2 DEF Job

\* A step of the dialog that keeps customer and id keeps the invariant.
LEMMA DialogJob ==
  ASSUME TypeInv, NEW w \in Workers, NEW r \in Job,
         pc[w] = "dialog", r.user = job[w].user, r.order = job[w].order,
         r.discount <= r.base, job' = [job EXCEPT ![w] = r],
         UNCHANGED <<dbVars, pc, acked>>
  PROVE  TypeInv'
BY DEF TypeInv, TypeOK, JobOK, Holding, dbVars

\* Every statement of a flow, and every other writer, keeps the types.
LEMMA TypeStep == TypeInv /\ [Next]_vars => TypeInv'
<1>. SUFFICES ASSUME TypeInv, [Next]_vars PROVE TypeInv'
  OBVIOUS
<1>. USE DEF TypeInv
<1>0. NoJob \in Job /\ NoJob.discount <= NoJob.base
  BY DEF NoJob, Job, MaybeCoupon, Methods
<1>1. ASSUME NEW u \in Users, NEW t \in Totals, NEW c \in MaybeCoupon,
             NEW m \in Methods, PlaceOrder(u, t, c, m)
      PROVE  TypeInv'
  BY <1>1, NewJobOK DEF PlaceOrder, TypeOK, JobOK, Stages, Holding, dbVars,
                        Workers
<1>2. ASSUME NEW w \in Workers, NEW u \in Users, NEW t \in Totals,
             OpenCheckout(w, u, t)
      PROVE  TypeInv'
  <2>1. NoCoupon \in MaybeCoupon /\ "cash" \in Methods
    BY DEF MaybeCoupon, Methods
  <2>. QED
    BY <1>2, <2>1, NewJobOK
       DEF OpenCheckout, TypeOK, JobOK, Stages, Holding, dbVars
<1>3. ASSUME NEW w \in Workers, NEW c \in Coupons, ApplyCoupon(w, c)
      PROVE  TypeInv'
  <2>1. job[w].base \in Nat
    BY DEF TypeOK, Job
  <2>2. Discount(c, job[w].base) \in Nat
        /\ Discount(c, job[w].base) <= job[w].base
    BY <2>1, DiscountBounded
  <2>. DEFINE d == [job[w] EXCEPT !.coupon = c,
                                  !.discount = Discount(c, job[w].base)]
  <2>3. /\ d \in Job
        /\ d.user = job[w].user /\ d.order = job[w].order
        /\ d.discount <= d.base
    BY <2>1, <2>2 DEF TypeOK, Job, MaybeCoupon
  <2>. HIDE DEF d
  <2>4. job' = [job EXCEPT ![w] = RefreshTotals(d)]
        /\ pc[w] = "dialog" /\ UNCHANGED <<dbVars, pc, acked>>
    BY <1>3 DEF ApplyCoupon, d
  <2>. QED
    BY <2>3, <2>4, RefreshedJob, DialogJob
<1>4. ASSUME NEW w \in Workers, NEW m \in Methods, SelectMethod(w, m)
      PROVE  TypeInv'
  <2>. DEFINE d == [job[w] EXCEPT !.method = m]
  <2>1. /\ d \in Job
        /\ d.user = job[w].user /\ d.order = job[w].order
        /\ d.discount <= d.base
    BY DEF TypeOK, JobOK, Job
  <2>. HIDE DEF d
  <2>2. job' = [job EXCEPT ![w] = RefreshTotals(d)]
        /\ pc[w] = "dialog" /\ UNCHANGED <<dbVars, pc, acked>>
    BY <1>4 DEF SelectMethod, d
  <2>. QED
    BY <2>1, <2>2, RefreshedJob, DialogJob
<1>5. ASSUME NEW w \in Workers,
             RejectDialog(w) \/ CreateOrderFails(w) \/ AddOrderItemsFails(w)
               \/ Crash(w)
      PROVE  TypeInv'
  BY <1>5, <1>0
     DEF RejectDialog, CreateOrderFails, AddOrderItemsFails, Crash, Finish,
         TypeOK, JobOK, Stages, Holding, dbVars
<1>6. ASSUME NEW w \in Workers, AcceptDialog(w)
      PROVE  TypeInv'
  BY <1>6, <1>0
     DEF AcceptDialog, GoTo, Finish, TypeOK, JobOK, Stages, Holding, dbVars
<1>7. ASSUME NEW w \in Workers, CreateOrder(w)
      PROVE  TypeInv'
  <2>1. Due(job[w]) \in Nat
    BY DueIsNat DEF TypeOK, JobOK
  <2>2. job[w].user \in Users
    BY <1>7 DEF CreateOrder, JobOK
  <2>3. orders' \in Seq(Order) /\ Len(orders') = Len(orders) + 1
    BY <1>7, <2>1, <2>2 DEF CreateOrder, TypeOK, Order, Job
  <2>. DEFINE r == [job[w] EXCEPT !.order = Len(orders) + 1]
  <2>4. Len(orders) \in Nat
    BY DEF TypeOK
  <2>5. /\ r \in Job /\ r.user = job[w].user
        /\ r.discount <= r.base /\ r.order = Len(orders) + 1
    <3>1. job[w] \in Job /\ job[w].discount <= job[w].base
      BY DEF TypeOK, JobOK
    <3>. QED
      BY <2>4, <3>1 DEF Job
  <2>6. job' = [job EXCEPT ![w] = r]
    BY <1>7 DEF CreateOrder
  <2>. HIDE DEF r
  <2>7. TypeOK'
    <3>1. pc' \in [Workers -> Stages] /\ job' \in [Workers -> Job]
      BY <1>7, <2>5, <2>6 DEF CreateOrder, TypeOK, Stages
    <3>2. acked' \subseteq DOMAIN orders'
      BY <1>7, <2>3, <2>4 DEF CreateOrder, TypeOK
    <3>. QED
      BY <1>7, <2>3, <3>1, <3>2 DEF CreateOrder, TypeOK
  <2>8. JobOK'
    BY <1>7, <2>2, <2>3, <2>4, <2>5, <2>6
       DEF CreateOrder, TypeOK, JobOK, Holding
  <2>. QED
    BY <2>7, <2>8
<1>8. ASSUME NEW w \in Workers, AddOrderItems(w)
      PROVE  TypeInv'
  <2>1. job[w].order \in 1..Len(orders)
    BY <1>8 DEF AddOrderItems, JobOK, Holding
  <2>2. orders[job[w].order] \in Order
    BY <2>1 DEF TypeOK
  <2>3. orders' \in Seq(Order) /\ Len(orders') = Len(orders)
    <3>1. [orders[job[w].order] EXCEPT !.items = TRUE] \in Order
      BY <2>2 DEF Order
    <3>. QED
      BY <1>8, <2>1, <3>1, OrderUpdate DEF AddOrderItems, TypeOK
  <2>4. job[w].coupon # NoCoupon => job[w].coupon \in Coupons
    BY DEF TypeOK, Job, MaybeCoupon
  <2>5. TypeOK'
    BY <1>8, <2>3 DEF AddOrderItems, AfterPayment, GoTo, TypeOK, Stages
  <2>6. JobOK'
    BY <1>8, <2>3, <2>4
       DEF AddOrderItems, AfterPayment, GoTo, TypeOK, JobOK, Holding
  <2>. QED
    BY <2>5, <2>6
<1>9. ASSUME NEW w \in Workers, PayFromWallet(w)
      PROVE  TypeInv'
  <2>1. Due(job[w]) \in Nat
    BY DueIsNat DEF TypeOK, JobOK
  <2>2. job[w].user \in Users /\ job[w].order \in Nat
    BY <1>9 DEF PayFromWallet, TypeOK, JobOK, Job
  <2>3. ledger' \in Seq(LedgerRow)
    BY <1>9, <2>1, <2>2 DEF PayFromWallet, TypeOK, LedgerRow
  <2>4. balance' \in [Users -> Int]
    BY <1>9, <2>1, <2>2 DEF PayFromWallet, TypeOK
  <2>5. job[w].coupon # NoCoupon => job[w].coupon \in Coupons
    BY DEF TypeOK, Job, MaybeCoupon
  <2>6. TypeOK'
    BY <1>9, <2>3, <2>4 DEF PayFromWallet, AfterPayment, GoTo, TypeOK, Stages
  <2>7. JobOK'
    BY <1>9, <2>5
       DEF PayFromWallet, AfterPayment, GoTo, TypeOK, JobOK, Holding
  <2>. QED
    BY <2>6, <2>7
<1>10. ASSUME NEW w \in Workers, PaymentRefused(w)
       PROVE  TypeInv'
  BY <1>10 DEF PaymentRefused, GoTo, TypeOK, JobOK, Stages, Holding, dbVars
<1>11. ASSUME NEW w \in Workers, CancelOrder(w)
       PROVE  TypeInv'
  <2>1. job[w].order \in 1..Len(orders)
    BY <1>11 DEF CancelOrder, JobOK, Holding
  <2>2. orders[job[w].order] \in Order
    BY <2>1 DEF TypeOK
  <2>3. orders' \in Seq(Order) /\ Len(orders') = Len(orders)
    <3>1. [orders[job[w].order] EXCEPT !.status = "cancelled"] \in Order
      BY <2>2 DEF Order
    <3>2. orders \in Seq(Order)
      BY DEF TypeOK
    <3>3. \/ orders' = [orders EXCEPT ![job[w].order] =
                          [orders[job[w].order] EXCEPT !.status = "cancelled"]]
          \/ orders' = orders
      BY <1>11 DEF CancelOrder
    <3>. QED
      BY <2>1, <3>1, <3>2, <3>3, OrderUpdate
  <2>4. TypeOK'
    BY <1>11, <1>0, <2>3 DEF CancelOrder, Finish, TypeOK, Stages
  <2>5. JobOK'
    BY <1>11, <1>0, <2>3 DEF CancelOrder, Finish, TypeOK, JobOK, Holding
  <2>. QED
    BY <2>4, <2>5
<1>12. ASSUME NEW w \in Workers, ConsumeCoupon(w)
       PROVE  TypeInv'
  <2>1. job[w].coupon \in Coupons
    BY <1>12 DEF ConsumeCoupon, JobOK
  <2>2. used' \in [Coupons -> Nat]
    BY <1>12, <2>1 DEF ConsumeCoupon, TypeOK
  <2>. QED
    BY <1>12, <2>2 DEF ConsumeCoupon, GoTo, TypeOK, JobOK, Stages, Holding
<1>13. ASSUME NEW w \in Workers, Reply(w)
       PROVE  TypeInv'
  <2>1. job[w].order \in DOMAIN orders
    BY <1>13 DEF Reply, TypeOK, JobOK, Holding
  <2>. QED
    BY <1>13, <1>0, <2>1
       DEF Reply, Finish, TypeOK, JobOK, Stages, Holding, dbVars
<1>14. ASSUME NEW w \in Workers, NEW u \in Users, NEW a \in TopUps,
              ChargeWallet(w, u, a)
       PROVE  TypeInv'
  <2>1. a \in Nat
    BY OrderingAssumption
  <2>2. ledger' \in Seq(LedgerRow)
    BY <1>14, <2>1 DEF ChargeWallet, TypeOK, LedgerRow
  <2>. QED
    BY <1>14, <2>1, <2>2 DEF ChargeWallet, TypeOK, JobOK
<1>15. ASSUME NEW u \in Users, NEW a \in ApiAmounts, NEW o \in 1..MaxOrders,
              PayCommand(u, a, o)
       PROVE  TypeInv'
  <2>1. a \in Nat /\ o \in Nat
    BY OrderingAssumption
  <2>2. ledger' \in Seq(LedgerRow)
    BY <1>15, <2>1 DEF PayCommand, TypeOK, LedgerRow
  <2>. QED
    BY <1>15, <2>1, <2>2 DEF PayCommand, TypeOK, JobOK
<1>16. ASSUME NEW c \in Coupons, NEW b \in BOOLEAN, SetCouponActive(c, b)
       PROVE  TypeInv'
  BY <1>16 DEF SetCouponActive, TypeOK, JobOK
<1>17. ASSUME NEW c \in Coupons, CouponExpires(c)
       PROVE  TypeInv'
  BY <1>17 DEF CouponExpires, TypeOK, JobOK
<1>18. CASE UNCHANGED vars
  BY <1>18 DEF vars, TypeOK, JobOK
<1>. QED
  BY <1>1, <1>2, <1>3, <1>4, <1>5, <1>6, <1>7, <1>8, <1>9, <1>10, <1>11,
     <1>12, <1>13, <1>14, <1>15, <1>16, <1>17, <1>18
     DEF Next, Step, Dialog

\* Every variable keeps its type, and every stage of a flow has the locals it
\* needs: an id that names an order row, a customer, a discount the total
\* covers.
THEOREM TypeCorrect == Spec => []TypeInv
<1>. QED
  BY TypeInit, TypeStep, PTL DEF Spec

-----------------------------------------------------------------------------
(* The guards in the WHERE clauses.                                        *)

\* Only three steps write users.balance.
LEMMA OverdraftStep == TypeInv /\ NoOverdraft /\ [Next]_vars => NoOverdraft'
<1>. SUFFICES ASSUME TypeInv, NoOverdraft, [Next]_vars PROVE NoOverdraft'
  OBVIOUS
<1>. USE DEF NoOverdraft
<1>1. ASSUME UNCHANGED balance
      PROVE  NoOverdraft'
  BY <1>1
<1>2. ASSUME NEW w \in Workers, PayFromWallet(w)
      PROVE  NoOverdraft'
  <2>1. /\ job[w].user \in Users
        /\ Due(job[w]) \in Nat
    BY <1>2, DueIsNat DEF PayFromWallet, TypeInv, TypeOK, JobOK
  <2>. QED
    BY <1>2, <2>1 DEF PayFromWallet, CanPay, TypeInv, TypeOK
<1>3. ASSUME NEW w \in Workers, NEW u \in Users, NEW a \in TopUps,
             ChargeWallet(w, u, a)
      PROVE  NoOverdraft'
  BY <1>3, OrderingAssumption DEF ChargeWallet, TypeInv, TypeOK
<1>4. ASSUME NEW u \in Users, NEW a \in ApiAmounts, NEW o \in 1..MaxOrders,
             PayCommand(u, a, o)
      PROVE  NoOverdraft'
  BY <1>4, OrderingAssumption DEF PayCommand, CanPay, TypeInv, TypeOK
<1>. QED
  BY <1>1, <1>2, <1>3, <1>4
     DEF Next, Step, Dialog, vars, dbVars, PlaceOrder, OpenCheckout,
         ApplyCoupon, SelectMethod, RejectDialog, AcceptDialog, CreateOrder,
         CreateOrderFails, AddOrderItems, AddOrderItemsFails, PaymentRefused,
         CancelOrder, ConsumeCoupon, Reply, Crash, SetCouponActive,
         CouponExpires

\* No wallet is ever overdrawn, whatever the number of processes that pay.
THEOREM NeverOverdrawn == Spec => []NoOverdraft
<1>1. Init => NoOverdraft
  BY DEF Init, NoOverdraft
<1>. QED
  BY <1>1, TypeCorrect, OverdraftStep, PTL DEF Spec

\* consumeCoupon alone writes used_count, and it tests the limit itself.
LEMMA CouponStep ==
  TypeInv /\ CouponWithinLimit /\ [Next]_vars => CouponWithinLimit'
<1>. SUFFICES ASSUME TypeInv, CouponWithinLimit, [Next]_vars
              PROVE  CouponWithinLimit'
  OBVIOUS
<1>. USE DEF CouponWithinLimit
<1>1. ASSUME UNCHANGED used
      PROVE  CouponWithinLimit'
  BY <1>1
<1>2. ASSUME NEW w \in Workers, ConsumeCoupon(w)
      PROVE  CouponWithinLimit'
  <2>1. job[w].coupon \in Coupons
    BY <1>2 DEF ConsumeCoupon, TypeInv, JobOK
  <2>2. used \in [Coupons -> Nat] /\ MaxUses \in [Coupons -> Int]
    BY OrderingAssumption DEF TypeInv, TypeOK
  <2>. QED
    BY <1>2, <2>1, <2>2 DEF ConsumeCoupon, Consumable
<1>. QED
  BY <1>1, <1>2
     DEF Next, Step, Dialog, vars, dbVars, PlaceOrder, OpenCheckout,
         ApplyCoupon, SelectMethod, RejectDialog, AcceptDialog, CreateOrder,
         CreateOrderFails, AddOrderItems, AddOrderItemsFails, PayFromWallet,
         PaymentRefused, CancelOrder, Reply, Crash, ChargeWallet, PayCommand,
         SetCouponActive, CouponExpires

\* used_count stays within max_uses, whatever the number of processes.
THEOREM CouponNeverOverCounted == Spec => []CouponWithinLimit
<1>1. Init => CouponWithinLimit
  BY OrderingAssumption DEF Init, CouponWithinLimit
<1>. QED
  BY <1>1, TypeCorrect, CouponStep, PTL DEF Spec

-----------------------------------------------------------------------------
(* Paying once, and only for a whole order: PaymentInv is inductive.       *)

\* A step that touches neither rows nor payments, and after which every flow
\* is where it was or has none.
LEMMA PaymentStutter ==
  ASSUME TypeInv, PaymentInv, UNCHANGED <<orders, ledger, acked>>,
         \A w \in Workers :
           \/ pc'[w] \notin Holding
           \/ /\ pc'[w] = pc[w]
              /\ job'[w] = job[w]
  PROVE  PaymentInv'
BY DEF PaymentInv, OwnRow, RowFollowsFlow, PaidOrderIsWhole,
       OnePaymentPerOrder, AckedOrderIsGood, Paid, Payment, Due

\* Before the first order there is no payment to account for.
LEMMA PaymentInit == Init => PaymentInv
BY DEF Init, PaymentInv, OwnRow, RowFollowsFlow, PaidOrderIsWhole,
       OnePaymentPerOrder, AckedOrderIsGood, Holding

\* Appending a row to wallet_transactions adds at most one paid order.
LEMMA PaidAppend ==
  ASSUME ledger \in Seq(LedgerRow), NEW r \in LedgerRow,
         ledger' = Append(ledger, r)
  PROVE  /\ Len(ledger') = Len(ledger) + 1
         /\ ledger'[Len(ledger) + 1] = r
         /\ \A i \in 1..Len(ledger) : ledger'[i] = ledger[i]
         /\ \A o : Paid(o)' <=>
              Paid(o) \/ (r.kind = "payment" /\ r.order = o)
<1>1. /\ Len(ledger') = Len(ledger) + 1
      /\ ledger'[Len(ledger) + 1] = r
      /\ \A i \in 1..Len(ledger) : ledger'[i] = ledger[i]
      /\ Len(ledger) \in Nat
  OBVIOUS
<1>2. DOMAIN ledger = 1..Len(ledger) /\ DOMAIN ledger' = 1..Len(ledger) + 1
  BY <1>1
<1>. QED
  BY <1>1, <1>2 DEF Paid, Payment

\* An insert: the new row belongs to the flow that made it.
LEMMA CreateKeepsPaymentInv ==
  ASSUME TypeInv, PaymentInv, NEW w \in Workers, CreateOrder(w)
  PROVE  PaymentInv'
<1>. DEFINE n == Len(orders) + 1
            r == [customer |-> job[w].user, total |-> Due(job[w]),
                  discount |-> job[w].discount, coupon |-> job[w].coupon,
                  method |-> job[w].method, status |-> "pending",
                  items |-> FALSE]
<1>1. /\ Len(orders) \in Nat
      /\ Len(orders') = n /\ orders'[n] = r
      /\ \A i \in 1..Len(orders) : orders'[i] = orders[i]
      /\ DOMAIN orders = 1..Len(orders) /\ DOMAIN orders' = 1..n
  <2>1. orders \in Seq(Order)
    BY DEF TypeInv, TypeOK
  <2>2. orders' = Append(orders, r)
    BY DEF CreateOrder
  <2>3. r \in Order
    <3>1. Due(job[w]) \in Nat
      BY DueIsNat DEF TypeInv, TypeOK, JobOK
    <3>2. job[w].user \in Users /\ job[w] \in Job
      BY DEF CreateOrder, TypeInv, TypeOK, JobOK
    <3>. QED
      BY <3>1, <3>2 DEF Order, Job
  <2>. HIDE DEF r
  <2>. QED
    BY <2>1, <2>2, <2>3
<1>2. /\ job'[w].order = n
      /\ job'[w].user = job[w].user /\ job'[w].method = job[w].method
      /\ Due(job'[w]) = Due(job[w])
      /\ pc'[w] = "items" /\ pc[w] = "create"
      /\ \A v \in Workers : v # w => job'[v] = job[v] /\ pc'[v] = pc[v]
  <2>1. job[w] \in Job /\ job \in [Workers -> Job] /\ pc \in [Workers -> Stages]
    BY DEF TypeInv, TypeOK
  <2>. QED
    BY <2>1 DEF CreateOrder, Due, Job
<1>3. ledger' = ledger /\ acked' = acked
  BY DEF CreateOrder
<1>4. \A v \in Workers : pc[v] \in Holding =>
        job[v].order \in 1..Len(orders)
  BY DEF TypeInv, JobOK
<1>5. ~Paid(n)
  BY <1>1 DEF PaymentInv, PaidOrderIsWhole, Paid, Payment
<1>6. OwnRow'
  BY <1>1, <1>2, <1>4 DEF PaymentInv, OwnRow, Holding
<1>7. RowFollowsFlow'
  <2>1. \A o : Paid(o)' = Paid(o)
    BY <1>3 DEF Paid, Payment
  <2>2. ASSUME NEW v \in Workers, v # w, pc'[v] \in Holding
        PROVE  /\ orders'[job'[v].order] = orders[job[v].order]
               /\ job'[v] = job[v] /\ pc'[v] = pc[v]
    BY <1>1, <1>2, <1>4, <2>2
  <2>3. orders'[job'[w].order] = r
    BY <1>1, <1>2
  <2>. QED
    BY <1>2, <1>5, <2>1, <2>2, <2>3 DEF PaymentInv, RowFollowsFlow, Holding
<1>8. PaidOrderIsWhole'
  BY <1>1, <1>3 DEF PaymentInv, PaidOrderIsWhole
<1>9. OnePaymentPerOrder'
  BY <1>3 DEF PaymentInv, OnePaymentPerOrder
<1>10. AckedOrderIsGood'
  <2>1. \A o : Paid(o)' = Paid(o)
    BY <1>3 DEF Paid, Payment
  <2>2. acked \subseteq 1..Len(orders)
    BY <1>1 DEF TypeInv, TypeOK
  <2>. QED
    BY <1>1, <1>3, <2>1, <2>2 DEF PaymentInv, AckedOrderIsGood
<1>. QED
  BY <1>6, <1>7, <1>8, <1>9, <1>10 DEF PaymentInv

\* What the next steps share: the row of a holding flow exists, and a step of
\* one flow leaves the others alone.
LEMMA HoldingFacts ==
  ASSUME TypeInv, NEW w \in Workers, pc[w] \in Holding
  PROVE  /\ DOMAIN orders = 1..Len(orders) /\ Len(orders) \in Nat
         /\ job[w].order \in 1..Len(orders)
         /\ orders[job[w].order] \in Order
         /\ job[w] \in Job /\ job[w].user \in Users
BY DEF TypeInv, TypeOK, JobOK, Holding

\* Items: the row changes in one field, and its flow goes to pay or on.
LEMMA ItemsKeepPaymentInv ==
  ASSUME TypeInv, PaymentInv, NEW w \in Workers, AddOrderItems(w)
  PROVE  PaymentInv'
<1>. DEFINE n == job[w].order
            r == [orders[n] EXCEPT !.items = TRUE]
<1>0. pc[w] = "items" /\ pc[w] \in Holding
  BY DEF AddOrderItems, Holding
<1>1. /\ n \in 1..Len(orders) /\ orders[n] \in Order
      /\ DOMAIN orders = 1..Len(orders) /\ Len(orders) \in Nat
      /\ orders \in Seq(Order)
  BY <1>0, HoldingFacts DEF TypeInv, TypeOK
<1>2. /\ r \in Order
      /\ r.items = TRUE /\ r.status = orders[n].status
      /\ r.customer = orders[n].customer /\ r.method = orders[n].method
      /\ r.total = orders[n].total
  BY <1>1 DEF Order
<1>3. orders' = [orders EXCEPT ![n] = r]
  BY DEF AddOrderItems
<1>. HIDE DEF r
<1>4. /\ Len(orders') = Len(orders) /\ DOMAIN orders' = 1..Len(orders)
      /\ orders'[n] = r
      /\ \A k \in 1..Len(orders) : k # n => orders'[k] = orders[k]
  BY <1>1, <1>2, <1>3, OrderUpdate
<1>. HIDE DEF n
<1>5. /\ ledger' = ledger /\ acked' = acked /\ job' = job
      /\ pc'[w] \in {"pay", "consume", "reply"}
      /\ job[w].method = "wallet" <=> pc'[w] = "pay"
      /\ \A v \in Workers : v # w => pc'[v] = pc[v]
  BY DEF AddOrderItems, GoTo, AfterPayment, TypeInv, TypeOK
<1>6. \A o : Paid(o)' = Paid(o)
  BY <1>5 DEF Paid, Payment
<1>7. OwnRow'
  BY <1>0, <1>5 DEF PaymentInv, OwnRow, Holding
<1>8. RowFollowsFlow'
  <2>1. ASSUME NEW v \in Workers, v # w, pc'[v] \in Holding
        PROVE  orders'[job[v].order] = orders[job[v].order]
    BY <1>0, <1>4, <1>5, <2>1, HoldingFacts DEF PaymentInv, OwnRow, n
  <2>2. job[w].method = orders[n].method /\ ~Paid(n)
    BY <1>0 DEF PaymentInv, RowFollowsFlow, n
  <2>. QED
    BY <1>0, <1>2, <1>4, <1>5, <1>6, <2>1, <2>2
       DEF PaymentInv, RowFollowsFlow, Due, n, Holding
<1>9. PaidOrderIsWhole'
  BY <1>1, <1>2, <1>4, <1>5 DEF PaymentInv, PaidOrderIsWhole
<1>10. OnePaymentPerOrder'
  BY <1>5 DEF PaymentInv, OnePaymentPerOrder
<1>11. AckedOrderIsGood'
  BY <1>1, <1>2, <1>4, <1>5, <1>6
     DEF PaymentInv, AckedOrderIsGood, TypeInv, TypeOK
<1>. QED
  BY <1>7, <1>8, <1>9, <1>10, <1>11 DEF PaymentInv

\* The payment itself: the flow owns an unpaid, whole row.
LEMMA PayKeepsPaymentInv ==
  ASSUME TypeInv, PaymentInv, NEW w \in Workers, PayFromWallet(w)
  PROVE  PaymentInv'
<1>. DEFINE n == job[w].order
            r == [user |-> job[w].user, amount |-> Due(job[w]),
                  kind |-> "payment", order |-> n]
<1>0. pc[w] = "pay" /\ pc[w] \in Holding
  BY DEF PayFromWallet, Holding
<1>1. /\ n \in 1..Len(orders) /\ DOMAIN orders = 1..Len(orders)
      /\ Len(orders) \in Nat /\ job[w].user \in Users
  BY <1>0, HoldingFacts
<1>2. /\ orders[n].items /\ orders[n].status = "pending"
      /\ orders[n].method = "wallet" /\ orders[n].total = Due(job[w])
      /\ orders[n].customer = job[w].user /\ ~Paid(n)
  BY <1>0 DEF PaymentInv, RowFollowsFlow
<1>3. r \in LedgerRow
  <2>1. Due(job[w]) \in Nat
    BY DueIsNat DEF TypeInv, TypeOK, JobOK
  <2>. QED
    BY <1>1, <2>1 DEF LedgerRow
<1>4. ledger \in Seq(LedgerRow) /\ ledger' = Append(ledger, r)
  BY DEF TypeInv, TypeOK, PayFromWallet
<1>5. /\ r.kind = "payment" /\ r.order = n
      /\ r.amount = Due(job[w]) /\ r.user = job[w].user
  OBVIOUS
<1>. HIDE DEF r
<1>6. /\ Len(ledger) \in Nat /\ DOMAIN ledger = 1..Len(ledger)
      /\ DOMAIN ledger' = 1..Len(ledger) + 1
      /\ ledger'[Len(ledger) + 1] = r
      /\ \A i \in 1..Len(ledger) : ledger'[i] = ledger[i]
      /\ \A o : Paid(o)' <=> Paid(o) \/ o = n
  BY <1>3, <1>4, <1>5, PaidAppend
<1>. HIDE DEF n
<1>7. /\ orders' = orders /\ acked' = acked /\ job' = job
      /\ pc'[w] \in {"consume", "reply"}
      /\ \A v \in Workers : v # w => pc'[v] = pc[v]
  BY DEF PayFromWallet, GoTo, AfterPayment, TypeInv, TypeOK
<1>8. OwnRow'
  BY <1>0, <1>7 DEF PaymentInv, OwnRow, Holding
<1>9. RowFollowsFlow'
  <2>1. ASSUME NEW v \in Workers, v # w, pc'[v] \in Holding
        PROVE  Paid(job[v].order)' <=> Paid(job[v].order)
    BY <1>0, <1>6, <1>7, <2>1 DEF PaymentInv, OwnRow, n
  <2>2. Paid(job[w].order)'
    BY <1>6, <1>7 DEF n
  <2>. QED
    BY <1>0, <1>2, <1>7, <2>1, <2>2
       DEF PaymentInv, RowFollowsFlow, Due, n, Holding
<1>10. PaidOrderIsWhole'
  BY <1>1, <1>2, <1>5, <1>6, <1>7 DEF PaymentInv, PaidOrderIsWhole
<1>11. OnePaymentPerOrder'
  <2>1. \A i \in 1..Len(ledger) :
          ledger[i].kind = "payment" => ledger[i].order # n
    BY <1>2, <1>6 DEF Paid, Payment
  <2>. QED
    BY <1>5, <1>6, <2>1 DEF PaymentInv, OnePaymentPerOrder
<1>12. AckedOrderIsGood'
  BY <1>6, <1>7 DEF PaymentInv, AckedOrderIsGood
<1>. QED
  BY <1>8, <1>9, <1>10, <1>11, <1>12 DEF PaymentInv

\* Cancelling: the row is unpaid, so no payment and no acknowledged order
\* names it.
LEMMA CancelKeepsPaymentInv ==
  ASSUME TypeInv, PaymentInv, NEW w \in Workers, CancelOrder(w)
  PROVE  PaymentInv'
<1>. DEFINE n == job[w].order
            r == [orders[n] EXCEPT !.status = "cancelled"]
<1>0. pc[w] = "cancel" /\ pc[w] \in Holding
  BY DEF CancelOrder, Holding
<1>1. /\ ledger' = ledger /\ acked' = acked /\ pc'[w] = "idle"
      /\ \A v \in Workers : v # w => pc'[v] = pc[v] /\ job'[v] = job[v]
  BY DEF CancelOrder, Finish, TypeInv, TypeOK
<1>2. CASE orders' = orders
  BY <1>1, <1>2, PaymentStutter DEF Holding
<1>3. CASE orders' = [orders EXCEPT ![n].status = "cancelled"]
  <2>1. /\ n \in 1..Len(orders) /\ orders[n] \in Order
        /\ DOMAIN orders = 1..Len(orders) /\ Len(orders) \in Nat
        /\ orders \in Seq(Order)
    BY <1>0, HoldingFacts DEF TypeInv, TypeOK
  <2>2. r \in Order
    BY <2>1 DEF Order
  <2>3. orders' = [orders EXCEPT ![n] = r]
    BY <1>3
  <2>. HIDE DEF r
  <2>4. /\ Len(orders') = Len(orders) /\ DOMAIN orders' = 1..Len(orders)
        /\ \A k \in 1..Len(orders) : k # n => orders'[k] = orders[k]
    BY <2>1, <2>2, <2>3, OrderUpdate
  <2>5. orders[n].method = "wallet" /\ ~Paid(n)
    BY <1>0 DEF PaymentInv, RowFollowsFlow
  <2>. HIDE DEF n
  <2>6. \A o : Paid(o)' = Paid(o)
    BY <1>1 DEF Paid, Payment
  <2>7. OwnRow'
    BY <1>1 DEF PaymentInv, OwnRow, Holding
  <2>8. RowFollowsFlow'
    <3>1. ASSUME NEW v \in Workers, pc'[v] \in Holding
          PROVE  /\ v # w
                 /\ orders'[job[v].order] = orders[job[v].order]
      <4>1. v # w
        BY <1>1, <3>1 DEF Holding
      <4>. QED
        BY <1>0, <1>1, <2>4, <3>1, <4>1, HoldingFacts
           DEF PaymentInv, OwnRow, n
    <3>. QED
      BY <1>1, <2>6, <3>1 DEF PaymentInv, RowFollowsFlow, Due
  <2>9. PaidOrderIsWhole'
    BY <1>1, <2>1, <2>4, <2>5
       DEF PaymentInv, PaidOrderIsWhole, Paid, Payment
  <2>10. OnePaymentPerOrder'
    BY <1>1 DEF PaymentInv, OnePaymentPerOrder
  <2>11. AckedOrderIsGood'
    <3>1. n \notin acked
      BY <2>5 DEF PaymentInv, AckedOrderIsGood
    <3>. QED
      BY <1>1, <2>1, <2>4, <2>6, <3>1
         DEF PaymentInv, AckedOrderIsGood, TypeInv, TypeOK
  <2>. QED
    BY <2>7, <2>8, <2>9, <2>10, <2>11 DEF PaymentInv
<1>. QED
  BY <1>2, <1>3 DEF CancelOrder

\* The steps that write no row: a refusal, the coupon, the answer.
LEMMA QuietKeepsPaymentInv ==
  ASSUME TypeInv, PaymentInv, NEW w \in Workers,
         PaymentRefused(w) \/ ConsumeCoupon(w) \/ Reply(w)
  PROVE  PaymentInv'
<1>1. /\ orders' = orders /\ ledger' = ledger
      /\ \A v \in Workers : v # w => pc'[v] = pc[v] /\ job'[v] = job[v]
      /\ pc[w] \in Holding
  BY DEF PaymentRefused, ConsumeCoupon, Reply, GoTo, Finish, dbVars, TypeInv,
         TypeOK, Holding
<1>2. \A o : Paid(o)' = Paid(o)
  BY <1>1 DEF Paid, Payment
<1>3. \/ /\ pc[w] = "pay" /\ pc'[w] = "cancel"
         /\ job'[w] = job[w] /\ acked' = acked
      \/ /\ pc[w] = "consume" /\ pc'[w] = "reply"
         /\ job'[w] = job[w] /\ acked' = acked
      \/ /\ pc[w] = "reply" /\ pc'[w] = "idle"
         /\ acked' = acked \cup {job[w].order}
  BY DEF PaymentRefused, ConsumeCoupon, Reply, GoTo, Finish, dbVars, TypeInv,
         TypeOK
<1>4. OwnRow'
  BY <1>1, <1>3 DEF PaymentInv, OwnRow, Holding
<1>5. RowFollowsFlow'
  BY <1>1, <1>2, <1>3 DEF PaymentInv, RowFollowsFlow, Due, Holding
<1>6. PaidOrderIsWhole' /\ OnePaymentPerOrder'
  BY <1>1 DEF PaymentInv, PaidOrderIsWhole, OnePaymentPerOrder
<1>7. AckedOrderIsGood'
  BY <1>1, <1>2, <1>3 DEF PaymentInv, AckedOrderIsGood, RowFollowsFlow
<1>. QED
  BY <1>4, <1>5, <1>6, <1>7 DEF PaymentInv

\* A top-up is no payment.
LEMMA ChargeKeepsPaymentInv ==
  ASSUME TypeInv, PaymentInv, NEW w \in Workers, NEW u \in Users,
         NEW a \in TopUps, ChargeWallet(w, u, a)
  PROVE  PaymentInv'
<1>. DEFINE r == [user |-> u, amount |-> a, kind |-> "topup", order |-> 0]
<1>1. r \in LedgerRow /\ r.kind = "topup"
  BY OrderingAssumption DEF LedgerRow
<1>2. ledger \in Seq(LedgerRow) /\ ledger' = Append(ledger, r)
  BY DEF ChargeWallet, TypeInv, TypeOK
<1>. HIDE DEF r
<1>3. /\ Len(ledger) \in Nat /\ DOMAIN ledger = 1..Len(ledger)
      /\ DOMAIN ledger' = 1..Len(ledger) + 1
      /\ ledger'[Len(ledger) + 1] = r
      /\ \A i \in 1..Len(ledger) : ledger'[i] = ledger[i]
      /\ \A o : Paid(o)' <=> Paid(o)
  BY <1>1, <1>2, PaidAppend
<1>4. orders' = orders /\ acked' = acked /\ job' = job /\ pc' = pc
  BY DEF ChargeWallet
<1>5. OwnRow'
  BY <1>4 DEF PaymentInv, OwnRow
<1>6. RowFollowsFlow'
  BY <1>3, <1>4 DEF PaymentInv, RowFollowsFlow, Due
<1>7. PaidOrderIsWhole'
  BY <1>1, <1>3, <1>4 DEF PaymentInv, PaidOrderIsWhole
<1>8. OnePaymentPerOrder'
  BY <1>1, <1>3 DEF PaymentInv, OnePaymentPerOrder
<1>9. AckedOrderIsGood'
  BY <1>3, <1>4 DEF PaymentInv, AckedOrderIsGood
<1>. QED
  BY <1>5, <1>6, <1>7, <1>8, <1>9 DEF PaymentInv

\* Every step of one flow leaves the rows and the knowledge of the others intact.
LEMMA PaymentStep ==
  ASSUME ApiAmounts = {}
  PROVE  TypeInv /\ PaymentInv /\ [Next]_vars => PaymentInv'
<1>. SUFFICES ASSUME TypeInv, PaymentInv, [Next]_vars PROVE PaymentInv'
  OBVIOUS
<1>1. ASSUME NEW u \in Users, NEW t \in Totals, NEW c \in MaybeCoupon,
             NEW m \in Methods, PlaceOrder(u, t, c, m)
      PROVE  PaymentInv'
  <2>1. /\ UNCHANGED <<orders, ledger, acked>>
        /\ \A w \in Workers : \/ pc'[w] \notin Holding
                              \/ pc'[w] = pc[w] /\ job'[w] = job[w]
    BY <1>1 DEF PlaceOrder, dbVars, Holding, TypeInv, TypeOK
  <2>. QED
    BY <2>1, PaymentStutter
<1>2. ASSUME NEW w \in Workers,
             Dialog(w) \/ CreateOrderFails(w) \/ AddOrderItemsFails(w)
               \/ Crash(w)
      PROVE  PaymentInv'
  <2>1. /\ UNCHANGED <<orders, ledger, acked>>
        /\ \A v \in Workers : \/ pc'[v] \notin Holding
                              \/ pc'[v] = pc[v] /\ job'[v] = job[v]
    BY <1>2
       DEF Dialog, OpenCheckout, ApplyCoupon, SelectMethod, RejectDialog,
           AcceptDialog, CreateOrderFails, AddOrderItemsFails, Crash, GoTo,
           Finish, dbVars, Holding, TypeInv, TypeOK
  <2>. QED
    BY <2>1, PaymentStutter
<1>3. ASSUME NEW w \in Workers, Step(w)
      PROVE  PaymentInv'
  BY <1>2, <1>3, CreateKeepsPaymentInv, ItemsKeepPaymentInv,
     PayKeepsPaymentInv, CancelKeepsPaymentInv, QuietKeepsPaymentInv DEF Step
<1>4. ASSUME NEW u \in Users, NEW a \in ApiAmounts, NEW o \in 1..MaxOrders,
             PayCommand(u, a, o)
      PROVE  PaymentInv'
  OBVIOUS
<1>5. ASSUME \/ \E c \in Coupons, b \in BOOLEAN : SetCouponActive(c, b)
             \/ \E c \in Coupons : CouponExpires(c)
             \/ UNCHANGED vars
      PROVE  PaymentInv'
  <2>1. UNCHANGED <<orders, ledger, acked, pc, job>>
    BY <1>5 DEF SetCouponActive, CouponExpires, vars
  <2>. QED
    BY <2>1, PaymentStutter
<1>. QED
  BY <1>1, <1>2, <1>3, <1>4, <1>5, ChargeKeepsPaymentInv DEF Next

\* As long as nobody sends pay_from_wallet by hand: whatever fails or dies, a
\* customer pays at most once for an order, pays its total, and only for an
\* order that has its items and is not cancelled; and every order the customer
\* was told about is complete and, by wallet, paid.
THEOREM PaymentsAreSound ==
  ASSUME ApiAmounts = {}
  PROVE  Spec => [](PaidOrderIsWhole /\ OnePaymentPerOrder /\ AckedOrderIsGood)
<1>1. TypeInv /\ PaymentInv /\ [Next]_vars => PaymentInv'
  BY PaymentStep
<1>2. PaymentInv => PaidOrderIsWhole /\ OnePaymentPerOrder /\ AckedOrderIsGood
  BY DEF PaymentInv
<1>. QED
  BY <1>1, <1>2, PaymentInit, TypeCorrect, PTL DEF Spec

\* No order is paid twice (databasehandler.cpp:833), whatever fails, crashes or is
\* tried again.
THEOREM PaidOnce ==
  ASSUME ApiAmounts = {}
  PROVE  Spec => []OnePaymentPerOrder
BY PaymentsAreSound, PTL

\* An order that was answered with success is complete, and paid if it was to be paid
\* from the wallet (connectionhandler.cpp:212, client.cpp:211).
THEOREM AcksAreGood ==
  ASSUME ApiAmounts = {}
  PROVE  Spec => []AckedOrderIsGood
BY PaymentsAreSound, PTL

-----------------------------------------------------------------------------
(* The row of a flow is the one it inserted.                               *)

\* What an insert does to the table of orders.
LEMMA InsertedRow ==
  ASSUME TypeInv, NEW w \in Workers, CreateOrder(w)
  PROVE  LET n == Len(orders) + 1
         IN  /\ Len(orders) \in Nat
             /\ DOMAIN orders = 1..Len(orders) /\ DOMAIN orders' = 1..n
             /\ \A i \in 1..Len(orders) : orders'[i] = orders[i]
             /\ orders'[n].coupon = job[w].coupon
             /\ orders'[n].method = job[w].method
             /\ orders'[n].status = "pending" /\ orders'[n].items = FALSE
             /\ job'[w].order = n
             /\ job'[w].coupon = job[w].coupon
             /\ job'[w].method = job[w].method
             /\ pc[w] = "create" /\ pc'[w] = "items"
             /\ \A v \in Workers : v # w => job'[v] = job[v] /\ pc'[v] = pc[v]
<1>. DEFINE r == [customer |-> job[w].user, total |-> Due(job[w]),
                  discount |-> job[w].discount, coupon |-> job[w].coupon,
                  method |-> job[w].method, status |-> "pending",
                  items |-> FALSE]
<1>1. r \in Order
  <2>1. Due(job[w]) \in Nat
    BY DueIsNat DEF TypeInv, TypeOK, JobOK
  <2>2. job[w].user \in Users /\ job[w] \in Job
    BY DEF CreateOrder, TypeInv, TypeOK, JobOK
  <2>. QED
    BY <2>1, <2>2 DEF Order, Job
<1>2. /\ r.coupon = job[w].coupon /\ r.method = job[w].method
      /\ r.status = "pending" /\ r.items = FALSE
  OBVIOUS
<1>3. orders \in Seq(Order) /\ orders' = Append(orders, r)
  BY DEF CreateOrder, TypeInv, TypeOK
<1>. HIDE DEF r
<1>4. /\ Len(orders) \in Nat
      /\ DOMAIN orders = 1..Len(orders)
      /\ DOMAIN orders' = 1..Len(orders) + 1
      /\ orders'[Len(orders) + 1] = r
      /\ \A i \in 1..Len(orders) : orders'[i] = orders[i]
  BY <1>1, <1>3
<1>5. /\ job'[w].order = Len(orders) + 1
      /\ job'[w].coupon = job[w].coupon
      /\ job'[w].method = job[w].method
      /\ pc[w] = "create" /\ pc'[w] = "items"
      /\ \A v \in Workers : v # w => job'[v] = job[v] /\ pc'[v] = pc[v]
  <2>1. job[w] \in Job /\ job \in [Workers -> Job] /\ pc \in [Workers -> Stages]
    BY DEF TypeInv, TypeOK
  <2>. QED
    BY <2>1 DEF CreateOrder, Job
<1>. QED
  BY <1>2, <1>4, <1>5

\* What adding the items does: one field of the flow's own row.
LEMMA ItemsRow ==
  ASSUME TypeInv, NEW w \in Workers, AddOrderItems(w)
  PROVE  LET n == job[w].order
         IN  /\ n \in DOMAIN orders
             /\ DOMAIN orders' = DOMAIN orders
             /\ \A i \in DOMAIN orders : i # n => orders'[i] = orders[i]
             /\ orders'[n].coupon = orders[n].coupon
             /\ orders'[n].method = orders[n].method
             /\ orders'[n].status = orders[n].status
             /\ orders'[n].items = TRUE
             /\ pc[w] = "items" /\ job' = job
             /\ pc'[w] = IF job[w].method = "wallet" THEN "pay"
                         ELSE AfterPayment(job[w])
             /\ \A v \in Workers : v # w => pc'[v] = pc[v]
<1>. DEFINE n == job[w].order
            r == [orders[n] EXCEPT !.items = TRUE]
<1>0. pc[w] = "items" /\ pc[w] \in Holding
  BY DEF AddOrderItems, Holding
<1>1. /\ n \in 1..Len(orders) /\ orders[n] \in Order
      /\ DOMAIN orders = 1..Len(orders) /\ Len(orders) \in Nat
      /\ orders \in Seq(Order)
  BY <1>0, HoldingFacts DEF TypeInv, TypeOK
<1>2. /\ r \in Order
      /\ r.items = TRUE /\ r.status = orders[n].status
      /\ r.coupon = orders[n].coupon /\ r.method = orders[n].method
  BY <1>1 DEF Order
<1>3. orders' = [orders EXCEPT ![n] = r]
  BY DEF AddOrderItems
<1>. HIDE DEF r
<1>4. /\ Len(orders') = Len(orders) /\ DOMAIN orders' = 1..Len(orders)
      /\ orders'[n] = r
      /\ \A k \in 1..Len(orders) : k # n => orders'[k] = orders[k]
  BY <1>1, <1>2, <1>3, OrderUpdate
<1>5. /\ job' = job
      /\ pc'[w] = IF job[w].method = "wallet" THEN "pay"
                  ELSE AfterPayment(job[w])
      /\ \A v \in Workers : v # w => pc'[v] = pc[v]
  BY DEF AddOrderItems, GoTo, TypeInv, TypeOK
<1>. QED
  BY <1>0, <1>1, <1>2, <1>4, <1>5

\* What a cancellation does, when its UPDATE succeeds: the status of the flow's
\* own row.
LEMMA CancelledRow ==
  ASSUME TypeInv, NEW w \in Workers, CancelOrder(w), orders' # orders
  PROVE  LET n == job[w].order
         IN  /\ n \in DOMAIN orders
             /\ DOMAIN orders' = DOMAIN orders
             /\ \A i \in DOMAIN orders : i # n => orders'[i] = orders[i]
             /\ orders'[n].coupon = orders[n].coupon
             /\ orders'[n].method = orders[n].method
             /\ orders'[n].items = orders[n].items
             /\ orders'[n].status = "cancelled"
<1>. DEFINE n == job[w].order
            r == [orders[n] EXCEPT !.status = "cancelled"]
<1>0. pc[w] \in Holding
  BY DEF CancelOrder, Holding
<1>1. /\ n \in 1..Len(orders) /\ orders[n] \in Order
      /\ DOMAIN orders = 1..Len(orders) /\ Len(orders) \in Nat
      /\ orders \in Seq(Order)
  BY <1>0, HoldingFacts DEF TypeInv, TypeOK
<1>2. /\ r \in Order
      /\ r.items = orders[n].items /\ r.status = "cancelled"
      /\ r.coupon = orders[n].coupon /\ r.method = orders[n].method
  BY <1>1 DEF Order
<1>3. orders' = [orders EXCEPT ![n] = r]
  BY DEF CancelOrder
<1>. HIDE DEF r
<1>4. /\ Len(orders') = Len(orders) /\ DOMAIN orders' = 1..Len(orders)
      /\ orders'[n] = r
      /\ \A k \in 1..Len(orders) : k # n => orders'[k] = orders[k]
  BY <1>1, <1>2, <1>3, OrderUpdate
<1>. QED
  BY <1>1, <1>2, <1>4

\* A step that writes no order row and gives no flow a row.
LEMMA RowsStutter ==
  ASSUME TypeInv, OwnRow, RowIsFlows, UNCHANGED orders,
         \A w \in Workers :
           \/ pc'[w] \notin Holding
           \/ /\ pc[w] \in Holding
              /\ pc'[w] = "items" => pc[w] = "items"
              /\ job'[w] = job[w]
  PROVE  OwnRow' /\ RowIsFlows'
BY DEF OwnRow, RowIsFlows

\* No step gives two flows one row or changes a row under its flow.
LEMMA RowsStep ==
  TypeInv /\ OwnRow /\ RowIsFlows /\ [Next]_vars => OwnRow' /\ RowIsFlows'
<1>. SUFFICES ASSUME TypeInv, OwnRow, RowIsFlows, [Next]_vars
              PROVE  OwnRow' /\ RowIsFlows'
  OBVIOUS
<1>0. /\ \A w \in Workers : pc[w] \in Holding =>
           job[w].order \in DOMAIN orders
      /\ DOMAIN orders = 1..Len(orders) /\ Len(orders) \in Nat
  BY DEF TypeInv, TypeOK, JobOK
<1>1. ASSUME UNCHANGED orders,
             \A w \in Workers :
               \/ pc'[w] \notin Holding
               \/ /\ pc[w] \in Holding
                  /\ pc'[w] = "items" => pc[w] = "items"
                  /\ job'[w] = job[w]
      PROVE  OwnRow' /\ RowIsFlows'
  BY <1>1, RowsStutter
<1>2. ASSUME NEW w \in Workers, CreateOrder(w)
      PROVE  OwnRow' /\ RowIsFlows'
  <2>. DEFINE n == Len(orders) + 1
  <2>1. /\ pc'[w] = "items" /\ job'[w].order = n
        /\ orders'[n].coupon = job'[w].coupon
        /\ orders'[n].method = job'[w].method
        /\ orders'[n].status = "pending" /\ ~orders'[n].items
    BY <1>2, InsertedRow
  <2>2. ASSUME NEW v \in Workers, v # w, pc'[v] \in Holding
        PROVE  /\ pc'[v] = pc[v] /\ job'[v] = job[v]
               /\ orders'[job[v].order] = orders[job[v].order]
               /\ job[v].order # n
    <3>1. pc'[v] = pc[v] /\ job'[v] = job[v]
      BY <1>2, <2>2, InsertedRow
    <3>2. \A i \in 1..Len(orders) : orders'[i] = orders[i]
      BY <1>2, InsertedRow
    <3>3. job[v].order \in 1..Len(orders)
      BY <1>0, <2>2, <3>1
    <3>. QED
      BY <1>0, <3>1, <3>2, <3>3
  <2>. HIDE DEF n
  <2>3. OwnRow'
    <3>. SUFFICES ASSUME NEW a \in Workers, NEW b \in Workers, a # b,
                         pc'[a] \in Holding, pc'[b] \in Holding
                  PROVE  job'[a].order # job'[b].order
      BY DEF OwnRow
    <3>1. CASE a # w /\ b # w
      <4>1. pc[a] \in Holding /\ pc[b] \in Holding
        BY <2>2, <3>1
      <4>. QED
        BY <2>2, <3>1, <4>1 DEF OwnRow
    <3>2. CASE a = w \/ b = w
      BY <2>1, <2>2, <3>2
    <3>. QED
      BY <3>1, <3>2
  <2>4. RowIsFlows'
    BY <2>1, <2>2 DEF RowIsFlows
  <2>. QED
    BY <2>3, <2>4
<1>3. ASSUME NEW w \in Workers, AddOrderItems(w)
      PROVE  OwnRow' /\ RowIsFlows'
  <2>1. pc'[w] \in {"pay", "consume", "reply"}
    BY <1>3, ItemsRow DEF AfterPayment
  <2>. DEFINE n == job[w].order
  <2>2. /\ job' = job /\ pc[w] \in Holding
        /\ orders'[n].coupon = orders[n].coupon
        /\ orders'[n].method = orders[n].method
        /\ orders'[n].status = orders[n].status
        /\ \A v \in Workers : v # w => pc'[v] = pc[v]
    BY <1>3, ItemsRow DEF Holding
  <2>3. OwnRow'
    BY <2>2 DEF OwnRow
  <2>4. ASSUME NEW v \in Workers, v # w, pc'[v] \in Holding
        PROVE  orders'[job[v].order] = orders[job[v].order]
    BY <1>0, <1>3, <2>2, <2>4, ItemsRow DEF OwnRow
  <2>. HIDE DEF n
  <2>5. RowIsFlows'
    BY <2>1, <2>2, <2>4 DEF RowIsFlows, n
  <2>. QED
    BY <2>3, <2>5
<1>4. ASSUME NEW w \in Workers, CancelOrder(w)
      PROVE  OwnRow' /\ RowIsFlows'
  <2>1. /\ pc[w] = "cancel" /\ pc'[w] = "idle"
        /\ \A v \in Workers : v # w => pc'[v] = pc[v] /\ job'[v] = job[v]
    BY <1>4 DEF CancelOrder, Finish, TypeInv, TypeOK
  <2>2. CASE orders' = orders
    BY <1>1, <2>1, <2>2 DEF Holding
  <2>3. CASE orders' # orders
    BY <1>0, <1>4, <2>1, <2>3, CancelledRow DEF OwnRow, RowIsFlows, Holding
  <2>. QED
    BY <2>2, <2>3
<1>5. ASSUME NEW u \in Users, NEW t \in Totals, NEW c \in MaybeCoupon,
             NEW m \in Methods, PlaceOrder(u, t, c, m)
      PROVE  OwnRow' /\ RowIsFlows'
  BY <1>1, <1>5 DEF PlaceOrder, dbVars, Holding, TypeInv, TypeOK
<1>6. ASSUME NEW w \in Workers,
             Dialog(w) \/ CreateOrderFails(w) \/ AddOrderItemsFails(w)
               \/ Crash(w)
      PROVE  OwnRow' /\ RowIsFlows'
  <2>1. /\ UNCHANGED orders
        /\ \A v \in Workers : \/ pc'[v] \notin Holding
                              \/ pc'[v] = pc[v] /\ job'[v] = job[v]
    BY <1>6
       DEF Dialog, OpenCheckout, ApplyCoupon, SelectMethod, RejectDialog,
           AcceptDialog, CreateOrderFails, AddOrderItemsFails, Crash, GoTo,
           Finish, dbVars, Holding, TypeInv, TypeOK
  <2>. QED
    BY <1>1, <2>1
<1>7. ASSUME NEW w \in Workers,
             PayFromWallet(w) \/ PaymentRefused(w) \/ ConsumeCoupon(w)
               \/ Reply(w)
      PROVE  OwnRow' /\ RowIsFlows'
  <2>1. /\ UNCHANGED orders
        /\ \A v \in Workers : v # w => pc'[v] = pc[v] /\ job'[v] = job[v]
        /\ \/ pc'[w] \notin Holding
           \/ /\ pc[w] \in Holding /\ pc'[w] # "items"
              /\ job'[w] = job[w]
    BY <1>7
       DEF PayFromWallet, PaymentRefused, ConsumeCoupon, Reply, AfterPayment,
           GoTo, Finish, dbVars, Holding, TypeInv, TypeOK
  <2>. QED
    BY <1>1, <2>1
<1>8. ASSUME UNCHANGED <<orders, pc, job>>
      PROVE  OwnRow' /\ RowIsFlows'
  BY <1>1, <1>8
<1>. QED
  BY <1>2, <1>3, <1>4, <1>5, <1>6, <1>7, <1>8
     DEF Next, Step, ChargeWallet, PayCommand, SetCouponActive, CouponExpires,
         vars

\* Every order flow works on the row it inserted, and no other flow writes that
\* row while it runs: the id of the row is local to the flow
\* (connectionhandler.cpp:171, client.cpp:173).
THEOREM FlowsOwnTheirRows == Spec => [](OwnRow /\ RowIsFlows)
<1>1. Init => OwnRow /\ RowIsFlows
  BY DEF Init, OwnRow, RowIsFlows, Holding
<1>. QED
  BY <1>1, TypeCorrect, RowsStep, PTL DEF Spec

-----------------------------------------------------------------------------
(* A wallet order is settled when its flow is over.                        *)

\* Every statement that writes wallet_transactions appends a row.
LEMMA LedgerAppended ==
  ASSUME TypeInv, [Next]_vars
  PROVE  \/ ledger' = ledger
         \/ \E r \in LedgerRow : ledger' = Append(ledger, r)
<1>1. ASSUME NEW w \in Workers, PayFromWallet(w)
      PROVE  \E r \in LedgerRow : ledger' = Append(ledger, r)
  <2>1. /\ Due(job[w]) \in Nat
        /\ job[w].user \in Users /\ job[w].order \in Nat
    BY <1>1, DueIsNat DEF PayFromWallet, TypeInv, TypeOK, JobOK, Job
  <2>. QED
    BY <1>1, <2>1 DEF PayFromWallet, LedgerRow
<1>2. ASSUME NEW w \in Workers, NEW u \in Users, NEW a \in TopUps,
             ChargeWallet(w, u, a)
      PROVE  \E r \in LedgerRow : ledger' = Append(ledger, r)
  BY <1>2, OrderingAssumption DEF ChargeWallet, LedgerRow
<1>3. ASSUME NEW u \in Users, NEW a \in ApiAmounts, NEW o \in 1..MaxOrders,
             PayCommand(u, a, o)
      PROVE  \E r \in LedgerRow : ledger' = Append(ledger, r)
  <2>1. a \in Nat /\ o \in Nat
    BY OrderingAssumption
  <2>. QED
    BY <1>3, <2>1 DEF PayCommand, LedgerRow
<1>. QED
  BY <1>1, <1>2, <1>3
     DEF Next, Step, Dialog, vars, dbVars, PlaceOrder, OpenCheckout,
         ApplyCoupon, SelectMethod, RejectDialog, AcceptDialog, CreateOrder,
         CreateOrderFails, AddOrderItems, AddOrderItemsFails, PaymentRefused,
         CancelOrder, ConsumeCoupon, Reply, Crash, SetCouponActive,
         CouponExpires

\* A payment is never taken back.
LEMMA PaidStays ==
  ASSUME TypeInv, [Next]_vars
  PROVE  \A o : Paid(o) => Paid(o)'
<1>1. CASE ledger' = ledger
  BY <1>1 DEF Paid, Payment
<1>2. ASSUME NEW r \in LedgerRow, ledger' = Append(ledger, r)
      PROVE  \A o : Paid(o) => Paid(o)'
  <2>1. ledger \in Seq(LedgerRow)
    BY DEF TypeInv, TypeOK
  <2>. QED
    BY <1>2, <2>1, PaidAppend
<1>. QED
  BY <1>1, <1>2, LedgerAppended

\* A step keeps WalletOrdersSettled when it lets go of no unsettled order.
LEMMA SettledFrame ==
  ASSUME TypeInv, [Next]_vars, WalletOrdersSettled,
         DOMAIN orders' = DOMAIN orders,
         \A i \in DOMAIN orders :
           /\ orders'[i].method = orders[i].method
           /\ orders[i].status = "cancelled" => orders'[i].status = "cancelled",
         \A w \in Workers, o \in DOMAIN orders :
           /\ job[w].order = o /\ job'[w].order # o
           /\ orders[o].method = "wallet"
           => Settled(o)'
  PROVE  WalletOrdersSettled'
<1>. SUFFICES ASSUME NEW o \in DOMAIN orders, orders[o].method = "wallet",
                     ~InFlight(o)'
              PROVE  Settled(o)'
  BY DEF WalletOrdersSettled
<1>1. Settled(o) => Settled(o)'
  BY PaidStays DEF Settled
<1>2. CASE InFlight(o)
  BY <1>2 DEF InFlight
<1>3. CASE ~InFlight(o)
  BY <1>1, <1>3 DEF WalletOrdersSettled
<1>. QED
  BY <1>2, <1>3

\* A step that writes no order row, after which every flow holds what it held
\* or has let go of a settled order.
LEMMA SettleStutter ==
  ASSUME TypeInv, [Next]_vars, SettleInv, UNCHANGED orders,
         \A w \in Workers :
           \/ pc'[w] = pc[w] /\ job'[w] = job[w]
           \/ /\ pc[w] \notin Holding
              /\ pc'[w] \notin Holding /\ job'[w].order = 0
           \/ /\ pc[w] = "reply"
              /\ pc'[w] \notin Holding /\ job'[w].order = 0
           \/ /\ {pc[w], pc'[w]} \subseteq Holding /\ job'[w] = job[w]
              /\ \/ pc'[w] \notin {"consume", "reply"}
                 \/ pc[w] \in {"consume", "reply"}
                 \/ job[w].method = "wallet" => Paid(job[w].order)'
  PROVE  FlowSettles' /\ WalletOrdersSettled'
<1>1. 0 \notin DOMAIN orders
  BY DEF TypeInv, TypeOK
<1>2. FlowSettles'
  BY PaidStays DEF SettleInv, FlowSettles, Holding
<1>3. ASSUME NEW w \in Workers, NEW o \in DOMAIN orders,
             job[w].order = o, job'[w].order # o,
             orders[o].method = "wallet"
      PROVE  Settled(o)'
  <2>1. pc[w] \in Holding
    BY <1>1, <1>3 DEF SettleInv, FlowSettles
  <2>2. pc[w] = "reply"
    BY <1>3, <2>1
  <2>3. Paid(o)
    BY <1>3, <2>1, <2>2 DEF SettleInv, FlowSettles, RowIsFlows
  <2>. QED
    BY <2>3, PaidStays DEF Settled
<1>4. WalletOrdersSettled'
  BY <1>3, SettledFrame DEF SettleInv
<1>. QED
  BY <1>2, <1>4

\* Without failing statements and crashes, no flow lets go of an unpaid wallet
\* order before it has cancelled it.
LEMMA SettleStep ==
  ASSUME StatementsFail = FALSE, ProcessesCrash = FALSE
  PROVE  TypeInv /\ SettleInv /\ [Next]_vars => SettleInv'
<1>. SUFFICES ASSUME TypeInv, SettleInv, [Next]_vars
              PROVE  FlowSettles' /\ WalletOrdersSettled'
  BY RowsStep DEF SettleInv
<1>. DEFINE Goal == FlowSettles' /\ WalletOrdersSettled'
<1>0. /\ DOMAIN orders = 1..Len(orders) /\ Len(orders) \in Nat
      /\ 0 \notin DOMAIN orders
      /\ pc \in [Workers -> Stages] /\ job \in [Workers -> Job]
      /\ NoJob.order = 0
  BY DEF TypeInv, TypeOK, NoJob
<1>1. ASSUME NEW w \in Workers, CreateOrder(w)
      PROVE  Goal
  <2>. DEFINE n == Len(orders) + 1
  <2>1. /\ DOMAIN orders' = DOMAIN orders \cup {n}
        /\ \A i \in DOMAIN orders : orders'[i] = orders[i]
        /\ job'[w].order = n /\ pc[w] = "create" /\ pc'[w] = "items"
        /\ \A v \in Workers : v # w => job'[v] = job[v] /\ pc'[v] = pc[v]
    <3>1. DOMAIN orders' = 1..n
      BY <1>1, InsertedRow
    <3>2. \A i \in DOMAIN orders : orders'[i] = orders[i]
      BY <1>1, InsertedRow
    <3>3. DOMAIN orders' = DOMAIN orders \cup {n}
      BY <1>0, <3>1
    <3>4. /\ job'[w].order = n /\ pc[w] = "create" /\ pc'[w] = "items"
          /\ \A v \in Workers :
               v # w => job'[v] = job[v] /\ pc'[v] = pc[v]
      BY <1>1, InsertedRow
    <3>. QED
      BY <3>2, <3>3, <3>4
  <2>2. job[w].order = 0
    BY <2>1 DEF SettleInv, FlowSettles, Holding
  <2>. HIDE DEF n
  <2>3. FlowSettles'
    BY <2>1, PaidStays DEF SettleInv, FlowSettles, Holding
  <2>4. ASSUME NEW o \in DOMAIN orders', orders'[o].method = "wallet",
               ~InFlight(o)'
        PROVE  Settled(o)'
    <3>1. o \in DOMAIN orders /\ o # 0
      BY <1>0, <2>1, <2>4 DEF InFlight
    <3>2. ~InFlight(o)
      BY <2>1, <2>2, <2>4, <3>1 DEF InFlight
    <3>. QED
      BY <2>1, <2>4, <3>1, <3>2, PaidStays
         DEF SettleInv, WalletOrdersSettled, Settled
  <2>. QED
    BY <2>3, <2>4 DEF WalletOrdersSettled
<1>2. ASSUME NEW w \in Workers, AddOrderItems(w)
      PROVE  Goal
  <2>1. /\ DOMAIN orders' = DOMAIN orders
        /\ job' = job /\ pc[w] = "items"
        /\ pc'[w] = IF job[w].method = "wallet" THEN "pay"
                    ELSE AfterPayment(job[w])
        /\ \A v \in Workers : v # w => pc'[v] = pc[v]
    BY <1>2, ItemsRow
  <2>2. \A i \in DOMAIN orders :
          /\ orders'[i].method = orders[i].method
          /\ orders'[i].status = orders[i].status
    BY <1>2, ItemsRow
  <2>3. FlowSettles'
    BY <2>1, PaidStays DEF SettleInv, FlowSettles, Holding, AfterPayment
  <2>4. WalletOrdersSettled'
    BY <2>1, <2>2, SettledFrame DEF SettleInv
  <2>. QED
    BY <2>3, <2>4
<1>3. ASSUME NEW w \in Workers, PayFromWallet(w)
      PROVE  Goal
  <2>1. /\ UNCHANGED <<orders, job>>
        /\ pc[w] = "pay" /\ pc'[w] \in {"consume", "reply"}
        /\ \A v \in Workers : v # w => pc'[v] = pc[v]
    BY <1>0, <1>3 DEF PayFromWallet, GoTo, AfterPayment
  <2>2. Paid(job[w].order)'
    <3>. DEFINE r == [user |-> job[w].user, amount |-> Due(job[w]),
                      kind |-> "payment", order |-> job[w].order]
    <3>1. /\ Due(job[w]) \in Nat
          /\ job[w].user \in Users /\ job[w].order \in Nat
      BY <1>3, DueIsNat DEF PayFromWallet, TypeInv, TypeOK, JobOK, Job
    <3>2. r \in LedgerRow /\ r.kind = "payment" /\ r.order = job[w].order
      BY <3>1 DEF LedgerRow
    <3>3. ledger \in Seq(LedgerRow) /\ ledger' = Append(ledger, r)
      BY <1>3 DEF PayFromWallet, TypeInv, TypeOK
    <3>. HIDE DEF r
    <3>4. \A o : Paid(o)' <=> Paid(o) \/ o = job[w].order
      BY <3>2, <3>3, PaidAppend
    <3>. QED
      BY <2>1, <3>4
  <2>. QED
    BY <2>1, <2>2, SettleStutter DEF Holding
<1>4. ASSUME NEW w \in Workers, CancelOrder(w)
      PROVE  Goal
  <2>1. /\ orders' = [orders EXCEPT ![job[w].order].status = "cancelled"]
        /\ pc[w] = "cancel" /\ pc'[w] = "idle" /\ job'[w].order = 0
        /\ \A v \in Workers : v # w => pc'[v] = pc[v] /\ job'[v] = job[v]
    BY <1>0, <1>4 DEF CancelOrder, Finish
  <2>2. /\ job[w].order \in DOMAIN orders
        /\ DOMAIN orders' = DOMAIN orders
        /\ \A i \in DOMAIN orders :
             /\ orders'[i].method = orders[i].method
             /\ orders[i].status = "cancelled" =>
                  orders'[i].status = "cancelled"
        /\ orders'[job[w].order].status = "cancelled"
    <3>1. pc[w] \in Holding
      BY <2>1 DEF Holding
    <3>2. /\ job[w].order \in DOMAIN orders
          /\ orders[job[w].order] \in Order
      BY <3>1, HoldingFacts
    <3>3. CASE orders' = orders
      <4>1. orders'[job[w].order].status = "cancelled"
        BY <2>1, <3>2 DEF Order
      <4>. QED
        BY <3>2, <3>3, <4>1
    <3>4. CASE orders' # orders
      BY <1>4, <3>4, CancelledRow
    <3>. QED
      BY <3>3, <3>4
  <2>3. FlowSettles'
    BY <2>1, PaidStays DEF SettleInv, FlowSettles, Holding
  <2>4. \A o \in DOMAIN orders : job[w].order = o => Settled(o)'
    BY <2>2 DEF Settled
  <2>5. WalletOrdersSettled'
    BY <2>1, <2>2, <2>4, SettledFrame DEF SettleInv
  <2>. QED
    BY <2>3, <2>5
<1>5. ASSUME NEW w \in Workers,
             PaymentRefused(w) \/ ConsumeCoupon(w) \/ Reply(w)
      PROVE  Goal
  <2>1. /\ UNCHANGED orders
        /\ \A v \in Workers : v # w => pc'[v] = pc[v] /\ job'[v] = job[v]
        /\ \/ pc[w] = "pay" /\ pc'[w] = "cancel" /\ job'[w] = job[w]
           \/ pc[w] = "consume" /\ pc'[w] = "reply" /\ job'[w] = job[w]
           \/ pc[w] = "reply" /\ pc'[w] = "idle" /\ job'[w].order = 0
    BY <1>0, <1>5 DEF PaymentRefused, ConsumeCoupon, Reply, GoTo, Finish, dbVars
  <2>. QED
    BY <2>1, SettleStutter DEF Holding
<1>6. ASSUME NEW u \in Users, NEW t \in Totals, NEW c \in MaybeCoupon,
             NEW m \in Methods, PlaceOrder(u, t, c, m)
      PROVE  Goal
  <2>1. /\ UNCHANGED orders
        /\ pc[Server] = "idle" /\ pc'[Server] = "create"
        /\ job'[Server].order = 0
        /\ \A v \in Workers : v # Server => pc'[v] = pc[v] /\ job'[v] = job[v]
    BY <1>0, <1>6, NewJobOK DEF PlaceOrder, dbVars, Workers
  <2>. QED
    BY <2>1, SettleStutter DEF Holding
<1>7. ASSUME NEW w \in Workers, Dialog(w)
      PROVE  Goal
  <2>1. /\ UNCHANGED orders
        /\ pc[w] \in {"idle", "dialog"}
        /\ pc'[w] \in {"idle", "dialog", "create"}
        /\ \A v \in Workers : v # w => pc'[v] = pc[v] /\ job'[v] = job[v]
    BY <1>0, <1>7
       DEF Dialog, OpenCheckout, ApplyCoupon, SelectMethod, RejectDialog,
           AcceptDialog, GoTo, Finish, dbVars
  <2>2. job[w].order = 0
    BY <2>1 DEF SettleInv, FlowSettles, Holding
  <2>3. job'[w].order = 0
    <3>1. CASE job' = job
      BY <2>2, <3>1
    <3>2. CASE job' = [job EXCEPT ![w] = NoJob]
      BY <1>0, <3>2
    <3>3. ASSUME NEW u \in Users, NEW t \in Totals, OpenCheckout(w, u, t)
          PROVE  job'[w].order = 0
      <4>1. NoCoupon \in MaybeCoupon /\ "cash" \in Methods
        BY DEF MaybeCoupon, Methods
      <4>. QED
        BY <1>0, <3>3, <4>1, NewJobOK DEF OpenCheckout
    <3>4. ASSUME NEW c \in Coupons, ApplyCoupon(w, c)
          PROVE  job'[w].order = 0
      BY <1>0, <2>2, <3>4 DEF ApplyCoupon, RefreshTotals, Job
    <3>5. ASSUME NEW m \in Methods, SelectMethod(w, m)
          PROVE  job'[w].order = 0
      BY <1>0, <2>2, <3>5 DEF SelectMethod, RefreshTotals, Job
    <3>. QED
      BY <1>7, <3>1, <3>2, <3>3, <3>4, <3>5
         DEF Dialog, RejectDialog, AcceptDialog, GoTo, Finish
  <2>. QED
    BY <2>1, <2>3, SettleStutter DEF Holding
<1>8. ASSUME UNCHANGED <<orders, pc, job>>
      PROVE  Goal
  BY <1>8, SettleStutter
<1>9. ASSUME NEW w \in Workers,
             CreateOrderFails(w) \/ AddOrderItemsFails(w) \/ Crash(w)
      PROVE  Goal
  BY <1>9 DEF CreateOrderFails, AddOrderItemsFails, Crash
<1>. QED
  BY <1>1, <1>2, <1>3, <1>4, <1>5, <1>6, <1>7, <1>8, <1>9
     DEF Next, Step, ChargeWallet, PayCommand, SetCouponActive, CouponExpires,
         vars

\* While no statement fails and no process dies, an order to be paid by wallet
\* whose flow is over has been paid or cancelled, however many processes order,
\* pay and send pay_from_wallet at the same time (connectionhandler.cpp:196,
\* client.cpp:189).
THEOREM WalletOrdersAreSettled ==
  ASSUME StatementsFail = FALSE, ProcessesCrash = FALSE
  PROVE  Spec => []WalletOrdersSettled
<1>1. Init => SettleInv
  BY DEF Init, SettleInv, OwnRow, RowIsFlows, FlowSettles,
         WalletOrdersSettled, Holding, NoJob
<1>2. TypeInv /\ SettleInv /\ [Next]_vars => SettleInv'
  BY SettleStep
<1>3. SettleInv => WalletOrdersSettled
  BY DEF SettleInv
<1>. QED
  BY <1>1, <1>2, <1>3, TypeCorrect, PTL DEF Spec

-----------------------------------------------------------------------------
(* Counted uses of a coupon.                                               *)

\* A set is no larger than one that holds it.
LEMMA Larger ==
  ASSUME NEW T, IsFiniteSet(T), NEW S, S \subseteq T
  PROVE  /\ IsFiniteSet(S)
         /\ Cardinality(S) \in Nat /\ Cardinality(T) \in Nat
         /\ Cardinality(S) <= Cardinality(T)
<1>1. S \in SUBSET T
  OBVIOUS
<1>2. IsFiniteSet(S) /\ Cardinality(S) <= Cardinality(T)
  BY <1>1, FS_Subset
<1>. QED
  BY <1>2, FS_CardinalityType

\* The table of orders is finite.
LEMMA RowsFinite ==
  ASSUME TypeInv
  PROVE  IsFiniteSet(DOMAIN orders)
<1>1. DOMAIN orders = 1..Len(orders) /\ Len(orders) \in Nat
  BY DEF TypeInv, TypeOK
<1>2. IsFiniteSet(1..Len(orders))
  BY <1>1, FS_Interval
<1>. QED
  BY <1>1, <1>2

\* An order that has been counted stays counted.
LEMMA CountedStays ==
  ASSUME TypeInv, PaymentInv, RowIsFlows, [Next]_vars, NEW c \in Coupons
  PROVE  Counted(c) \subseteq Counted(c)'
<1>. SUFFICES ASSUME NEW o \in Counted(c) PROVE o \in Counted(c)'
  OBVIOUS
<1>0. /\ o \in DOMAIN orders
      /\ orders[o].coupon = c /\ orders[o].status = "pending"
      /\ orders[o].items
      /\ orders[o].method = "wallet" => Paid(o)
      /\ \A w \in Workers : ~(pc[w] = "consume" /\ job[w].order = o)
  BY DEF Counted, Backed, DiscountedOrders
<1>1. SUFFICES /\ o \in DOMAIN orders'
               /\ orders'[o].coupon = c /\ orders'[o].status = "pending"
               /\ orders'[o].items
               /\ orders'[o].method = orders[o].method
               /\ \A w \in Workers : ~(pc'[w] = "consume" /\ job'[w].order = o)
  BY <1>0, PaidStays DEF Counted, Backed, DiscountedOrders
<1>. DEFINE Goal ==
       /\ o \in DOMAIN orders'
       /\ orders'[o].coupon = c /\ orders'[o].status = "pending"
       /\ orders'[o].items
       /\ orders'[o].method = orders[o].method
       /\ \A w \in Workers : ~(pc'[w] = "consume" /\ job'[w].order = o)
<1>2. pc \in [Workers -> Stages] /\ job \in [Workers -> Job]
  BY DEF TypeInv, TypeOK
<1>3. ASSUME UNCHANGED orders,
             \A w \in Workers :
               \/ pc'[w] # "consume"
               \/ pc'[w] = pc[w] /\ job'[w] = job[w]
      PROVE  Goal
  BY <1>0, <1>3
<1>4. ASSUME NEW w \in Workers, CreateOrder(w)
      PROVE  Goal
  <2>1. /\ DOMAIN orders = 1..Len(orders) /\ Len(orders) \in Nat
        /\ DOMAIN orders' = 1..Len(orders) + 1
    BY <1>4, InsertedRow
  <2>2. \A i \in DOMAIN orders : orders'[i] = orders[i]
    BY <1>4, <2>1, InsertedRow
  <2>3. /\ pc'[w] = "items"
        /\ \A v \in Workers : v # w => job'[v] = job[v] /\ pc'[v] = pc[v]
    BY <1>4, InsertedRow
  <2>. QED
    BY <1>0, <2>1, <2>2, <2>3
<1>5. ASSUME NEW w \in Workers, AddOrderItems(w)
      PROVE  Goal
  <2>1. job[w].order # o
    <3>1. pc[w] = "items" /\ pc[w] \in Holding
      BY <1>5 DEF AddOrderItems, Holding
    <3>. QED
      BY <1>0, <3>1 DEF RowIsFlows
  <2>2. DOMAIN orders' = DOMAIN orders /\ orders'[o] = orders[o]
    BY <1>0, <1>5, <2>1, ItemsRow
  <2>3. /\ job' = job
        /\ \A v \in Workers : v # w => pc'[v] = pc[v]
    BY <1>5, ItemsRow
  <2>. QED
    BY <1>0, <2>1, <2>2, <2>3
<1>6. ASSUME NEW w \in Workers, PayFromWallet(w)
      PROVE  Goal
  <2>1. /\ UNCHANGED <<orders, job>>
        /\ pc[w] = "pay" /\ pc[w] \in Holding
        /\ \A v \in Workers : v # w => pc'[v] = pc[v]
    BY <1>2, <1>6 DEF PayFromWallet, GoTo, Holding
  <2>2. job[w].order # o
    BY <1>0, <2>1 DEF PaymentInv, RowFollowsFlow
  <2>. QED
    BY <1>0, <2>1, <2>2
<1>7. ASSUME NEW w \in Workers, CancelOrder(w)
      PROVE  Goal
  <2>1. /\ pc[w] = "cancel" /\ pc[w] \in Holding /\ pc'[w] = "idle"
        /\ \A v \in Workers : v # w => pc'[v] = pc[v] /\ job'[v] = job[v]
    BY <1>2, <1>7 DEF CancelOrder, Finish, Holding
  <2>2. job[w].order # o
    BY <1>0, <2>1 DEF PaymentInv, RowFollowsFlow
  <2>3. DOMAIN orders' = DOMAIN orders /\ orders'[o] = orders[o]
    BY <1>0, <1>7, <2>2, CancelledRow
  <2>. QED
    BY <1>0, <2>1, <2>3
<1>8. ASSUME NEW w \in Workers,
             \/ PaymentRefused(w) \/ ConsumeCoupon(w) \/ Reply(w) \/ Dialog(w)
             \/ CreateOrderFails(w) \/ AddOrderItemsFails(w) \/ Crash(w)
      PROVE  Goal
  <2>1. /\ UNCHANGED orders
        /\ pc'[w] # "consume"
        /\ \A v \in Workers : v # w => pc'[v] = pc[v] /\ job'[v] = job[v]
    BY <1>2, <1>8
       DEF PaymentRefused, ConsumeCoupon, Reply, Dialog, OpenCheckout,
           ApplyCoupon, SelectMethod, RejectDialog, AcceptDialog,
           CreateOrderFails, AddOrderItemsFails, Crash, GoTo, Finish, dbVars
  <2>. QED
    BY <1>3, <2>1
<1>9. ASSUME NEW u \in Users, NEW t \in Totals, NEW k \in MaybeCoupon,
             NEW m \in Methods, PlaceOrder(u, t, k, m)
      PROVE  Goal
  BY <1>2, <1>3, <1>9 DEF PlaceOrder, dbVars
<1>10. ASSUME UNCHANGED <<orders, pc, job>>
       PROVE  Goal
  BY <1>3, <1>10
<1>. QED
  BY <1>4, <1>5, <1>6, <1>7, <1>8, <1>9, <1>10
     DEF Next, Step, ChargeWallet, PayCommand, SetCouponActive, CouponExpires,
         vars

\* consumeCoupon counts the order of its own flow, which is not counted yet.
LEMMA ConsumeCounts ==
  ASSUME TypeInv, PaymentInv, RowIsFlows,
         NEW w \in Workers, ConsumeCoupon(w)
  PROVE  /\ job[w].coupon \in Coupons
         /\ job[w].order \notin Counted(job[w].coupon)
         /\ \A c \in Coupons :
              c = job[w].coupon => job[w].order \in Counted(c)'
<1>1. /\ pc[w] = "consume" /\ pc[w] \in Holding /\ pc'[w] = "reply"
      /\ UNCHANGED <<orders, ledger, job>>
      /\ \A v \in Workers : v # w => pc'[v] = pc[v]
  BY DEF ConsumeCoupon, GoTo, Holding, TypeInv, TypeOK
<1>2. job[w].coupon \in Coupons /\ job[w].order \in DOMAIN orders
  BY <1>1, HoldingFacts DEF TypeInv, JobOK
<1>3. job[w].order \notin Counted(job[w].coupon)
  BY <1>1 DEF Counted
<1>4. ASSUME NEW c \in Coupons, c = job[w].coupon
      PROVE  job[w].order \in Counted(c)'
  <2>. DEFINE n == job[w].order
  <2>1. /\ orders[n].coupon = c /\ orders[n].status = "pending"
        /\ orders[n].items
        /\ orders[n].method = "wallet" => Paid(n)
    BY <1>1, <1>4 DEF PaymentInv, RowFollowsFlow, RowIsFlows
  <2>2. \A v \in Workers : ~(pc'[v] = "consume" /\ job'[v].order = n)
    BY <1>1 DEF PaymentInv, OwnRow, Holding
  <2>3. \A o : Paid(o)' = Paid(o)
    BY <1>1 DEF Paid, Payment
  <2>. QED
    BY <1>1, <1>2, <2>1, <2>2, <2>3 DEF Counted, Backed, DiscountedOrders
<1>. QED
  BY <1>2, <1>3, <1>4

\* used_count never runs ahead of the orders that got the discount.
LEMMA UsesStep ==
  ASSUME ApiAmounts = {}
  PROVE  TypeInv /\ PaymentInv /\ UsesInv /\ TypeInv' /\ [Next]_vars
           => UsesInv'
<1>. SUFFICES ASSUME TypeInv, PaymentInv, UsesInv, TypeInv', [Next]_vars,
                     NEW c \in Coupons
              PROVE  used'[c] <= Cardinality(Counted(c)')
  BY RowsStep DEF UsesInv, PaymentInv
<1>0. RowIsFlows /\ used \in [Coupons -> Nat] /\ used[c] \in Nat
  BY DEF UsesInv, TypeInv, TypeOK
<1>1. Counted(c) \subseteq Counted(c)'
  BY <1>0, CountedStays
<1>2. IsFiniteSet(Counted(c)')
  <2>1. TypeInv' => IsFiniteSet(DOMAIN orders)'
    BY RowsFinite, PTL
  <2>2. Counted(c)' \subseteq DOMAIN orders'
    BY DEF Counted, Backed, DiscountedOrders
  <2>. QED
    BY <2>1, <2>2, Larger
<1>3. /\ Cardinality(Counted(c)) \in Nat /\ Cardinality(Counted(c)') \in Nat
      /\ Cardinality(Counted(c)) <= Cardinality(Counted(c)')
      /\ used[c] <= Cardinality(Counted(c))
  BY <1>1, <1>2, Larger DEF UsesInv
<1>4. CASE used'[c] = used[c]
  BY <1>0, <1>3, <1>4
<1>5. ASSUME NEW w \in Workers, ConsumeCoupon(w), used'[c] # used[c]
      PROVE  used'[c] <= Cardinality(Counted(c)')
  <2>1. c = job[w].coupon /\ used'[c] = used[c] + 1
    BY <1>0, <1>5 DEF ConsumeCoupon
  <2>. DEFINE n == job[w].order
  <2>2. n \notin Counted(c) /\ n \in Counted(c)'
    BY <1>0, <1>5, <2>1, ConsumeCounts
  <2>3. /\ IsFiniteSet(Counted(c))
        /\ IsFiniteSet(Counted(c)' \ {n})
        /\ Cardinality(Counted(c)' \ {n}) = Cardinality(Counted(c)') - 1
    BY <1>1, <1>2, <2>2, Larger, FS_RemoveElement
  <2>4. Cardinality(Counted(c)) <= Cardinality(Counted(c)' \ {n})
    BY <1>1, <2>2, <2>3, Larger
  <2>. HIDE DEF n
  <2>. QED
    BY <1>0, <1>3, <2>1, <2>3, <2>4
<1>6. used' = used \/ \E w \in Workers : ConsumeCoupon(w)
  BY DEF Next, Step, Dialog, vars, dbVars, PlaceOrder, OpenCheckout,
         ApplyCoupon, SelectMethod, RejectDialog, AcceptDialog, CreateOrder,
         CreateOrderFails, AddOrderItems, AddOrderItemsFails, PayFromWallet,
         PaymentRefused, CancelOrder, Reply, Crash, ChargeWallet, PayCommand,
         SetCouponActive, CouponExpires
<1>. QED
  BY <1>4, <1>5, <1>6

\* As long as nobody sends pay_from_wallet by hand: whatever fails or dies, a
\* use of a coupon is only counted for an order that got the discount, has its
\* items, was not cancelled and, by wallet, is paid (connectionhandler.cpp:196,
\* client.cpp:189).
THEOREM UsesAreBackedAlways ==
  ASSUME ApiAmounts = {}
  PROVE  Spec => []UsesAreBacked
<1>1. Init => UsesInv
  <2>. SUFFICES ASSUME Init PROVE UsesInv
    OBVIOUS
  <2>1. RowIsFlows
    BY DEF Init, RowIsFlows, Holding
  <2>2. ASSUME NEW c \in Coupons PROVE used[c] <= Cardinality(Counted(c))
    <3>1. Counted(c) = {}
      BY DEF Init, Counted, Backed, DiscountedOrders
    <3>2. used[c] = 0 /\ Cardinality({}) = 0
      BY FS_EmptySet DEF Init
    <3>. QED
      BY <3>1, <3>2
  <2>. QED
    BY <2>1, <2>2 DEF UsesInv
<1>2. TypeInv /\ PaymentInv /\ UsesInv /\ TypeInv' /\ [Next]_vars => UsesInv'
  BY UsesStep
<1>3. TypeInv /\ PaymentInv /\ [Next]_vars => PaymentInv'
  BY PaymentStep
<1>4. TypeInv /\ UsesInv => UsesAreBacked
  <2>. SUFFICES ASSUME TypeInv, UsesInv, NEW c \in Coupons
                PROVE  used[c] <= Cardinality(Backed(c))
    BY DEF UsesAreBacked, Backed
  <2>1. IsFiniteSet(Backed(c))
    BY RowsFinite, Larger DEF Backed, DiscountedOrders
  <2>2. Counted(c) \subseteq Backed(c)
    BY DEF Counted
  <2>. QED
    BY <2>1, <2>2, Larger DEF UsesInv, TypeInv, TypeOK
<1>. QED
  BY <1>1, <1>2, <1>3, <1>4, PaymentInit, TypeCorrect, PTL DEF Spec

-----------------------------------------------------------------------------
(* How far a coupon can be granted beyond its limit.                       *)

\* A step of one flow moves no other flow in or out of the sets of flows that
\* were granted a coupon.
LEMMA OthersKeepGrants ==
  ASSUME NEW w \in Workers, NEW c \in Coupons,
         \A v \in Workers : v # w =>
           pc'[v] = pc[v] /\ job'[v].coupon = job[v].coupon
  PROVE  /\ Asking(c)' \ {w} = Asking(c) \ {w}
         /\ Granted(c)' \ {w} = Granted(c) \ {w}
BY DEF Asking, Granted

\* The discounted orders only depend on the rows.
LEMMA SameDiscounts ==
  ASSUME NEW c \in Coupons, DOMAIN orders' = DOMAIN orders,
         \A i \in DOMAIN orders :
           /\ orders'[i].coupon = orders[i].coupon
           /\ orders'[i].status = orders[i].status
  PROVE  DiscountedOrders(c)' = DiscountedOrders(c)
BY DEF DiscountedOrders

\* What a step may do to the orders discounted with c, to the flows that were
\* granted c, and to its count: nothing; a grant below the limit; a grant given
\* up; a grant turned into an order; an order cancelled; a use counted.
GrantEffect(c) ==
  LET D == DiscountedOrders(c)
      A == Asking(c)
      G == Granted(c)
  IN  \/ /\ UNCHANGED <<D, A, G>>
         /\ used'[c] = used[c]
      \/ \E w \in Workers :
           /\ w \notin A /\ w \notin G /\ used[c] < MaxUses[c]
           /\ D' = D /\ A' = A \cup {w} /\ G' = G \cup {w}
           /\ used'[c] = used[c]
      \/ \E w \in Workers :
           /\ w \in A /\ w \in G
           /\ D' = D /\ A' = A \ {w} /\ G' = G \ {w}
           /\ used'[c] = used[c]
      \/ \E w \in Workers, n \in Nat :
           /\ w \in A /\ n \notin D
           /\ D' = D \cup {n} /\ A' = A \ {w} /\ G' = G
           /\ used'[c] = used[c]
      \/ \E w \in Workers, n \in Nat :
           /\ w \in G /\ n \in D
           /\ D' = D \ {n} /\ A' = A /\ G' = G \ {w}
           /\ used'[c] = used[c]
      \/ \E w \in Workers :
           /\ w \in G
           /\ D' = D /\ A' = A /\ G' = G \ {w}
           /\ \/ used[c] < MaxUses[c] /\ used'[c] = used[c] + 1
              \/ used[c] >= MaxUses[c] /\ used'[c] = used[c]

\* A step of w that leaves the rows and the count as they are, and w as granted
\* as it was.
LEMMA NoGrant ==
  ASSUME NEW c \in Coupons, NEW w \in Workers,
         UNCHANGED DiscountedOrders(c), used'[c] = used[c],
         \A v \in Workers : v # w =>
           pc'[v] = pc[v] /\ job'[v].coupon = job[v].coupon,
         w \in Asking(c)' <=> w \in Asking(c),
         w \in Granted(c)' <=> w \in Granted(c)
  PROVE  GrantEffect(c)
<1>1. /\ Asking(c)' \ {w} = Asking(c) \ {w}
      /\ Granted(c)' \ {w} = Granted(c) \ {w}
  BY OthersKeepGrants
<1>2. Asking(c)' = Asking(c) /\ Granted(c)' = Granted(c)
  BY <1>1
<1>. QED
  BY <1>2 DEF GrantEffect

\* Every step has one of these effects.
LEMMA GrantCases ==
  ASSUME StatementsFail = FALSE, ProcessesCrash = FALSE,
         TypeInv, OwnRow, RowIsFlows, [Next]_vars,
         NEW c \in Coupons, MaxUses[c] > 0, active[c], ~expired[c]
  PROVE  GrantEffect(c)
<1>0. /\ pc \in [Workers -> Stages] /\ job \in [Workers -> Job]
      /\ used \in [Coupons -> Nat] /\ MaxUses[c] \in Int
      /\ DOMAIN orders = 1..Len(orders) /\ Len(orders) \in Nat
      /\ c # NoCoupon /\ NoJob.coupon = NoCoupon
  BY OrderingAssumption DEF TypeInv, TypeOK, NoJob
<1>1. ASSUME NEW u \in Users, NEW t \in Totals, NEW k \in MaybeCoupon,
             NEW m \in Methods, PlaceOrder(u, t, k, m)
      PROVE  GrantEffect(c)
  <2>1. /\ UNCHANGED <<orders, used>>
        /\ Server \in Workers
        /\ pc[Server] = "idle" /\ pc'[Server] = "create"
        /\ job'[Server].coupon = k
        /\ \A v \in Workers : v # Server => pc'[v] = pc[v] /\ job'[v] = job[v]
        /\ k = c => used[c] < MaxUses[c]
    BY <1>0, <1>1 DEF PlaceOrder, Validates, NewJob, dbVars, Workers
  <2>2. UNCHANGED DiscountedOrders(c)
    BY <2>1, SameDiscounts
  <2>3. Server \notin Asking(c) /\ Server \notin Granted(c)
    BY <2>1 DEF Asking, Granted
  <2>4. CASE k = c
    <3>1. Server \in Asking(c)' /\ Server \in Granted(c)'
      BY <2>1, <2>4 DEF Asking, Granted
    <3>2. /\ Asking(c)' = Asking(c) \cup {Server}
          /\ Granted(c)' = Granted(c) \cup {Server}
      BY <2>1, <2>3, <3>1, OthersKeepGrants
    <3>. QED
      BY <2>1, <2>2, <2>3, <2>4, <3>2 DEF GrantEffect
  <2>5. CASE k # c
    <3>1. Server \notin Asking(c)' /\ Server \notin Granted(c)'
      BY <2>1, <2>5 DEF Asking, Granted
    <3>. QED
      BY <2>1, <2>2, <2>3, <3>1, NoGrant
  <2>. QED
    BY <2>4, <2>5
<1>2. ASSUME NEW w \in Workers, NEW u \in Users, NEW t \in Totals,
             OpenCheckout(w, u, t)
      PROVE  GrantEffect(c)
  <2>1. /\ UNCHANGED <<orders, used>>
        /\ pc[w] = "idle" /\ job'[w].coupon = NoCoupon
        /\ \A v \in Workers : v # w => pc'[v] = pc[v] /\ job'[v] = job[v]
    BY <1>0, <1>2 DEF OpenCheckout, NewJob, dbVars
  <2>2. UNCHANGED DiscountedOrders(c)
    BY <2>1, SameDiscounts
  <2>. QED
    BY <1>0, <2>1, <2>2, NoGrant DEF Asking, Granted
<1>3. ASSUME NEW w \in Workers, NEW k \in Coupons, ApplyCoupon(w, k)
      PROVE  GrantEffect(c)
  <2>1. /\ UNCHANGED <<orders, used>>
        /\ pc[w] = "dialog" /\ pc'[w] = "dialog"
        /\ job[w].coupon = NoCoupon /\ job'[w].coupon = k
        /\ \A v \in Workers : v # w => pc'[v] = pc[v] /\ job'[v] = job[v]
        /\ k = c => used[c] < MaxUses[c]
    BY <1>0, <1>3 DEF ApplyCoupon, Validates, RefreshTotals, Job, dbVars
  <2>2. UNCHANGED DiscountedOrders(c)
    BY <2>1, SameDiscounts
  <2>3. w \notin Asking(c) /\ w \notin Granted(c)
    BY <1>0, <2>1 DEF Asking, Granted
  <2>4. CASE k = c
    <3>1. w \in Asking(c)' /\ w \in Granted(c)'
      BY <2>1, <2>4 DEF Asking, Granted
    <3>2. /\ Asking(c)' = Asking(c) \cup {w}
          /\ Granted(c)' = Granted(c) \cup {w}
      BY <2>1, <2>3, <3>1, OthersKeepGrants
    <3>. QED
      BY <2>1, <2>2, <2>3, <2>4, <3>2 DEF GrantEffect
  <2>5. CASE k # c
    <3>1. w \notin Asking(c)' /\ w \notin Granted(c)'
      BY <2>1, <2>5 DEF Asking, Granted
    <3>. QED
      BY <2>1, <2>2, <2>3, <3>1, NoGrant
  <2>. QED
    BY <2>4, <2>5
<1>4. ASSUME NEW w \in Workers, NEW m \in Methods, SelectMethod(w, m)
      PROVE  GrantEffect(c)
  <2>1. /\ UNCHANGED <<orders, used, pc>>
        /\ \A v \in Workers : job'[v].coupon = job[v].coupon
    BY <1>0, <1>4 DEF SelectMethod, RefreshTotals, Job, dbVars
  <2>2. UNCHANGED DiscountedOrders(c)
    BY <2>1, SameDiscounts
  <2>. QED
    BY <2>1, <2>2, NoGrant DEF Asking, Granted
<1>5. ASSUME NEW w \in Workers, RejectDialog(w) \/ AcceptDialog(w)
      PROVE  GrantEffect(c)
  <2>1. /\ UNCHANGED <<orders, used>>
        /\ pc[w] = "dialog"
        /\ \/ pc'[w] = "create" /\ job'[w] = job[w]
           \/ pc'[w] = "idle"
        /\ \A v \in Workers : v # w => pc'[v] = pc[v] /\ job'[v] = job[v]
    BY <1>0, <1>5 DEF RejectDialog, AcceptDialog, GoTo, Finish, dbVars
  <2>2. UNCHANGED DiscountedOrders(c)
    BY <2>1, SameDiscounts
  <2>3. CASE pc'[w] = "create" /\ job'[w] = job[w]
    BY <2>1, <2>2, <2>3, NoGrant DEF Asking, Granted
  <2>4. CASE pc'[w] = "idle" /\ job[w].coupon # c
    BY <2>1, <2>2, <2>4, NoGrant DEF Asking, Granted
  <2>5. CASE pc'[w] = "idle" /\ job[w].coupon = c
    <3>1. /\ w \in Asking(c) /\ w \in Granted(c)
          /\ w \notin Asking(c)' /\ w \notin Granted(c)'
      BY <2>1, <2>5 DEF Asking, Granted
    <3>2. /\ Asking(c)' = Asking(c) \ {w}
          /\ Granted(c)' = Granted(c) \ {w}
      BY <2>1, <3>1, OthersKeepGrants
    <3>. QED
      BY <2>1, <2>2, <3>1, <3>2 DEF GrantEffect
  <2>. QED
    BY <2>1, <2>3, <2>4, <2>5
<1>6. ASSUME NEW w \in Workers, CreateOrder(w)
      PROVE  GrantEffect(c)
  <2>. DEFINE n == Len(orders) + 1
  <2>1. DOMAIN orders' = DOMAIN orders \cup {n} /\ n \notin DOMAIN orders
    <3>1. DOMAIN orders' = 1..n
      BY <1>6, InsertedRow
    <3>. QED
      BY <1>0, <3>1
  <2>2. \A i \in DOMAIN orders : orders'[i] = orders[i]
    BY <1>0, <1>6, InsertedRow
  <2>3. /\ orders'[n].coupon = job[w].coupon /\ orders'[n].status = "pending"
        /\ job'[w].coupon = job[w].coupon
        /\ pc[w] = "create" /\ pc'[w] = "items"
        /\ \A v \in Workers : v # w => job'[v] = job[v] /\ pc'[v] = pc[v]
    BY <1>6, InsertedRow
  <2>4. used' = used /\ n \in Nat
    BY <1>0, <1>6 DEF CreateOrder
  <2>. HIDE DEF n
  <2>5. CASE job[w].coupon # c
    <3>1. UNCHANGED DiscountedOrders(c)
      BY <2>1, <2>2, <2>3, <2>5 DEF DiscountedOrders
    <3>. QED
      BY <2>3, <2>4, <2>5, <3>1, NoGrant DEF Asking, Granted
  <2>6. CASE job[w].coupon = c
    <3>1. /\ DiscountedOrders(c)' = DiscountedOrders(c) \cup {n}
          /\ n \notin DiscountedOrders(c)
      BY <2>1, <2>2, <2>3, <2>6 DEF DiscountedOrders
    <3>2. /\ w \in Asking(c) /\ w \in Granted(c)
          /\ w \notin Asking(c)' /\ w \in Granted(c)'
      BY <2>3, <2>6 DEF Asking, Granted
    <3>3. /\ Asking(c)' = Asking(c) \ {w}
          /\ Granted(c)' = Granted(c)
      BY <2>3, <3>2, OthersKeepGrants
    <3>. QED
      BY <2>4, <3>1, <3>2, <3>3 DEF GrantEffect
  <2>. QED
    BY <2>5, <2>6
<1>7. ASSUME NEW w \in Workers, AddOrderItems(w)
      PROVE  GrantEffect(c)
  <2>1. /\ job' = job /\ pc[w] = "items"
        /\ pc'[w] = IF job[w].method = "wallet" THEN "pay"
                    ELSE AfterPayment(job[w])
        /\ \A v \in Workers : v # w => pc'[v] = pc[v]
    BY <1>7, ItemsRow
  <2>2. used' = used
    BY <1>7 DEF AddOrderItems
  <2>3. UNCHANGED DiscountedOrders(c)
    <3>1. /\ DOMAIN orders' = DOMAIN orders
          /\ \A i \in DOMAIN orders : /\ orders'[i].coupon = orders[i].coupon
                                      /\ orders'[i].status = orders[i].status
      BY <1>7, ItemsRow
    <3>. QED
      BY <3>1, SameDiscounts
  <2>. QED
    BY <1>0, <2>1, <2>2, <2>3, NoGrant DEF Asking, Granted, AfterPayment
<1>8. ASSUME NEW w \in Workers,
             PayFromWallet(w) \/ PaymentRefused(w) \/ Reply(w)
      PROVE  GrantEffect(c)
  <2>1. /\ UNCHANGED <<orders, used>>
        /\ \/ pc[w] = "pay" /\ pc'[w] = AfterPayment(job[w])
                            /\ job'[w] = job[w]
           \/ pc[w] = "pay" /\ pc'[w] = "cancel" /\ job'[w] = job[w]
           \/ pc[w] = "reply" /\ pc'[w] = "idle"
        /\ \A v \in Workers : v # w => pc'[v] = pc[v] /\ job'[v] = job[v]
    BY <1>0, <1>8 DEF PayFromWallet, PaymentRefused, Reply, GoTo, Finish, dbVars
  <2>2. UNCHANGED DiscountedOrders(c)
    BY <2>1, SameDiscounts
  <2>. QED
    BY <1>0, <2>1, <2>2, NoGrant DEF Asking, Granted, AfterPayment
<1>9. ASSUME NEW w \in Workers, CancelOrder(w)
      PROVE  GrantEffect(c)
  <2>. DEFINE n == job[w].order
  <2>1. /\ pc[w] = "cancel" /\ pc[w] \in Holding /\ pc'[w] = "idle"
        /\ \A v \in Workers : v # w => pc'[v] = pc[v] /\ job'[v] = job[v]
        /\ used' = used
    BY <1>0, <1>9 DEF CancelOrder, Finish, Holding
  <2>2. /\ n \in DOMAIN orders
        /\ orders[n].status = "pending" /\ orders[n].coupon = job[w].coupon
        /\ orders[n] \in Order
    BY <2>1, HoldingFacts DEF RowIsFlows
  <2>3. orders' # orders
    <3>1. orders' = [orders EXCEPT ![n].status = "cancelled"]
      BY <1>9 DEF CancelOrder
    <3>2. orders'[n].status = "cancelled"
      BY <2>2, <3>1 DEF Order
    <3>. QED
      BY <2>2, <3>2
  <2>4. /\ DOMAIN orders' = DOMAIN orders
        /\ \A i \in DOMAIN orders : i # n => orders'[i] = orders[i]
        /\ orders'[n].coupon = orders[n].coupon
        /\ orders'[n].status = "cancelled"
    BY <1>9, <2>3, CancelledRow
  <2>5. n \in Nat
    BY <1>0, <2>2
  <2>. HIDE DEF n
  <2>6. CASE job[w].coupon # c
    <3>1. UNCHANGED DiscountedOrders(c)
      BY <2>2, <2>4, <2>6 DEF DiscountedOrders
    <3>. QED
      BY <2>1, <2>6, <3>1, NoGrant DEF Asking, Granted
  <2>7. CASE job[w].coupon = c
    <3>1. /\ DiscountedOrders(c)' = DiscountedOrders(c) \ {n}
          /\ n \in DiscountedOrders(c)
      BY <2>2, <2>4, <2>7 DEF DiscountedOrders
    <3>2. /\ w \notin Asking(c) /\ w \in Granted(c)
          /\ w \notin Asking(c)' /\ w \notin Granted(c)'
      BY <2>1, <2>7 DEF Asking, Granted
    <3>3. /\ Asking(c)' = Asking(c)
          /\ Granted(c)' = Granted(c) \ {w}
      BY <2>1, <3>2, OthersKeepGrants
    <3>. QED
      BY <2>1, <2>5, <3>1, <3>2, <3>3 DEF GrantEffect
  <2>. QED
    BY <2>6, <2>7
<1>10. ASSUME NEW w \in Workers, ConsumeCoupon(w)
       PROVE  GrantEffect(c)
  <2>1. /\ UNCHANGED <<orders, job>>
        /\ pc[w] = "consume" /\ pc'[w] = "reply"
        /\ \A v \in Workers : v # w => pc'[v] = pc[v]
    BY <1>0, <1>10 DEF ConsumeCoupon, GoTo
  <2>2. UNCHANGED DiscountedOrders(c)
    BY <2>1, SameDiscounts
  <2>3. CASE job[w].coupon # c
    <3>1. used'[c] = used[c]
      BY <1>0, <1>10, <2>3 DEF ConsumeCoupon
    <3>. QED
      BY <2>1, <2>2, <2>3, <3>1, NoGrant DEF Asking, Granted
  <2>4. CASE job[w].coupon = c
    <3>1. \/ used[c] < MaxUses[c] /\ used'[c] = used[c] + 1
          \/ used[c] >= MaxUses[c] /\ used'[c] = used[c]
      BY <1>0, <1>10, <2>4 DEF ConsumeCoupon, Consumable
    <3>2. /\ w \notin Asking(c) /\ w \in Granted(c)
          /\ w \notin Asking(c)' /\ w \notin Granted(c)'
      BY <2>1, <2>4 DEF Asking, Granted
    <3>3. /\ Asking(c)' = Asking(c)
          /\ Granted(c)' = Granted(c) \ {w}
      BY <2>1, <3>2, OthersKeepGrants
    <3>. QED
      BY <2>2, <3>1, <3>2, <3>3 DEF GrantEffect
  <2>. QED
    BY <2>3, <2>4
<1>11. ASSUME UNCHANGED <<orders, pc, job, used>>
       PROVE  GrantEffect(c)
  <2>1. UNCHANGED <<DiscountedOrders(c), Asking(c), Granted(c)>>
    BY <1>11 DEF DiscountedOrders, Asking, Granted
  <2>. QED
    BY <1>11, <2>1 DEF GrantEffect
<1>12. ASSUME NEW w \in Workers,
              CreateOrderFails(w) \/ AddOrderItemsFails(w) \/ Crash(w)
       PROVE  GrantEffect(c)
  BY <1>12 DEF CreateOrderFails, AddOrderItemsFails, Crash
<1>. QED
  BY <1>1, <1>2, <1>3, <1>4, <1>5, <1>6, <1>7, <1>8, <1>9, <1>10, <1>11, <1>12
     DEF Next, Step, Dialog, ChargeWallet, PayCommand, SetCouponActive,
         CouponExpires, vars

\* The bound survives each of these effects.
LEMMA GrantsStep ==
  ASSUME TypeInv, TypeInv', IsFiniteSet(Clients), NEW c \in Coupons,
         MaxUses[c] > 0, GrantEffect(c),
         LET grants == Cardinality(DiscountedOrders(c)) + Cardinality(Asking(c))
         IN  IF used[c] < MaxUses[c]
             THEN grants <= used[c] + Cardinality(Granted(c))
             ELSE grants <= MaxUses[c] + Cardinality(Workers) - 1
  PROVE  LET grants == Cardinality(DiscountedOrders(c)')
                         + Cardinality(Asking(c)')
         IN  IF used'[c] < MaxUses[c]
             THEN grants <= used'[c] + Cardinality(Granted(c)')
             ELSE grants <= MaxUses[c] + Cardinality(Workers) - 1
<1>. DEFINE D == DiscountedOrders(c)
            A == Asking(c)
            G == Granted(c)
<1>1. IsFiniteSet(Workers) /\ Cardinality(Workers) \in Nat
  BY FS_AddElement, FS_CardinalityType DEF Workers
<1>2. /\ IsFiniteSet(D) /\ Cardinality(D) \in Nat
  BY RowsFinite, Larger DEF DiscountedOrders
<1>3. /\ IsFiniteSet(A) /\ Cardinality(A) \in Nat
      /\ IsFiniteSet(G) /\ Cardinality(G) \in Nat
      /\ Cardinality(G) <= Cardinality(Workers)
  <2>1. A \subseteq Workers /\ G \subseteq Workers
    BY DEF Asking, Granted
  <2>. QED
    BY <1>1, <2>1, Larger
<1>4. /\ IsFiniteSet(G') /\ Cardinality(G') \in Nat
      /\ Cardinality(G') <= Cardinality(Workers)
  <2>1. G' \subseteq Workers
    BY DEF Granted
  <2>. QED
    BY <1>1, <2>1, Larger
<1>5. /\ used[c] \in Nat /\ used'[c] \in Nat
      /\ MaxUses[c] \in Nat
  BY OrderingAssumption DEF TypeInv, TypeOK
<1>. DEFINE d == Cardinality(D)
            a == Cardinality(A)
            g == Cardinality(G)
            Change(i, j, k) == /\ Cardinality(D') = d + i
                               /\ Cardinality(A') = a + j
                               /\ Cardinality(G') = g + k
<1>6. \/ /\ Change(0, 0, 0)
         /\ used'[c] = used[c]
      \/ /\ Change(0, 1, 1) /\ used[c] < MaxUses[c]
         /\ used'[c] = used[c]
      \/ /\ Change(0, -1, -1)
         /\ used'[c] = used[c]
      \/ /\ Change(1, -1, 0)
         /\ used'[c] = used[c]
      \/ /\ Change(-1, 0, -1)
         /\ used'[c] = used[c]
      \/ /\ Change(0, 0, -1)
         /\ \/ used[c] < MaxUses[c] /\ used'[c] = used[c] + 1
            \/ used[c] >= MaxUses[c] /\ used'[c] = used[c]
  <2>0. ASSUME NEW S, NEW x, IsFiniteSet(S)
        PROVE  /\ x \notin S => Cardinality(S \cup {x}) = Cardinality(S) + 1
               /\ x \in S => Cardinality(S \ {x}) = Cardinality(S) - 1
    BY <2>0, FS_AddElement, FS_RemoveElement
  <2>1. CASE UNCHANGED <<D, A, G>> /\ used'[c] = used[c]
    BY <1>2, <1>3, <2>1
  <2>2. ASSUME NEW w \in Workers,
               w \notin A, w \notin G, used[c] < MaxUses[c],
               D' = D, A' = A \cup {w}, G' = G \cup {w}
        PROVE  Change(0, 1, 1)
    BY <1>2, <1>3, <2>0, <2>2
  <2>3. ASSUME NEW w \in Workers,
               w \in A, w \in G, D' = D, A' = A \ {w}, G' = G \ {w}
        PROVE  Change(0, -1, -1)
    BY <1>2, <1>3, <2>0, <2>3
  <2>4. ASSUME NEW w \in Workers, NEW n \in Nat,
               w \in A, n \notin D, D' = D \cup {n}, A' = A \ {w}, G' = G
        PROVE  Change(1, -1, 0)
    BY <1>2, <1>3, <2>0, <2>4
  <2>5. ASSUME NEW w \in Workers, NEW n \in Nat,
               w \in G, n \in D, D' = D \ {n}, A' = A, G' = G \ {w}
        PROVE  Change(-1, 0, -1)
    BY <1>2, <1>3, <2>0, <2>5
  <2>6. ASSUME NEW w \in Workers, w \in G, D' = D, A' = A, G' = G \ {w}
        PROVE  Change(0, 0, -1)
    BY <1>2, <1>3, <2>0, <2>6
  <2>. HIDE DEF Change, D, A, G
  <2>. QED
    BY <2>1, <2>2, <2>3, <2>4, <2>5, <2>6 DEF GrantEffect, D, A, G
<1>. HIDE DEF D, A, G
<1>7. /\ d \in Nat /\ a \in Nat /\ g \in Nat /\ g <= Cardinality(Workers)
      /\ IF used[c] < MaxUses[c]
         THEN d + a <= used[c] + g
         ELSE d + a <= MaxUses[c] + Cardinality(Workers) - 1
  BY <1>2, <1>3 DEF D, A, G
<1>8. IF used'[c] < MaxUses[c]
      THEN Cardinality(D') + Cardinality(A') <= used'[c] + Cardinality(G')
      ELSE Cardinality(D') + Cardinality(A')
             <= MaxUses[c] + Cardinality(Workers) - 1
  <2>. DEFINE k == Cardinality(Workers)
              m == MaxUses[c]
              u == used[c]
              v == used'[c]
  <2>1. /\ k \in Nat /\ m \in Nat /\ u \in Nat /\ v \in Nat
    BY <1>1, <1>5
  <2>. HIDE DEF d, a, g, k, m, u, v
  <2>. QED
    BY <1>1, <1>4, <1>5, <1>6, <1>7, <2>1 DEF d, a, g, k, m, u, v
<1>. QED
  BY <1>8 DEF D, A, G

\* Without failures, expiry and toggling, every grant is on its way to be
\* counted.
LEMMA GrantStep ==
  ASSUME StatementsFail = FALSE, ProcessesCrash = FALSE, CouponsChange = FALSE,
         IsFiniteSet(Clients)
  PROVE  TypeInv /\ GrantInv /\ TypeInv' /\ [Next]_vars => GrantInv'
<1>. SUFFICES ASSUME TypeInv, GrantInv, TypeInv', [Next]_vars
              PROVE  GrantInv'
  OBVIOUS
<1>1. OwnRow' /\ RowIsFlows'
  BY RowsStep DEF GrantInv
<1>2. UNCHANGED <<active, expired>>
  BY DEF Next, Step, Dialog, vars, dbVars, PlaceOrder, OpenCheckout,
         ApplyCoupon, SelectMethod, RejectDialog, AcceptDialog, CreateOrder,
         CreateOrderFails, AddOrderItems, AddOrderItemsFails, PayFromWallet,
         PaymentRefused, CancelOrder, ConsumeCoupon, Reply, Crash,
         ChargeWallet, PayCommand, SetCouponActive, CouponExpires
<1>3. GrantsBounded'
  <2>. SUFFICES ASSUME NEW c \in Coupons, MaxUses[c] > 0
                PROVE  LET grants == Cardinality(DiscountedOrders(c)')
                                       + Cardinality(Asking(c)')
                       IN  IF used'[c] < MaxUses[c]
                           THEN grants <= used'[c] + Cardinality(Granted(c)')
                           ELSE grants <= MaxUses[c] + Cardinality(Workers) - 1
    BY DEF GrantsBounded
  <2>1. GrantEffect(c)
    BY GrantCases DEF GrantInv
  <2>2. LET grants == Cardinality(DiscountedOrders(c)) + Cardinality(Asking(c))
        IN  IF used[c] < MaxUses[c]
            THEN grants <= used[c] + Cardinality(Granted(c))
            ELSE grants <= MaxUses[c] + Cardinality(Workers) - 1
    BY DEF GrantInv, GrantsBounded
  <2>. QED
    BY <2>1, <2>2, GrantsStep
<1>. QED
  BY <1>1, <1>2, <1>3 DEF GrantInv

\* validateCoupon and consumeCoupon are not one step, yet with any number of
\* processes, coupons and orders the discounted orders pass max_uses by less
\* than the number of processes (databasehandler.cpp:949, :920): as long as
\* coupons do not change, nothing fails and nobody dies in between.
THEOREM CouponOveruseIsBounded ==
  ASSUME StatementsFail = FALSE, ProcessesCrash = FALSE, CouponsChange = FALSE,
         IsFiniteSet(Clients)
  PROVE  Spec => []CouponOveruseBounded
<1>1. Init => GrantInv
  <2>. SUFFICES ASSUME Init PROVE GrantInv
    OBVIOUS
  <2>1. OwnRow /\ RowIsFlows /\ \A c \in Coupons : active[c] /\ ~expired[c]
    BY DEF Init, OwnRow, RowIsFlows, Holding
  <2>2. ASSUME NEW c \in Coupons
        PROVE  /\ Cardinality(DiscountedOrders(c)) = 0
               /\ Cardinality(Asking(c)) = 0
               /\ Cardinality(Granted(c)) = 0
    <3>1. DiscountedOrders(c) = {} /\ Asking(c) = {} /\ Granted(c) = {}
      BY DEF Init, DiscountedOrders, Asking, Granted
    <3>. QED
      BY <3>1, FS_EmptySet
  <2>3. \A c \in Coupons : used[c] = 0 /\ MaxUses[c] \in Int
    BY OrderingAssumption DEF Init
  <2>4. GrantsBounded
    BY <2>2, <2>3 DEF GrantsBounded
  <2>. QED
    BY <2>1, <2>4 DEF GrantInv
<1>2. TypeInv /\ GrantInv /\ TypeInv' /\ [Next]_vars => GrantInv'
  BY GrantStep
<1>3. TypeInv /\ GrantInv => CouponOveruseBounded
  <2>. SUFFICES ASSUME TypeInv, GrantInv, NEW c \in Coupons, MaxUses[c] > 0
                PROVE  Cardinality(DiscountedOrders(c))
                         <= MaxUses[c] + Cardinality(Workers) - 1
    BY DEF CouponOveruseBounded
  <2>1. IsFiniteSet(Workers) /\ Cardinality(Workers) \in Nat
    BY FS_AddElement, FS_CardinalityType DEF Workers
  <2>2. Cardinality(DiscountedOrders(c)) \in Nat
    BY RowsFinite, Larger DEF DiscountedOrders
  <2>3. /\ Cardinality(Asking(c)) \in Nat /\ Cardinality(Granted(c)) \in Nat
        /\ Cardinality(Granted(c)) <= Cardinality(Workers)
    <3>1. Asking(c) \subseteq Workers /\ Granted(c) \subseteq Workers
      BY DEF Asking, Granted
    <3>. QED
      BY <2>1, <3>1, Larger
  <2>4. used[c] \in Nat /\ MaxUses[c] \in Int
    BY OrderingAssumption DEF TypeInv, TypeOK
  <2>. QED
    BY <2>1, <2>2, <2>3, <2>4 DEF GrantInv, GrantsBounded
<1>. QED
  BY <1>1, <1>2, <1>3, TypeCorrect, PTL DEF Spec

-----------------------------------------------------------------------------
(* The ledger explains the balance.  The library's induction theorems      *)
(* cannot be instantiated here, but a set of natural numbers has a         *)
(* smallest element, and that is induction enough for a running sum.       *)

\* A set of natural numbers that is not empty has a smallest element.
LEMMA Smallest ==
  ASSUME NEW T \in SUBSET Nat, T # {}
  PROVE  \E n \in T : \A m \in T : n <= m
<1>. DEFINE R == OpToRel(<, Nat)
<1>1. PICK n \in T : \A m \in T : ~(<<m, n>> \in R)
  BY NatLessThanWellFounded, WFMin
<1>2. \A i, j \in Nat : i < j => <<i, j>> \in R
  BY DEF OpToRel
<1>. HIDE DEF R
<1>3. n \in Nat /\ \A m \in T : m \in Nat /\ ~(m < n)
  BY <1>1, <1>2
<1>4. \A m \in T : n <= m
  BY <1>3
<1>. QED
  BY <1>4

\* A signed amount is an integer.
LEMMA SignedIsInt ==
  ASSUME NEW r \in LedgerRow, NEW u
  PROVE  Signed(r, u) \in Int
BY DEF Signed, LedgerRow

\* The running sum of a ledger satisfies its equation: a function of the first
\* n rows that does extends to n + 1.
LEMMA RunningEquation ==
  ASSUME NEW l \in Seq(LedgerRow), NEW u
  PROVE  Running(l, u) =
           [n \in 0..Len(l) |->
              IF n = 0 THEN 0 ELSE Running(l, u)[n - 1] + Signed(l[n], u)]
<1>. DEFINE Sum(f, k) ==
              f = [n \in 0..k |-> IF n = 0 THEN 0
                                  ELSE f[n - 1] + Signed(l[n], u)]
            Bad == {k \in Nat : ~ \E f : Sum(f, k)}
<1>1. Bad = {}
  <2>. SUFFICES ASSUME Bad # {} PROVE FALSE
    OBVIOUS
  <2>1. PICK k \in Bad : \A m \in Bad : k <= m
    BY Smallest
  <2>2. k # 0
    <3>. DEFINE g == [n \in 0..0 |-> 0]
    <3>1. Sum(g, 0)
      OBVIOUS
    <3>. QED
      BY <2>1, <3>1
  <2>3. k - 1 \in Nat /\ k - 1 \notin Bad
    <3>1. k \in Nat
      BY <2>1
    <3>. HIDE DEF Bad
    <3>. QED
      BY <2>1, <2>2, <3>1
  <2>4. PICK f : Sum(f, k - 1)
    BY <2>3
  <2>. DEFINE g == [n \in 0..k |-> IF n < k THEN f[n]
                                   ELSE f[k - 1] + Signed(l[k], u)]
  <2>5. ASSUME NEW n \in 0..k
        PROVE  g[n] = IF n = 0 THEN 0 ELSE g[n - 1] + Signed(l[n], u)
    <3>1. CASE n < k
      <4>1. n \in 0..k - 1 /\ g[n] = f[n]
        BY <2>1, <3>1
      <4>2. f[n] = IF n = 0 THEN 0 ELSE f[n - 1] + Signed(l[n], u)
        BY <2>4, <4>1
      <4>3. n # 0 => g[n - 1] = f[n - 1]
        BY <2>1, <3>1
      <4>. QED
        BY <4>1, <4>2, <4>3
    <3>2. CASE n = k
      BY <2>1, <2>2, <3>2
    <3>. QED
      BY <2>1, <3>1, <3>2
  <2>6. Sum(g, k)
    BY <2>5
  <2>. QED
    BY <2>1, <2>6
<1>2. \E f : Sum(f, Len(l))
  BY <1>1
<1>3. Running(l, u) = CHOOSE f : Sum(f, Len(l))
  BY DEF Running
<1>. HIDE DEF Bad
<1>. QED
  BY <1>2, <1>3

\* One row more leaves the earlier sums as they are and adds its own amount.
LEMMA RunningAppend ==
  ASSUME NEW l \in Seq(LedgerRow), NEW r \in LedgerRow, NEW u
  PROVE  /\ Running(l, u)[Len(l)] \in Int
         /\ Running(Append(l, r), u)[Len(l) + 1] =
              Running(l, u)[Len(l)] + Signed(r, u)
<1>. DEFINE k == Len(l)
            m == Append(l, r)
            f == Running(l, u)
            g == Running(m, u)
<1>1. /\ k \in Nat /\ m \in Seq(LedgerRow) /\ Len(m) = k + 1
      /\ \A n \in 1..k : m[n] = l[n] /\ l[n] \in LedgerRow
      /\ m[k + 1] = r
  OBVIOUS
<1>2. \A n \in 0..k :
        f[n] = IF n = 0 THEN 0 ELSE f[n - 1] + Signed(l[n], u)
  BY RunningEquation
<1>3. \A n \in 0..k + 1 :
        g[n] = IF n = 0 THEN 0 ELSE g[n - 1] + Signed(m[n], u)
  <2>1. g = [n \in 0..Len(m) |->
               IF n = 0 THEN 0 ELSE g[n - 1] + Signed(m[n], u)]
    BY <1>1, RunningEquation
  <2>. HIDE DEF g, m
  <2>. QED
    BY <1>1, <2>1
<1>4. \A n \in 1..k : Signed(l[n], u) \in Int
  BY <1>1, SignedIsInt
<1>. HIDE DEF f, g, m, k
<1>. DEFINE Bad == {n \in 0..k : ~(f[n] \in Int /\ g[n] = f[n])}
<1>5. Bad = {}
  <2>. SUFFICES ASSUME Bad # {} PROVE FALSE
    OBVIOUS
  <2>1. Bad \in SUBSET Nat
    BY <1>1
  <2>2. PICK n \in Bad : \A i \in Bad : n <= i
    BY <2>1, Smallest
  <2>3. n # 0
    BY <1>1, <1>2, <1>3, <2>2
  <2>4. n - 1 \in 0..k /\ n \in 1..k /\ n - 1 \notin Bad
    BY <1>1, <2>2, <2>3
  <2>5. f[n - 1] \in Int /\ g[n - 1] = f[n - 1]
    BY <2>4
  <2>6. f[n] = f[n - 1] + Signed(l[n], u) /\ g[n] = g[n - 1] + Signed(m[n], u)
    BY <1>1, <1>2, <1>3, <2>3, <2>4
  <2>. QED
    BY <1>1, <1>4, <2>2, <2>4, <2>5, <2>6
<1>6. f[k] \in Int /\ g[k] = f[k]
  BY <1>1, <1>5
<1>7. g[k + 1] = g[k] + Signed(r, u)
  BY <1>1, <1>3
<1>. QED
  BY <1>6, <1>7 DEF f, g, m, k

\* The three statements that move money append the row that explains it.
LEMMA LedgerStep ==
  TypeInv /\ LedgerExplainsBalance /\ [Next]_vars => LedgerExplainsBalance'
<1>. SUFFICES ASSUME TypeInv, LedgerExplainsBalance, [Next]_vars
              PROVE  LedgerExplainsBalance'
  OBVIOUS
<1>0. ledger \in Seq(LedgerRow) /\ balance \in [Users -> Int]
  BY DEF TypeInv, TypeOK
<1>1. ASSUME UNCHANGED <<balance, ledger>>
      PROVE  LedgerExplainsBalance'
  BY <1>1 DEF LedgerExplainsBalance
<1>2. ASSUME NEW r \in LedgerRow, ledger' = Append(ledger, r),
             \A u \in Users : balance'[u] = balance[u] + Signed(r, u)
      PROVE  LedgerExplainsBalance'
  <2>. SUFFICES ASSUME NEW u \in Users
                PROVE  balance'[u] = Running(ledger', u)[Len(ledger')]
    BY DEF LedgerExplainsBalance
  <2>1. Len(ledger') = Len(ledger) + 1
    BY <1>0, <1>2
  <2>2. Running(Append(ledger, r), u)[Len(ledger) + 1] =
          Running(ledger, u)[Len(ledger)] + Signed(r, u)
    BY <1>0, RunningAppend
  <2>. QED
    BY <1>2, <2>1, <2>2 DEF LedgerExplainsBalance
<1>3. ASSUME NEW w \in Workers, PayFromWallet(w)
      PROVE  LedgerExplainsBalance'
  <2>1. /\ Due(job[w]) \in Nat
        /\ job[w].user \in Users /\ job[w].order \in Nat
    BY <1>3, DueIsNat DEF PayFromWallet, TypeInv, TypeOK, JobOK, Job
  <2>. DEFINE r == [user |-> job[w].user, amount |-> Due(job[w]),
                    kind |-> "payment", order |-> job[w].order]
  <2>2. r \in LedgerRow /\ ledger' = Append(ledger, r)
    BY <1>3, <2>1 DEF PayFromWallet, LedgerRow
  <2>3. \A u \in Users : balance'[u] = balance[u] + Signed(r, u)
    BY <1>0, <1>3, <2>1 DEF PayFromWallet, Signed
  <2>. QED
    BY <1>2, <2>2, <2>3
<1>4. ASSUME NEW w \in Workers, NEW x \in Users, NEW a \in TopUps,
             ChargeWallet(w, x, a)
      PROVE  LedgerExplainsBalance'
  <2>. DEFINE r == [user |-> x, amount |-> a, kind |-> "topup", order |-> 0]
  <2>1. a \in Nat
    BY OrderingAssumption
  <2>2. r \in LedgerRow /\ ledger' = Append(ledger, r)
    BY <1>4, <2>1 DEF ChargeWallet, LedgerRow
  <2>3. \A u \in Users : balance'[u] = balance[u] + Signed(r, u)
    BY <1>0, <1>4, <2>1 DEF ChargeWallet, Signed
  <2>. QED
    BY <1>2, <2>2, <2>3
<1>5. ASSUME NEW x \in Users, NEW a \in ApiAmounts, NEW o \in 1..MaxOrders,
             PayCommand(x, a, o)
      PROVE  LedgerExplainsBalance'
  <2>. DEFINE r == [user |-> x, amount |-> a, kind |-> "payment", order |-> o]
  <2>1. a \in Nat /\ o \in Nat
    BY OrderingAssumption
  <2>2. r \in LedgerRow /\ ledger' = Append(ledger, r)
    BY <1>5, <2>1 DEF PayCommand, LedgerRow
  <2>3. \A u \in Users : balance'[u] = balance[u] + Signed(r, u)
    BY <1>0, <1>5, <2>1 DEF PayCommand, Signed
  <2>. QED
    BY <1>2, <2>2, <2>3
<1>. QED
  BY <1>1, <1>3, <1>4, <1>5
     DEF Next, Step, Dialog, vars, dbVars, PlaceOrder, OpenCheckout,
         ApplyCoupon, SelectMethod, RejectDialog, AcceptDialog, CreateOrder,
         CreateOrderFails, AddOrderItems, AddOrderItemsFails, PaymentRefused,
         CancelOrder, ConsumeCoupon, Reply, Crash, SetCouponActive,
         CouponExpires

\* Whatever fails or dies, users.balance is at all times the sum of the
\* customer's rows in wallet_transactions: the UPDATE and the row are one
\* transaction (databasehandler.cpp:802, :833).
THEOREM LedgerAlwaysExplains == Spec => []LedgerExplainsBalance
<1>1. Init => LedgerExplainsBalance
  <2>. SUFFICES ASSUME Init, NEW u \in Users
                PROVE  balance[u] = Running(ledger, u)[Len(ledger)]
    BY DEF LedgerExplainsBalance
  <2>1. ledger \in Seq(LedgerRow) /\ Len(ledger) = 0 /\ balance[u] = 0
    BY DEF Init
  <2>2. Running(ledger, u)[0] = 0
    <3>1. Running(ledger, u) =
            [n \in 0..Len(ledger) |->
               IF n = 0 THEN 0
               ELSE Running(ledger, u)[n - 1] + Signed(ledger[n], u)]
      BY <2>1, RunningEquation
    <3>. QED
      BY <2>1, <3>1
  <2>. QED
    BY <2>1, <2>2
<1>. QED
  BY <1>1, TypeCorrect, LedgerStep, PTL DEF Spec

=============================================================================
