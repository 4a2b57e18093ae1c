------------------------------ MODULE Ordering ------------------------------
(***************************************************************************)
(* Placing an order: the place_order handler of the server and the         *)
(* checkout of the client, running in different processes over the same    *)
(* SQLite file.                                                            *)
(*                                                                         *)
(* A process is single threaded, so one process runs one order flow at a   *)
(* time; the flows of different processes interleave between any two SQL   *)
(* statements.  An auto-committed statement and a BEGIN..COMMIT block are  *)
(* single steps: SQLite's write lock serialises them.  Money is counted in *)
(* whole units.                                                            *)
(***************************************************************************)
EXTENDS Integers, Sequences, FiniteSets

CONSTANTS
  Users,           \* ids of the customers (rows of users), positive
  Clients,         \* the client processes
  Server,          \* the one server process
  Totals,          \* cart totals that may be ordered
  TopUps,          \* amounts a wallet may be charged with
  Coupons,         \* rows of coupons
  Kind,            \* Kind[c]: "percent" or "amount"
  Value,           \* Value[c]: the coupon's value
  MinOrder,        \* Value below which the coupon is refused
  MaxUses,         \* MaxUses[c]: 0 means unlimited
  NoCoupon,        \* stands for an empty coupon code
  ApiAmounts,      \* amounts of the pay_from_wallet command ({}: never sent)
  CouponsChange,   \* TRUE: an admin toggles coupons and coupons expire
  StatementsFail,  \* TRUE: a statement may fail (busy, disk full)
  ProcessesCrash,  \* TRUE: a process may die between two statements
  MaxOrders,       \* bound on the orders placed
  MaxLedger        \* bound on the wallet transactions

ASSUME OrderingAssumption ==
  /\ Users \subseteq Nat \ {0}
  /\ Server \notin Clients
  /\ Totals \subseteq Nat
  /\ TopUps \subseteq Nat
  /\ ApiAmounts \subseteq Nat
  /\ NoCoupon \notin Coupons
  /\ Kind \in [Coupons -> {"percent", "amount"}]
  /\ Value \in [Coupons -> Nat \ {0}]
  /\ \A c \in Coupons : Kind[c] = "percent" => Value[c] <= 100
  /\ MinOrder \in [Coupons -> Nat]
  /\ MaxUses \in [Coupons -> Int]
  /\ {CouponsChange, StatementsFail, ProcessesCrash} \subseteq BOOLEAN
  /\ MaxOrders \in Nat
  /\ MaxLedger \in Nat

VARIABLES
  balance,   \* users.balance
  ledger,    \* wallet_transactions, in id order
  orders,    \* orders; the row id is the index (AUTOINCREMENT)
  used,      \* coupons.used_count
  active,    \* coupons.is_active
  expired,   \* coupons.expires_at lies in the past
  pc,        \* where the order flow of each process stands
  job,       \* the local variables of that flow
  acked      \* orders the customer was told had been placed

dbVars == <<balance, ledger, orders, used, active, expired>>
vars == <<balance, ledger, orders, used, active, expired, pc, job, acked>>

Workers == Clients \cup {Server}
Methods == {"cash", "wallet"}
MaybeCoupon == Coupons \cup {NoCoupon}

LedgerRow ==
  [user : Users, amount : Nat, kind : {"topup", "payment"}, order : Nat]

Order ==
  [customer : Users, total : Nat, discount : Nat, coupon : MaybeCoupon,
   method : Methods, status : {"pending", "cancelled"}, items : BOOLEAN]

Stages == {"idle", "dialog", "create", "items", "pay", "cancel", "consume",
           "reply"}

\* base: the cart's total; payable: the dialog's OK button is enabled.
Job ==
  [user : Users \cup {0}, base : Nat, coupon : MaybeCoupon, discount : Nat,
   method : Methods, payable : BOOLEAN, order : Nat]

NoJob == [user |-> 0, base |-> 0, coupon |-> NoCoupon, discount |-> 0,
          method |-> "cash", payable |-> FALSE, order |-> 0]

-----------------------------------------------------------------------------
(* Coupons and wallet rows, as the SQL statements see them.                *)

\* validateCoupon: a coupon that passes every test of the SELECTed row.
Validates(c, total) ==
  /\ active[c]
  /\ ~expired[c]
  /\ MaxUses[c] > 0 => used[c] < MaxUses[c]
  /\ total >= MinOrder[c]

\* The discount validateCoupon returns, never more than the total.
Discount(c, total) ==
  LET raw == IF Kind[c] = "percent" THEN (total * Value[c]) \div 100
                                    ELSE Value[c]
  IN  IF raw < total THEN raw ELSE total

\* Mutation: consumeCoupon relies on validateCoupon for the limit.
Consumable_NoLimit(c) == active[c] /\ ~expired[c]

\* The WHERE clause of consumeCoupon.
Consumable(c) ==
  /\ active[c]
  /\ MaxUses[c] = 0 \/ used[c] < MaxUses[c]
  /\ ~expired[c]

\* What the customer has to pay.
Due(j) == j.base - j.discount

\* Mutation: payFromWallet relies on an earlier look at the balance.
CanPay_Unguarded(u, amount) == u > 0 /\ amount > 0

\* The WHERE clause of payFromWallet and the tests before it.
CanPay(u, amount) == u > 0 /\ amount > 0 /\ balance[u] >= amount

Payment(i, o) == ledger[i].kind = "payment" /\ ledger[i].order = o
Paid(o) == \E i \in DOMAIN ledger : Payment(i, o)

Init ==
  /\ balance = [u \in Users |-> 0]
  /\ ledger = <<>>
  /\ orders = <<>>
  /\ used = [c \in Coupons |-> 0]
  /\ active = [c \in Coupons |-> TRUE]
  /\ expired = [c \in Coupons |-> FALSE]
  /\ pc = [w \in Workers |-> "idle"]
  /\ job = [w \in Workers |-> NoJob]
  /\ acked = {}

-----------------------------------------------------------------------------
(* The order flow of a process.                                            *)

Finish(w) ==
  /\ pc' = [pc EXCEPT ![w] = "idle"]
  /\ job' = [job EXCEPT ![w] = NoJob]

GoTo(w, stage) ==
  /\ pc' = [pc EXCEPT ![w] = stage]
  /\ UNCHANGED job

NewJob(u, t, c, m) ==
  [user |-> u, base |-> t, coupon |-> c,
   discount |-> IF c = NoCoupon THEN 0 ELSE Discount(c, t),
   method |-> m, payable |-> TRUE, order |-> 0]

RoomForOrder ==
  Len(orders) + Cardinality({w \in Workers : pc[w] # "idle"}) < MaxOrders

\* place_order: the coupon is validated when the request arrives; a refused
\* coupon is answered at once and changes nothing.
PlaceOrder(u, t, c, m) ==
  /\ pc[Server] = "idle"
  /\ RoomForOrder
  /\ c # NoCoupon => Validates(c, t)
  /\ pc' = [pc EXCEPT ![Server] = "create"]
  /\ job' = [job EXCEPT ![Server] = NewJob(u, t, c, m)]
  /\ UNCHANGED <<dbVars, acked>>

\* The checkout dialog opens on a cart; the first entry of the payment
\* combo box is cash.
OpenCheckout(w, u, t) ==
  /\ w \in Clients
  /\ pc[w] = "idle"
  /\ RoomForOrder
  /\ pc' = [pc EXCEPT ![w] = "dialog"]
  /\ job' = [job EXCEPT ![w] = NewJob(u, t, NoCoupon, "cash")]
  /\ UNCHANGED <<dbVars, acked>>

\* refreshTotals: the OK button is blocked while the balance read now is
\* short.
RefreshTotals(j) ==
  [j EXCEPT !.payable = ~(j.method = "wallet" /\ balance[j.user] < Due(j))]

\* Mutation: applying a coupon in the dialog already counts as a use.
ApplyCoupon_Consuming(w, c) ==
  /\ pc[w] = "dialog"
  /\ job[w].coupon = NoCoupon
  /\ Validates(c, job[w].base)
  /\ job' = [job EXCEPT ![w] = RefreshTotals(
       [job[w] EXCEPT !.coupon = c, !.discount = Discount(c, job[w].base)])]
  /\ used' = [used EXCEPT ![c] = @ + 1]
  /\ UNCHANGED <<balance, ledger, orders, active, expired, pc, acked>>

\* A validated coupon stays applied; the Apply button is then disabled.
ApplyCoupon(w, c) ==
  /\ pc[w] = "dialog"
  /\ job[w].coupon = NoCoupon
  /\ Validates(c, job[w].base)
  /\ job' = [job EXCEPT ![w] = RefreshTotals(
       [job[w] EXCEPT !.coupon = c, !.discount = Discount(c, job[w].base)])]
  /\ UNCHANGED <<dbVars, pc, acked>>

SelectMethod(w, m) ==
  /\ pc[w] = "dialog"
  /\ m # job[w].method
  /\ job' = [job EXCEPT ![w] = RefreshTotals([job[w] EXCEPT !.method = m])]
  /\ UNCHANGED <<dbVars, pc, acked>>

RejectDialog(w) ==
  /\ pc[w] = "dialog"
  /\ Finish(w)
  /\ UNCHANGED <<dbVars, acked>>

\* OK: the dialog closes and a wallet balance is read once more, before the
\* order row exists.  A failed read returns 0.
AcceptDialog(w) ==
  /\ pc[w] = "dialog"
  /\ job[w].payable
  /\ \/ /\ job[w].method = "wallet" => balance[job[w].user] >= Due(job[w])
        /\ GoTo(w, "create")
     \/ /\ job[w].method = "wallet"
        /\ \/ balance[job[w].user] < Due(job[w])
           \/ StatementsFail /\ 0 < Due(job[w])
        /\ Finish(w)
  /\ UNCHANGED <<dbVars, acked>>

\* createNewOrder, one INSERT.
CreateOrder(w) ==
  /\ pc[w] = "create"
  /\ orders' = Append(orders,
       [customer |-> job[w].user, total |-> Due(job[w]),
        discount |-> job[w].discount, coupon |-> job[w].coupon,
        method |-> job[w].method, status |-> "pending", items |-> FALSE])
  /\ job' = [job EXCEPT ![w].order = Len(orders) + 1]
  /\ pc' = [pc EXCEPT ![w] = "items"]
  /\ UNCHANGED <<balance, ledger, used, active, expired, acked>>

CreateOrderFails(w) ==
  /\ StatementsFail
  /\ pc[w] = "create"
  /\ Finish(w)
  /\ UNCHANGED <<dbVars, acked>>

\* Mutation: the coupon is consumed on the cash branch only.
AfterPayment_CashOnly(j) ==
  IF j.coupon # NoCoupon /\ j.method = "cash" THEN "consume" ELSE "reply"

\* The stage after the wallet has been dealt with.
AfterPayment(j) == IF j.coupon # NoCoupon THEN "consume" ELSE "reply"

\* Mutation: every order goes on as if it were paid in cash.
AddOrderItems_NoPayment(w) ==
  /\ pc[w] = "items"
  /\ orders' = [orders EXCEPT ![job[w].order].items = TRUE]
  /\ GoTo(w, AfterPayment(job[w]))
  /\ UNCHANGED <<balance, ledger, used, active, expired, acked>>

\* addOrderItems, one transaction.
AddOrderItems(w) ==
  /\ pc[w] = "items"
  /\ orders' = [orders EXCEPT ![job[w].order].items = TRUE]
  /\ GoTo(w, IF job[w].method = "wallet" THEN "pay" ELSE AfterPayment(job[w]))
  /\ UNCHANGED <<balance, ledger, used, active, expired, acked>>

\* Mutation: the early return after failed items is missing.
AddOrderItemsFails_NoReturn(w) ==
  /\ StatementsFail
  /\ pc[w] = "items"
  /\ GoTo(w, IF job[w].method = "wallet" THEN "pay" ELSE AfterPayment(job[w]))
  /\ UNCHANGED <<dbVars, acked>>

\* The flow gives up and leaves the order row as it is.
AddOrderItemsFails(w) ==
  /\ StatementsFail
  /\ pc[w] = "items"
  /\ Finish(w)
  /\ UNCHANGED <<dbVars, acked>>

\* Mutation: a payment whose answer is late is sent again.
PayFromWallet_Retried(w) ==
  LET u == job[w].user
      amount == Due(job[w])
  IN  /\ pc[w] = "pay"
      /\ CanPay(u, amount)
      /\ balance' = [balance EXCEPT ![u] = @ - amount]
      /\ ledger' = Append(ledger, [user |-> u, amount |-> amount,
                                   kind |-> "payment",
                                   order |-> job[w].order])
      /\ \E stage \in {"pay", AfterPayment(job[w])} : GoTo(w, stage)
      /\ UNCHANGED <<orders, used, active, expired, acked>>

\* payFromWallet, one transaction: the guarded UPDATE and the ledger row.
PayFromWallet(w) ==
  LET u == job[w].user
      amount == Due(job[w])
  IN  /\ pc[w] = "pay"
      /\ CanPay(u, amount)
      /\ balance' = [balance EXCEPT ![u] = @ - amount]
      /\ ledger' = Append(ledger, [user |-> u, amount |-> amount,
                                   kind |-> "payment",
                                   order |-> job[w].order])
      /\ GoTo(w, AfterPayment(job[w]))
      /\ UNCHANGED <<orders, used, active, expired, acked>>

\* Mutation: a refused payment is answered like an accepted one.
PaymentRefused_Ignored(w) ==
  /\ pc[w] = "pay"
  /\ ~CanPay(job[w].user, Due(job[w])) \/ StatementsFail
  /\ GoTo(w, AfterPayment(job[w]))
  /\ UNCHANGED <<dbVars, acked>>

PaymentRefused(w) ==
  /\ pc[w] = "pay"
  /\ ~CanPay(job[w].user, Due(job[w])) \/ StatementsFail
  /\ GoTo(w, "cancel")
  /\ UNCHANGED <<dbVars, acked>>

\* Mutation: the order is not cancelled after a refused payment.
CancelOrder_Forgotten(w) ==
  /\ pc[w] = "cancel"
  /\ Finish(w)
  /\ UNCHANGED <<dbVars, acked>>

\* updateOrderStatus(cancelled) after a refused payment; its result is
\* ignored.
CancelOrder(w) ==
  /\ pc[w] = "cancel"
  /\ \/ orders' = [orders EXCEPT ![job[w].order].status = "cancelled"]
     \/ StatementsFail /\ UNCHANGED orders
  /\ Finish(w)
  /\ UNCHANGED <<balance, ledger, used, active, expired, acked>>

\* consumeCoupon; its result is ignored.
ConsumeCoupon(w) ==
  LET c == job[w].coupon
  IN  /\ pc[w] = "consume"
      /\ \/ Consumable(c) /\ used' = [used EXCEPT ![c] = @ + 1]
         \/ ~Consumable(c) /\ UNCHANGED used
         \/ StatementsFail /\ UNCHANGED used
      /\ GoTo(w, "reply")
      /\ UNCHANGED <<balance, ledger, orders, active, expired, acked>>

\* The server answers success; the client shows the order as placed and
\* empties its cart.
Reply(w) ==
  /\ pc[w] = "reply"
  /\ acked' = acked \cup {job[w].order}
  /\ Finish(w)
  /\ UNCHANGED dbVars

\* A process dies: what it committed stays, its flow is gone.
Crash(w) ==
  /\ ProcessesCrash
  /\ pc[w] \notin {"idle", "dialog"}
  /\ Finish(w)
  /\ UNCHANGED <<dbVars, acked>>

-----------------------------------------------------------------------------
(* What else touches the same rows.                                        *)

RoomInLedger == Len(ledger) < MaxLedger

\* Mutation: the top-up is not recorded when the client charges.
ChargeWallet_Unrecorded(w, u, a) ==
  /\ pc[w] = "idle"
  /\ u > 0 /\ a > 0
  /\ RoomInLedger
  /\ balance' = [balance EXCEPT ![u] = @ + a]
  /\ IF w \in Clients
     THEN UNCHANGED ledger
     ELSE ledger' = Append(ledger, [user |-> u, amount |-> a,
                                    kind |-> "topup", order |-> 0])
  /\ UNCHANGED <<orders, used, active, expired, pc, job, acked>>

\* chargeWallet, from the profile panel or the charge_wallet command.
ChargeWallet(w, u, a) ==
  /\ pc[w] = "idle"
  /\ u > 0 /\ a > 0
  /\ RoomInLedger
  /\ balance' = [balance EXCEPT ![u] = @ + a]
  /\ ledger' = Append(ledger, [user |-> u, amount |-> a, kind |-> "topup",
                               order |-> 0])
  /\ UNCHANGED <<orders, used, active, expired, pc, job, acked>>

\* The pay_from_wallet command names any order and any amount.
PayCommand(u, a, o) ==
  /\ pc[Server] = "idle"
  /\ CanPay(u, a)
  /\ RoomInLedger
  /\ balance' = [balance EXCEPT ![u] = @ - a]
  /\ ledger' = Append(ledger, [user |-> u, amount |-> a, kind |-> "payment",
                               order |-> o])
  /\ UNCHANGED <<orders, used, active, expired, pc, job, acked>>

\* toggle_coupon, handled by the server between two orders.
SetCouponActive(c, b) ==
  /\ CouponsChange
  /\ pc[Server] = "idle"
  /\ active[c] # b
  /\ active' = [active EXCEPT ![c] = b]
  /\ UNCHANGED <<balance, ledger, orders, used, expired, pc, job, acked>>

\* Time passes expires_at.
CouponExpires(c) ==
  /\ CouponsChange
  /\ ~expired[c]
  /\ expired' = [expired EXCEPT ![c] = TRUE]
  /\ UNCHANGED <<balance, ledger, orders, used, active, pc, job, acked>>

-----------------------------------------------------------------------------

\* The steps a process takes by itself once the order has been submitted.
Step(w) ==
  \/ CreateOrder(w) \/ CreateOrderFails(w)
  \/ AddOrderItems(w) \/ AddOrderItemsFails(w)
  \/ PayFromWallet(w) \/ PaymentRefused(w) \/ CancelOrder(w)
  \/ ConsumeCoupon(w) \/ Reply(w)

\* What the customer does in the dialog.
Dialog(w) ==
  \/ \E u \in Users, t \in Totals : OpenCheckout(w, u, t)
  \/ \E c \in Coupons : ApplyCoupon(w, c)
  \/ \E m \in Methods : SelectMethod(w, m)
  \/ RejectDialog(w)
  \/ AcceptDialog(w)

Next ==
  \/ \E u \in Users, t \in Totals, c \in MaybeCoupon, m \in Methods :
       PlaceOrder(u, t, c, m)
  \/ \E w \in Workers : Step(w) \/ Dialog(w) \/ Crash(w)
  \/ \E w \in Workers, u \in Users, a \in TopUps : ChargeWallet(w, u, a)
  \/ \E u \in Users, a \in ApiAmounts, o \in 1..MaxOrders : PayCommand(u, a, o)
  \/ \E c \in Coupons, b \in BOOLEAN : SetCouponActive(c, b)
  \/ \E c \in Coupons : CouponExpires(c)

Spec == Init /\ [][Next]_vars

\* A handler that has begun runs on: nothing in it waits for input.
FairSpec == Spec /\ \A w \in Workers : WF_vars(Step(w))

-----------------------------------------------------------------------------
(* What a customer, a restaurant and the owner of a coupon rely on.        *)

\* The rows and the flows' local variables have the types of the schema; in
\* particular used_count is not negative and a discount never makes an order's
\* total negative.
TypeOK ==
  /\ balance \in [Users -> Int]
  /\ ledger \in Seq(LedgerRow)
  /\ orders \in Seq(Order)
  /\ used \in [Coupons -> Nat]
  /\ active \in [Coupons -> BOOLEAN]
  /\ expired \in [Coupons -> BOOLEAN]
  /\ pc \in [Workers -> Stages]
  /\ job \in [Workers -> Job]
  /\ acked \subseteq DOMAIN orders

\* The flow of some process still works on order o.
InFlight(o) == \E w \in Workers : job[w].order = o

\* Payments, order flows and the pay_from_wallet command of several processes
\* never drive a wallet below zero: the guard is in the UPDATE itself.
NoOverdraft == \A u \in Users : balance[u] >= 0

\* What a row of wallet_transactions does to the wallet of u.
Signed(row, u) ==
  IF row.user # u THEN 0
  ELSE IF row.kind = "topup" THEN row.amount ELSE -row.amount

\* The sum of the first n rows of l for u, for every n.
Running(l, u) ==
  LET sum[n \in 0..Len(l)] ==
        IF n = 0 THEN 0 ELSE sum[n - 1] + Signed(l[n], u)
  IN  sum

\* A wallet's balance is the sum of its transactions: every statement that
\* moves money also records it, in the same transaction.
LedgerExplainsBalance ==
  \A u \in Users : balance[u] = Running(ledger, u)[Len(ledger)]

\* used_count never passes max_uses, however many processes consume at once.
CouponWithinLimit ==
  \A c \in Coupons : MaxUses[c] > 0 => used[c] <= MaxUses[c]

\* Whatever fails or dies, nobody pays for half an order: a payment row names
\* an order that has its items, is not cancelled, and costs what was paid.
PaidOrderIsWhole ==
  \A i \in DOMAIN ledger : ledger[i].kind = "payment" =>
    /\ ledger[i].order \in DOMAIN orders
    /\ LET o == orders[ledger[i].order]
       IN  /\ o.items /\ o.status = "pending" /\ o.method = "wallet"
           /\ o.total = ledger[i].amount /\ o.customer = ledger[i].user

\* No flow pays twice, not after a refusal and not after a crash.
OnePaymentPerOrder ==
  \A i, j \in DOMAIN ledger :
    /\ ledger[i].kind = "payment" /\ ledger[j].kind = "payment"
    /\ ledger[i].order = ledger[j].order
    => i = j

\* An order the customer was told about is complete, and paid for when the
\* wallet pays.
AckedOrderIsGood ==
  \A o \in acked :
    /\ orders[o].items /\ orders[o].status = "pending"
    /\ orders[o].method = "wallet" => Paid(o)

DiscountedOrders(c) ==
  {o \in DOMAIN orders : orders[o].coupon = c /\ orders[o].status = "pending"}

\* Every counted use of a coupon belongs to an order that got the discount
\* and was not refused: a refused payment or a crash burns no use.
UsesAreBacked ==
  \A c \in Coupons :
    used[c] <= Cardinality({o \in DiscountedOrders(c) :
                 orders[o].items /\ (orders[o].method = "wallet" => Paid(o))})

Settled(o) ==
  Paid(o) \/ (o \in DOMAIN orders /\ orders[o].status = "cancelled")

\* Without failures an order to be paid by wallet ends up paid or cancelled
\* once its flow is over.
WalletOrdersSettled ==
  \A o \in DOMAIN orders :
    orders[o].method = "wallet" /\ ~InFlight(o) => Settled(o)

\* validateCoupon and consumeCoupon are not one step, so a coupon can be
\* granted more often than max_uses, but only by flows that overlap: at most
\* one order more per additional process.
CouponOveruseBounded ==
  \A c \in Coupons : MaxUses[c] > 0 =>
    Cardinality(DiscountedOrders(c)) <= MaxUses[c] + Cardinality(Workers) - 1

\* Every wallet order is eventually paid or cancelled, because the process
\* that inserted it goes on.
WalletOrderSettles ==
  \A o \in 1..MaxOrders :
    (o \in DOMAIN orders /\ orders[o].method = "wallet")
      ~> Settled(o)

-----------------------------------------------------------------------------
(* The inductive invariants of OrderingProofs.                             *)

\* The stages in which a flow owns an order row.
Holding == {"items", "pay", "cancel", "consume", "reply"}

\* What a stage says about the local variables of its flow.
JobOK ==
  \A w \in Workers :
    /\ pc[w] # "idle" => job[w].user \in Users
    /\ job[w].discount <= job[w].base
    /\ pc[w] \in Holding => job[w].order \in 1..Len(orders)
    /\ pc[w] = "consume" => job[w].coupon \in Coupons

\* The types, and what each stage of a flow has set.
TypeInv == TypeOK /\ JobOK

\* PaidOrderIsWhole is not inductive by itself: that the row a flow is about
\* to pay for has its items and is unpaid, and that no other flow owns it, is
\* what the flow carries from one statement to the next.

\* Each flow owns its row alone.
OwnRow ==
  \A v, w \in Workers :
    pc[v] \in Holding /\ pc[w] \in Holding /\ v # w =>
      job[v].order # job[w].order

\* The row of a flow is as far as the flow is.
RowFollowsFlow ==
  \A w \in Workers : pc[w] \in Holding =>
    LET j == job[w]
        o == orders[j.order]
    IN  /\ o.status = "pending" /\ o.customer = j.user
        /\ o.method = j.method /\ o.total = Due(j)
        /\ pc[w] # "items" => o.items
        /\ pc[w] \in {"pay", "cancel"} => o.method = "wallet"
        /\ pc[w] \in {"items", "pay", "cancel"} => ~Paid(j.order)
        /\ pc[w] \in {"consume", "reply"} /\ o.method = "wallet" =>
             Paid(j.order)

\* What the flows know about their rows, and the soundness of payments and
\* acknowledgements that it keeps.
PaymentInv ==
  /\ OwnRow
  /\ RowFollowsFlow
  /\ PaidOrderIsWhole
  /\ OnePaymentPerOrder
  /\ AckedOrderIsGood

\* The row of a flow is the one it inserted: no other flow has touched it, and
\* it has its items only from the statement after the insert on.
RowIsFlows ==
  \A w \in Workers : pc[w] \in Holding =>
    LET j == job[w]
        o == orders[j.order]
    IN  /\ o.coupon = j.coupon /\ o.method = j.method
        /\ o.status = "pending"
        /\ pc[w] = "items" => ~o.items

\* A flow names its row only while it holds it, and a wallet flow is past its
\* payment only when the row is paid.
FlowSettles ==
  \A w \in Workers :
    /\ pc[w] \notin Holding => job[w].order = 0
    /\ pc[w] \in {"consume", "reply"} /\ job[w].method = "wallet" =>
         Paid(job[w].order)

\* Without failures no flow lets go of an unpaid wallet order.
SettleInv == OwnRow /\ RowIsFlows /\ FlowSettles /\ WalletOrdersSettled

\* UsesAreBacked counts orders that a flow has yet to count: the inductive
\* form leaves those out.
Backed(c) ==
  {o \in DiscountedOrders(c) :
     orders[o].items /\ (orders[o].method = "wallet" => Paid(o))}

Counted(c) ==
  {o \in Backed(c) :
     ~ \E w \in Workers : pc[w] = "consume" /\ job[w].order = o}

UsesInv ==
  /\ RowIsFlows
  /\ \A c \in Coupons : used[c] <= Cardinality(Counted(c))

\* Flows that were granted coupon c and have not inserted their row.
Asking(c) ==
  {w \in Workers : pc[w] \in {"dialog", "create"} /\ job[w].coupon = c}

\* Flows that were granted coupon c and have neither counted the use nor given
\* it back.
Granted(c) ==
  {w \in Workers :
     /\ pc[w] \in {"dialog", "create", "items", "pay", "cancel", "consume"}
     /\ job[w].coupon = c}

\* While used_count is below the limit, every granted discount is a counted use
\* or has its flow still on the way; at the limit no more are granted.
GrantsBounded ==
  \A c \in Coupons : MaxUses[c] > 0 =>
    LET grants == Cardinality(DiscountedOrders(c)) + Cardinality(Asking(c))
    IN  IF used[c] < MaxUses[c]
        THEN grants <= used[c] + Cardinality(Granted(c))
        ELSE grants <= MaxUses[c] + Cardinality(Workers) - 1

GrantInv ==
  /\ OwnRow /\ RowIsFlows
  /\ \A c \in Coupons : active[c] /\ ~expired[c]
  /\ GrantsBounded
=============================================================================
