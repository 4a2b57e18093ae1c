# IUT Food in TLA+

This directory specifies the ordering system of this repository in TLA+. It
holds models of its components, instances of them for the TLC model checker,
and proofs for the TLAPS proof system. `src/…` below is relative to the
repository's root.

## 1. The system

A Qt program in two kinds of process:

* **clients** (`src/src/client`): customer, restaurant and administrator windows;
* **one server** (`src/src/server`): a TCP server with newline-delimited JSON
  commands, one `ConnectionHandler` per connection.

All of them open the *same SQLite file* through `DataBaseHandler`
(`src/src/common/databasehandler.cpp`): a customer's client places its orders
directly in the file and only tells the server about them, while the server's
`place_order` command does the same work for remote callers. Each process is
single threaded and runs an event loop, so inside a process a handler runs to
its end (a modal dialog lets the loop turn). Between processes everything
interleaves at the granularity of one auto-committed SQL statement or one
`BEGIN…COMMIT`. A process may die between two statements, and a statement may
fail (`SQLITE_BUSY`, a full disk).

### Inventory

| Component | State | Operations | Interacts with | What makes it correct |
|---|---|---|---|---|
| Order placement (`connectionhandler.cpp` `place_order`, `client.cpp` `onShowCheckoutDialog`, `checkoutdialog.cpp`) | local variables of one flow per process | dialog, coupon, balance check, order row, items, payment, cancellation, coupon use | database, broadcast | no half-placed order is paid or acknowledged; nothing is paid twice; a wallet order is settled |
| SQLite connection (`databasehandler.cpp`) | open transaction, write lock | begin, statement, commit, rollback, single statement | all writers | a call takes effect as a whole or not at all; what was refused stays out |
| Wallet | `users.balance`, `wallet_transactions` | charge, pay | order placement | no overdraft; balance = sum of transactions |
| Coupons | `coupons` rows | create, toggle, validate, use, expire | order placement, admin panel | `used_count` ≤ `max_uses`; every use backed by an order |
| Connection guards (`connectionhandler.cpp` `onReadyRead`, `ratelimiter.h`) | socket buffer, token bucket | read loop, two size guards, token bucket, rejection | clock, socket | burst + rate in every window, nobody refused earlier, every line read |
| Order status (`restaurantwindow.cpp`, `restaurant.cpp`, `profilepanel.cpp`, `client.cpp`, `orderstatus.h`) | `orders.status`, dashboards' cached rows and boxes, reviews | confirm, ship, deliver, cancel, review, push, mirror, poll, announce | database, broadcast hub | pending → confirmed → shipped → delivered; one review, after delivery |
| Broadcast hub (`server.cpp`, `networkmanager.cpp`) | list of handlers, sockets | connect, disconnect, broadcast | all sessions | everybody but the sender, once |
| Accounts and schema (`databasehandler.cpp`, `passwordhasher.h`, `demodata.cpp`, `logindialog.cpp`) | `users`, cascades, seed data | register, approve, block, delete, login + hash migration, seed | all | who may log in; no dangling rows; one seeding |
| Menus, restaurant list, favorites | `foods`, `restaurants` cache, `favorites` | edit menu, open menu, refill cache, filter | accounts, cart, server | prices are the restaurant's own; a list shows what was asked for |
| Cart (`shoppingcart.cpp`, reorder in `profilepanel.cpp`) | one cart per process | add, merge, order again, check out, clear | menus, order placement | an order goes where it can be cooked; each portion is ordered once |
| Admin panel, windows, start-up | table widgets | load, toggle, approve | server commands | shows what is stored |
| Presentation (themes, delegates, forms), value types, scripts | none | | | not modelled |

Hard behaviour: interleavings of processes over the file (check-then-act on
balances and coupons), crashes and failing statements in the middle of a flow,
caches that are read after they went stale, pushes that arrive late and are
written back, a clock that is set, and an iteration over a list that changes
under it. `PROJECT.json` lists each hazard at its line with the properties that
cover it, and notes what of it they allow.

## 2. Plan

Order, most important first. All but the parts named at the end of each line are done.

1. `Ordering` – both order flows over the shared file, coupons and wallet;
   `OrderingProofs`.
2. `ConnectionGuards` – read loop and token bucket; its proofs are in
   `ServerProofs`.
3. `Tracking` – status changes from dashboards, panels and pushes, per-session
   queues, reviews; abstract specification `OrderLifecycle`; `TrackingProofs`.
4. `Transactions` – the connections of several processes with `BEGIN`, `COMMIT` and a
   commit that fails, implementing the abstract `AtomicStore`; `TransactionsProofs`.
5. `BroadcastHub` – the handler list and removal during a broadcast;
   its proofs are in `ServerProofs`.
6. `Accounts` – registration, approval, login with migration, deletion and its
   cascades, `AccountsProofs`; `FirstStart` – migration of the schema and seeding
   by processes that start together, `FirstStartProofs`.
7. `Shopping` – menus, cart, ordering again and checkout; `ShoppingProofs`.
8. `Dashboard` – the poll of a restaurant window and its boxes; its proofs are in
   `WindowsProofs`.
9. `RestaurantList` – the list of restaurants, favorites and the shared cache of
   answers; its proofs are in `WindowsProofs`.
10. Left: creation of coupons and the admin's coupon table.

Each module has one passing run (two where failures and liveness need different
bounds); `wrong_restaurant` shows a disagreement between the code and its comments, and
the others that were found are told with their module. Modules that are
proved about contain no recursive operators; constants carry named assumptions.

## 3. The modules

A definition whose name contains an underscore, `Name_Bug`, is a mutation of
`Name` by a plausible mistake. It is used by no specification; it serves to
confirm that the property it is listed with in `PROJECT.json` can fail.

### Ordering

*State.* `balance`, `ledger`, `orders`, `used`, `active`, `expired` are the rows of
`users`, `wallet_transactions`, `orders` (with `order_items` reduced to "has its
items") and `coupons`. For each process, `pc` says after which statement its
order flow stands and `job` holds the flow's local variables. `acked` records
which orders a customer was told had been placed.

*Actions.* `PlaceOrder` is the part of the `place_order` handler that validates
the coupon; `OpenCheckout`, `ApplyCoupon`, `SelectMethod`, `RejectDialog` and
`AcceptDialog` are the client's dialog, `AcceptDialog` including the second look
at the balance. From `create` on both flows run the same statements:
`CreateOrder`, `AddOrderItems`, `PayFromWallet` or `PaymentRefused` and
`CancelOrder`, `ConsumeCoupon`, `Reply`, with `…Fails` for the error branches.
`Reply` stands for the whole tail (answer, notification, emptied cart, tracker
window), which touches none of this state. `ChargeWallet`, `PayCommand`,
`SetCouponActive` and `CouponExpires` are the other writers of the rows, `Crash`
ends a flow anywhere.

*Abstractions.* Money is counted in whole units and a percentage is rounded
down; the code uses doubles. A cart is its total. A statement that fails has no
effect: that a failed `COMMIT` leaves the connection's transaction open is in
`Transactions`. A failing balance read is modelled where the order is submitted
(it returns 0), not in the dialog, where it only disables the button. Status
changes after placement belong to `Tracking`.

*Properties.* `NoOverdraft`, `LedgerExplainsBalance`, `CouponWithinLimit`,
`PaidOrderIsWhole`, `OnePaymentPerOrder`, `AckedOrderIsGood`, `UsesAreBacked`,
`WalletOrdersSettled`, `CouponOveruseBounded` and, as liveness,
`WalletOrderSettles`; each is stated in words above its definition.

*Runs.*

| Run | Instance | Shows |
|---|---|---|
| `ordering` | one client and the server, no failures, up to 3 orders, a coupon for one use that takes 2 off totals 1 and 3, `pay_from_wallet` enabled | money, settlement and the bound on coupon overuse; liveness |
| `ordering_faults` | two clients (symmetric) and the server, failing statements, crashes, coupon toggled and expiring | soundness of payments, acknowledgements and coupon uses |

*Where code and documents differ.* `src/docs/PROTOCOL.md:233` says the server enforces
`max_uses`. The count is raised after the order is committed and its refusal is ignored, so
overlapping flows share the last use; `CouponOveruseBounded` says by how much.
`src/docs/PROTOCOL.md:83` says an order is cancelled when the balance is insufficient.
`payFromWallet` also refuses an amount of 0, so a wallet order that a coupon makes free is
cancelled whatever the balance; the run `ordering` has such orders (2 off a total of 1),
and `WalletOrdersSettled` allows them no other end.

*Bounds.* `MaxOrders` and `MaxLedger` bound the flows and the top-ups. Every
property relates at most two orders or payments and one coupon, and every race
needs two flows that overlap; three orders allow an overlap before or after a
finished one. One user is the worst case for the wallet, one coupon for its count.

*Fairness.* `WF_vars(Step(w))` for every process: once begun, a handler waits for
nothing and the event loop lets it run to its end. The customer's dialog
(`Dialog`), arriving commands and crashes are not fair. The liveness run has
no crashes or failures: the code has no recovery that would settle an order whose
process died, and the property does fail with them.

### ConnectionGuards

*State.* The socket's complete `lines` and unfinished `tail`, the bucket
(`started`, `lastMs`, `tokens`), the read loop's `pc`, the number of
`rate_limit_error` `replies`, the wall clock and real time, and `log`, which
remembers for each admitted request the real time and the limiter's clock.

*Actions.* `BeginRead`, `SkipEmpty`, `RejectLarge`, `Admit`, `Refuse`, `EndRead`
are the steps of `onReadyRead`; `Allow` is `RateLimiter::allow`. `Tick`,
`SetClock`, `ReceivePart`, `ReceiveNewline` and `ClientCloses` are the environment.
Bytes arrive only between two handlers, because the socket is read by the event
loop; `disconnectFromHost` switches the read notifications off, so nothing is read
after a rejection. Tokens are integers in units of `1/Unit` request; the code's
doubles may be off by a rounding error. A line's size is "empty", within the cap or
above it.

*Properties.* `WindowBound` (in every window at most burst + refill),
`RefusedOnlyWhenExceeded` (nobody is refused earlier than that) and `LinesAreRead` as liveness under `WF_guardsVars(OnReadyRead)`
(Qt delivers `readyRead`, and the loop does not wait).

*Run.* `guards`: a bucket of two requests with one token per two milliseconds,
a clock that is set to 0 or to 6 at any time, four lines with all framings.
With the clock set back, a connection that keeps to burst and rate in real time
is refused, against the class comment of `ratelimiter.h`: `PacedClientPasses` is
not claimed of the code, and proved for a clock that is never set. Bounds: a burst of two and a cost of two ticks is the
smallest bucket with partial tokens, capped refills and refusals before and
after a refill; four lines are two more than the burst.

### Tracking

*State.* `status` and `reviews` are rows of the shared file; `reached` remembers
which statuses a row has held, `broken` whether a connection ever broke. `board` is the list a restaurant dashboard last
loaded, `panel` and `tracker` are the order page and the tracker dialog of a
customer window. `handling` is what the running handler of a session has
written and has still to finish. `conn`, `outbox` and `inbox` are the
connections: one FIFO queue of commands to the server for each session, and one
of pushes to each customer window.

*Actions.* A status travels three ways, and each has its action. The direct write
is `ConfirmOrder`, `ShipOrder` or `MarkOrderDelivered`. The second half of the
dashboard's handlers, `MirrorUpdate`, reloads the list and sends the update; the
server stores it again and pushes it to everybody else (`ProcessCommand`), and
every window stores what is pushed (`OnOrderStatusUpdated`). A review is made and
mirrored by `SubmitReview`. `CheckForNewData` is the poll of the dashboard.
`Connect`, `Disconnect` (from some point on, what the peer has not read is lost)
and `Restart` (the process ends, possibly between the halves of a handler) are
the environment. Every handler decides by the screen as it was last loaded, and
`UpdateOrderStatus` compares nothing with the row it overwrites, as in the code.

*Abstractions.* A session is a process with one window (the client can open
several in one process, which then share a connection). Orders are placed by
customer windows and are not deleted (they are in `Dashboard`). A dashboard that receives a push only
redraws the list it has, so pushes to it are left out, as are the replies and
the chat. `MirrorUpdate` is one step: that a modal box for new orders can come between
the reload and the message, with the poll running on, is in `Dashboard`.

*Abstract specification.* `OrderLifecycle` is the machine of
`src/docs/PROTOCOL.md:64`. With `Replays` an order may also fall back to a stage
it has been in, or enter the one after it. `Tracking` implements the machine with
replays in general (`OneStageAtATime`), and the documented one without replays
where nothing is mirrored (`Canonical`).

*Properties.* `OneStageAtATime` is the implementation of the machine with replays, and
`ReviewsAreEarned` is about the reviews. Two properties say how far the replays go.
`ShippingIsRestored`: a late push can set a shipped order back to confirmed, but then the
shipping is still on its way to somebody who stores it, with one dashboard and as long as
no connection breaks. `CancelledStaysCancelled`: a cancelled order that nobody has
confirmed and no dashboard lists as pending any more is out of reach of every button,
mirrored update, push and new window. `Canonical` is proved (section 4) and has no run.

*Not claimed.* A dashboard moves an order by the status it last loaded, whatever became of
it meanwhile, and confirms a cancelled order that it still lists as pending. With two
dashboards, or after a broken connection, a shipped order can be left at confirmed; that
a delivered order can be set back for good is shown below. The tracker may show an order
of another customer.

*Run.* `tracking`: a dashboard and two windows of one customer (symmetric), one
wallet order, breaking connections and restarts. An order only enters the stage after
one it has been in, no second or early review is stored, a cancelled order out of reach
stays cancelled, and while connections hold a lost "shipped" comes back, whatever arrives
when. A comment at `profilepanel.cpp:453` says
that mirroring keeps all sessions in sync. It does not: when the server handles a
dashboard's "shipped" after the customer's "delivered", the order falls back to shipped,
is pushed so, and stays so. This is why the abstract machine replays.

*Bounds.* `MaxQueue` bounds the unread messages of a session: with one command
in each of three queues and one push in each of two there are already messages of
every pair of sessions that overtake each other. One order is enough, as the
properties speak of one order at a time and no action relates two. A process
restarts only once the server has read what its old connection still held, which
spares the model a second queue for it. Nothing is assumed to happen: the module
states safety only.

### Transactions

*State.* `file` is what is committed, `draft` what the holder of the write lock
(`writer`) sees, `open` the connections with an open transaction and `answer` what each call
has returned. A call is a constant record: its process, the wallet it changes, how many
statements it has, which rows it refers to and which calls its caller makes first.

*Actions.* `Begin` or `BeginFails`, `Statement` or `StatementFails` (with the rollback),
`Commit` or `CommitFails` for the transactional functions (`addOrderItems`, `submitReview`,
`chargeWallet`, `payFromWallet`); `Single` or `SingleFails` for the others; `Die` ends a
process, and SQLite discards what its connection had not committed. A deferred transaction
takes the lock with its first write. After a failed `COMMIT` the functions return false and
roll nothing back: the transaction stays open, later `BEGIN`s fail, and later single
statements are written into it and answered with true, though only until the process ends.

*Abstractions.* A transaction's read lock, and SQLite's upgrade deadlock with it, is a
statement that may fail. A call is made once.

*Abstract specification.* `AtomicStore` performs a call at once or refuses it, and may
lose answers of a process that dies. `Transactions` implements it (`Atomicity`) by what
each connection would see if it committed.

*Properties.* `RefusedNeverTakesEffect`, `AnsweredTrueIsStored` (stored, or waiting in the
transaction that its own connection was left with), `PersistedInOrder`, `Atomicity`.

*Run.* `transactions`: a client that tops up a wallet, places an order with two lines, pays
and uses a coupon, beside a server that tops up the same wallet, changes the order's status
and stores its review: both kinds of call on both sides of every lock, a payment that needs
both top-ups, and calls after a commit that was left open. Safety only.

### BroadcastHub

*State.* `slots` and `size` are `m_clients` as memory, so that what a loop reads behind
the end after a removal is what the code would read; `socket`, `doomed` and `deleted` are
the handlers'; `origin`, `at` and `last` are the loop's iterators. `sent`, `failures` and
`audience` are history.

*Actions.* `IncomingConnection`; `PeerBreaks` (the peer is gone, nobody has noticed),
`PeerCloses`; `DeleteLater` is the deferred deletion. `Broadcast` and
`BroadcastAfterFailedReply` start the loop; its steps are `SkipClient`, `SendJson` and
`SendJsonFails`, in which the write aborts the socket and `OnDisconnected` runs inside the
loop. `EndBroadcast` returns to the event loop, which alone deletes handlers.

*Properties.* `NoDanglingPointer`, `ListIsExact` and `LossIsBounded`.
`QuietBroadcastReachesAll`, of broadcasts in which no write fails, is proved.

*Run.* `broadcast`: five connections (symmetric), so that a loop can meet two failures
with healthy connections before, between and behind them. Safety only; the
server stops when all connections have come and gone.

*Where code and documents differ.* `src/src/server/server.h:11` says that chat messages
and status changes are broadcast to every other connected client. The loop iterates over
`m_clients` itself, and a write that finds its connection broken removes the handler from
it: of the list a, b, c the write to a fails, b moves to a's place and is skipped, and c,
whose old place still lies before the old end, is written twice. `LossIsBounded` says how
much is missed.

### Shopping

*State.* `price` is the table of foods, `menu` what a process's open menu shows, `cart` its
`m_items`, `orders` the orders with their items, `step` and `job` where a checkout stands.
`listed`, `added` and `ordered` are history.

*Actions.* `AddFoodItem`, `UpdateFoodItem`, `DeleteFoodItem` are the restaurants'.
`OpenMenu`, `AddToCart` and `ReorderSelectedOrder` are the customer's, the latter two with
the merging of `addItem`. `CreateNewOrder`, `AddOrderItems`, `PayFromWallet` and `ClearCart`
are the checkout, `AddOrderItemsFails` and `PaymentRefused` its early returns; `Restart`
ends a process anywhere.

*Abstractions.* Amounts, coupons and the cancellation of a refused order are in `Ordering`,
ownership and approval in `Accounts`. A crash between payment and emptied cart loses the
cart with the process, as in the code.

*Properties.* `OrderGoesToACook`, `PricesWereAsked`, `OrderedOnce`. The cart does not keep
restaurants apart, so that an order holds dishes of its restaurant only is false; that there
is at least one survives mixing and ordering again.

*Run.* `shopping`: one process, two restaurants with a dish each, one of which has two
prices; two portions and two orders. Two dishes mix, and two orders allow one to be
ordered again. Processes share only the orders, and one's orders offer the other no
more than its own. Safety only.

### Dashboard

*State.* `rows` are the orders of one restaurant, `list` is `m_orders`, `last` is
`m_lastOrderCount`, `table` the widget. `boxes` counts the modal boxes that are open, each
in the middle of a load: one, or a second one inside that of a button's handler. `due` says that a poll or a button's
handler is about to load, `unsent` what the handler still has to send, `notice` that its own
box is open. `written`, `sent` and `known` are history.

*Actions.* `CheckForNewData`, which does not fire inside a box of its own (`Polling`: Qt
does not enter the slot of a timer again while it runs), and the load, `LoadQuietly` or
`LoadAndAnnounce`;
`CloseBox` ends the innermost load, and with the last box the handler that waits below;
`UpdateOrdersView` is the redraw on a push; `ConfirmOrder`, `ShipOrder`, `CloseNotice`.
`CreateNewOrder` and `DeleteUserOf` are other processes. The count of the poll and the load are
two statements, so both may come between them.

*Abstractions.* What other sessions do to a status, and the end of the process, are in
`Tracking`. Each order has its own customer.

*Properties.* `MirrorsInOrder`, `UnannouncedArePaidFor`, `FreshBoxHasNews`, and as
liveness `NewOrdersAreShown`. A poll inside the box of a button's reload opens a second
box for the same orders; only a box opened with none open has news.

*Run.* `dashboard`: three orders, some of which may be there at the start: one order that
is deleted, one that hides behind it and one that is found; a box inside a box. Nothing
else is bounded.

*Fairness.* `WF_dashboardVars` of the poll (a `QTimer` of five seconds that the program never
stops) and of a load that is due (a handler runs to its end). Users and pushes are not fair:
that boxes are closed again and again is a premise of `NewOrdersAreShown`.

### Accounts

*State.* `users` are the rows of that table, with whose `password` a stored string
verifies and by which `hash`. `foods`, `orders`, `reviews` and `favorites` are kept
as the users they name. `customer`, `restaurant` and `signedIn` are a launcher's
windows; `signing` and `adding` hold the local variables of a login that re-hashes
an old digest and of an `addFoodItem`, which are two statements each. A reference
to a user is an id together with the person it was meant for: the person (and
`owner` of a row) is history, no guard reads it.

*Actions.* `Register`, `LoginUser` (the SELECT and the verification, in which the
role check of the dialog decides which window opens), `Upgrade` or `UpgradeFails`
(the second statement of a login with a legacy digest), `UpdateUserDetails`, the
admin's `SetActive`, `ApproveRestaurant`, `DisapproveRestaurant` and `DeleteUser`
with its cascades, `ValidateRestaurant` and `InsertFood`, `DeleteFoodItem`,
`CreateNewOrder`, `SubmitReview`, `ToggleFavorite`, and `Quit`, which ends a
process anywhere.

*Abstractions.* Each person registers once, with a password of their own. Screens
may be as old as they like, so an admin may click any id that was ever given and a
customer any restaurant that was ever approved (`vetted`). Foods are the set of
restaurants that have one. The administrator's own account, deleting wallet rows
with their user, and a `place_order` command with made-up ids (no window sends
one; its statements are those of `Ordering`) are left out. A mirrored review
stores nothing new, the row's key is the order.

*Properties.* `StaleIdsNameNobodyElse`, `NoOrphans`, `LoginFindsOwner`,
`RightRoles`. `RestaurantSessionPerLogin` is the comment at `mainwindow.cpp:65`.

*Runs.*

| Run | Instance | Shows |
|---|---|---|
| `accounts` | two people, two names, two launchers, one of them with an old digest, failing re-hashes | identity, roles, cascades and logins under every interleaving |
| `wrong_restaurant` (fails) | two restaurants sign in at one launcher | the second one is shown the dashboard of the first |

*Bounds.* Ids are never given twice (`AUTOINCREMENT`), so two people make at most
two rows; two names allow every clash and exchange of names. Nothing is assumed to
happen: the module states safety only. A deadlock is impossible because a process
can always quit.

### RestaurantList

*State.* `profile` and `standing` are what the list's query reads of `users`, `cache` is the
table `restaurants`, `favorites` each customer's rows of that table. For each client,
`dialog` and `menu` are the open list and the menu above it, `shown` its `m_restaurants`;
`step` and `storing` say where a handler stands and which rows of an answer it has still to
insert. `connected`, `asked` and `answers` are its connection. `changes`, `approved` and
`storing.alone` are history.

*Actions.* A list is drawn by two queries, the catalogue's (`DrawCatalogue`, the last half of
`OpenList`, `ToggleFavOnly` and `DrawAnswer`) and the cache's (`DrawCache`, with
`AppendUnique`); the constructor then asks the server, whose handler is `GetRestaurants`.
An answer is stored by `OnRestaurantsReceived` (the DELETE) and one `AddRestaurant` for each
row, with `…Fails` where a result is ignored, or dropped by `AnswerIgnored` if no list is
open. `OnRestaurantItemClicked`, `ToggleFavorite`, `CloseMenu` and `CloseList` are the
customer's; `ApproveRestaurant`, `DisapproveRestaurant`, `DeleteUser` and
`UpdateRestaurantDetails` change the catalogue; `Disconnect` and `Restart` come at any time.
Other processes act between any two statements.

*Abstractions.* A filter is the set of profiles that match it, a profile a place (name and
location, what `appendUnique` compares) and a type. The price range is only drawn. The rows
of an answer are inserted in any order. Blocking does not matter, as the queries do not read
`is_active`. A menu is open or not; what is in it belongs to `Shopping`.

*Properties.* `ListKeepsItsFilter` and `QuietAnswerIsExact`. A row of the cache is on a list
only if the catalogue's query did not give it, and where all processes share one file that
means it is outdated: a restaurant that was disapproved, deleted, moved or renamed stays on
lists until an answer has been stored undisturbed. `src/docs/PROTOCOL.md:199`, that
unapproved restaurants never appear, is true of the answer, not of the list drawn from it.
Favorites only, with no favorites, lists everybody, against `src/README.md:65`, which says the
list is filtered down to them: no ids mean no condition (`databasehandler.cpp:418`).
`QuietAnswerIsExact` therefore speaks of customers who have favorites.

*Run.* `restaurants`: two restaurants that differ in place, two customers. One filters by
everything or by a place, bookmarks a restaurant, and may have two questions under way, so
that an answer meets a later list; the other one's answers disturb the cache. Initially
nobody or both are approved; one change of the catalogue (`MaxChanges`) before, between or
after question and answer makes a row stale. Statements on the cache fail. `Bookmarkable`
bounds whose menus are opened. Safety only.

### FirstStart

*State.* `schema` is what tables and columns the file has, `old` whether it had users
before, `copies` how often each process has inserted each row of the demo data; `pc`,
`at` and `missing` are where each process is in its start-up and what `PRAGMA
table_info` has told it. `early` and `finished` are history.

*Actions.* `Open`, `CreateTables` (one CREATE statement), `TableInfo` and
`AddColumnIfMissing` (the two statements of that function), `CheckFresh`, `Seed`
(one statement of the script, with the lookups before it), and `Stop`, at any
point, after which the process may be started again. `DemoData` is the concrete
script: every statement of `seedDemoData` and `createTables`.

*Abstractions.* A statement fails only because of a key or a column that is already
there; both results are ignored in the code. Statements that fail for other
reasons, indexes, and users who delete or rename accounts while another process
is still seeding are left out.

*Properties.* `SchemaComplete`, `FinishedSeedingIsWhole`, `SeededByEarlyStarters`. Two
processes that start together may store a top-up, an order or a dish twice;
`SeededByEarlyStarters` bounds this by the processes that found the file untouched.

*Run.* `first_start`: two processes (symmetric) on no file, an old file without
users or an old one with some; two tables, one of the first release and one of
the third, two columns, and the script cut to two restaurants with one dish each, one
order and one coupon. Every kind of statement and every lookup is there, and two
processes make every race. That the whole script is in order
(`DemoAssumption`: each lookup is for a row inserted before) is evaluated by TLC
on every run of the module, so that the theorems hold for it. No fairness is
assumed, and a process can always stop or be opened.

## 4. The proofs

All theorems hold for every value of the constants that satisfies the module's named
assumption (`OrderingAssumption`, `GuardsAssumption`, `TrackingAssumption`,
`AccountsAssumption`, `TransactionsAssumption`, `HubAssumption`, `ShoppingAssumption`,
`DashboardAssumption`, `ListAssumption`; `StartAssumption` and `ScriptAssumption` of
`FirstStart`). What a theorem needs beyond that is in its `ASSUME`. The type invariants
are proved (`TypeCorrect` in each module, `GuardsTypeCorrect`, and the first theorem about
`Dashboard` and `RestaurantList`) and not checked again by the runs. Every invariant and every action
property of the passing runs is the conclusion of a theorem.

**OrderingProofs.** `TypeCorrect` proves `TypeInv`: the types and which local variables
a flow's stage has set. `NeverOverdrawn` and `CouponNeverOverCounted` follow from the
guards being part of the updating statement, given the types. `PaymentsAreSound` proves
`PaidOrderIsWhole`, `OnePaymentPerOrder` and `AckedOrderIsGood` where the raw
`pay_from_wallet` command is not sent (with it they are false: the command names any
order and amount). These are not inductive: that a flow about to pay has a complete,
unpaid row is knowledge the flow carries from one statement to the next, and another
flow must not touch that row. `PaymentInv` adds both, `RowFollowsFlow` and `OwnRow`.
`PaidOnce` and `AcksAreGood` state two of the three properties by themselves.

Without that restriction, `FlowsOwnTheirRows` still holds: what a row says of its
coupon, method, items and status is what its flow knows (`RowIsFlows`). Three more
theorems rest on it. `WalletOrdersAreSettled`, for runs without failing statements and
crashes, adds that a flow past its payment has a paid row (`SettleInv`); with a failing
statement the property is false, because a cancellation that fails leaves the order
pending. `UsesAreBackedAlways` needs that the uses counted so far are covered by orders
whose flow has *already* counted (`Counted`; the property alone counts the ones about to
be counted too, so it says nothing of the next step); it is about failures and crashes,
but not about hand-sent payments. `CouponOveruseIsBounded` bounds the discounts by the
uses and the flows still on the way while the limit is not reached, and by the number of
processes when it is (`GrantsBounded`). It assumes that coupons do not change: one that
is switched off between check and use grants a discount that is never counted.
`LedgerAlwaysExplains` needs no assumption. That the running sum of a longer ledger
begins with that of the shorter one would be an induction; it is proved by the smallest
place where the two differ, which the library's theorem on the well-foundedness of the
naturals provides.

**ServerProofs** is about the two modules of the server. `FloodsAreShed` (`WindowBound`)
and `NoEarlyRefusal` (`RefusedOnlyWhenExceeded`) hold for every burst, rate and
behaviour of the clock. The inductive invariant `BucketInv` says what each open window
has left (`WindowLeft`: admitted cost plus remaining tokens are within burst plus
refill) and that the bucket is full or exact for the window since it was last full
(`BucketExact`). `PacedClientsPass` shows that a connection within its rate in real time
is not refused when the clock is never set, so the clock is the only flaw.

The inductive invariant of `BroadcastHub` says that no place of the loop's window, not
even one behind the shrunken list, holds a deleted handler (`Pointers`), that a handler
is deleted only after its socket was closed, that the list is exact (`ListIsExact`), and
that as long as no write has failed the window is the list as it was, with the clients
before the iterator written to once and those behind it not at all (`Progress`).

`LossStaysBounded` is about broadcasts in which writes do fail. `LossInv` balances the
window: the list and the failures make up the length it had (`size + failures = last`),
and at most one client for each failure has come to lie before the iterator without its
message (`Passed`). A client can only be found a second time behind the end of the
shrunken list, where everything that is still open is the list's last entry (`Stale`,
`RepeatsFromStale`, `OneRepeats`).

**TrackingProofs.** `ImplementsLifecycle` proves that every step of every session is a
step of `OrderLifecycle` with replays or leaves it unchanged; that no stage is skipped
follows. A write happens because of a screen, a message or a
half-finished handler, so the argument is one of provenance: the inductive invariant
`StageInv` is `TypeOK` and `NothingInvented`, which says that each of those copies holds
a status that the order has held. `ReviewsAreSound` needs, besides, that a review in
flight is already in the table, which is why `ReviewsAreEarned` says so.

Both theorems on how far replays go start from what messages can say (`KnownInv`):
dashboards only send that they confirmed or shipped, windows that an order was delivered
or reviewed (`News`). `CancelledOrdersStay` adds that an order nobody confirmed is not
named in any message, which is provenance again, so only a dashboard's button could move
it. `ShippingComesBack` is about the order of messages. Its invariant `Orderly` says that
in every queue the shipping of a shipped order comes behind each of its confirmations, or
is still to be sent by the dashboard (`ShippingFollows`), that who is offline has sent and
received nothing and, if that is the dashboard, nobody was told of a confirmation
(`NewIsSilent`), and the property itself (`Restored`). `ConfirmedOnce` is what makes it
inductive: an order is not confirmed a second time after it was shipped. Three
assumptions are used: one dashboard, as two send on different connections; no connection
has broken, as a queue may then lose its end; and queues are FIFO, as TCP connections are.

`LocalOrdersAreCanonical` is proved for one dashboard, no server and no wallet orders.
Its invariant `LocalInv` says that an order for which the dashboard offers a button is
in the stage the list shows, unless the running handler is just moving it
(`BoardIsCurrent`), and that a customer's page, however late, only offers a delivery
that is due or has already happened (`PageIsLate`). Both assumptions are needed: with a
second dashboard a list may be behind by a stage, and a refused payment cancels an order
that a dashboard may already have listed.

**AccountsProofs.** `StaleIdsSafe` and `LoginsFindOwners` rest on one inductive
invariant, `Identity`: `TypeOK`, `RefsMeant` (the id of each reference was given out,
and its row, if it is still there, belongs to the person meant) and `LoginFindsOwner`.
The properties alone are not inductive: a login that is about to re-hash must be known
to be that of the row's owner, and an id that was deleted must be known never to return.
`Vetting` adds what `RightRoles` needs: every approved restaurant, and with it every
food, order, dashboard and running handler, is one that the admin approved.
`OrphansNever` needs the types alone.

**FirstStartProofs.** `SchemasAreComplete` follows from `Migration`, which says how much
of the schema a process that is at a given statement can rely on (`Migrated`).
`SeedingsAreWhole` and `SeededOnceEach` follow from `Seeding`, whose core `Behind` says
that everything before the statement a process is at has been inserted, by it or by
another one: this is what lets an insert fail harmlessly. Both are proved for any script
in which every lookup comes after its insert.

**TransactionsProofs.** `FileStaysWhole` (no call is half in the file),
`RefusalsAreFinal`, `TrueAnswersAreStored` and `StoredInOrder` rest on one invariant. It
says that only an open transaction holds the lock (`Locks`), that the draft of a running
call is the file and that call's own statements (`OwnDraft`), that the file holds whole
calls that answered true (`FileOk`), and that a transaction nobody runs is one whose
`COMMIT` failed (`Stuck`). `ImplementsAtomicStore` maps each step to a call that is
performed, refused or forgotten, or to a stutter.

**ShoppingProofs.** `OrdersGoToCooks` needs that for the restaurant on *any* line of a
cart there is a dish of that restaurant in the same cart (`CartBacked`): ordering again
relabels lines, but it puts back the whole order, with the dish that was its
restaurant's own. `PricesAreGenuine` needs the same of menus, and `PortionsOrderedOnce`
that what a running checkout has stored is still what the cart holds (`Jobs`).

**WindowsProofs** is about `Dashboard` and `RestaurantList`. `UpdatesAreMirroredInOrder`
is inductive with the types, because a button's handler never starts while a box is open
or a load is due (`WindowInv`). `MissedOrdersArePaidFor` and the action property
`FreshBoxesHaveNews` need that no more orders are counted or listed than are known, that
a known order leaves the list only by being deleted, and that with no box open the count
is that of the list (`KnownInv`); the rest is a fact on cardinalities (`WithoutShared`).

`ListsKeepTheirFilter` follows a row to wherever it can be, in an answer, a handler, the
cache or a list, and shows that it was approved (`RowsWereApproved`).
`QuietAnswersAreExact` needs that an answer which no change came after is part of the
catalogue as long as it is under way (`AnswersAreOfTheirTime`), that whoever stores
alone really is the only one and finds nothing in the cache but that answer
(`AloneIsAlone`), and that between its two queries a list is the catalogue's part
(`FreshlyDrawn`): then the second query adds nothing.

Two models that share a proof module share its names, which is why those of
`ConnectionGuards` and `Dashboard` carry a prefix (`GuardsSpec`, `DashboardTypeOK`).

Only model-checked: liveness (`WalletOrderSettles`, `LinesAreRead`,
`NewOrdersAreShown`), which needs fairness and `ENABLED`. The inductive invariants were
checked by TLC on the instances of the runs before they were proved.

## 5. Not modelled

Presentation, value types and scripts keep no state a property could be about.
The arithmetic of doubles and of PBKDF2 is out of reach: the first is replaced by
integers, the second by whose password a string verifies. Of the coupons, creation
and the admin's table are left out (Ordering lets a toggle set either value); of the order
status, two windows that share a process; of the start-up, the command line, files or ports
that cannot be opened, and statements of `createTables` that fail for another reason than a
key or column that is there (the client goes on, `src/src/client/main.cpp:43`; the server
stops).
