--------------------------- MODULE RestaurantList ---------------------------
(***************************************************************************)
(* The list of restaurants a customer is shown (restaurantlistdialog.cpp,  *)
(* restaurantmodel.cpp).  It is drawn twice: from the shared file at once, *)
(* and again when the server's answer has been stored in the table         *)
(* `restaurants`.  That table belongs to all processes, is emptied and     *)
(* refilled statement by statement, keeps what it holds when nobody asks,  *)
(* and is read behind the catalogue: rows it adds are shown as well.       *)
(*                                                                         *)
(* An answer is to an earlier list's question as soon as a list is closed  *)
(* before its own answer has come, and is stored all the same.             *)
(***************************************************************************)
EXTENDS Integers, FiniteSets, Sequences

CONSTANTS
  Restaurants,   \* ids of restaurants
  Places,        \* a name with a location: what appendUnique compares
  Types,         \* restaurant_type
  Clients,       \* customer windows, each of a process and a customer of its own
  Filters,       \* what a client may ask for: sets of profiles
  Bookmarkable,  \* bound: restaurants whose menu a client opens from the list; a
                 \* client without any does not use the favorites
  FirstProfile,  \* the catalogue at the start
  FirstListed,   \* and which restaurants in it may be approved
  Faults,        \* whether statements on the cache may fail
  MaxChanges,    \* bound: changes of the catalogue
  MaxQueue       \* bound: questions and answers under way of each client

Profile == [place : Places, type : Types]
Row == [id : Restaurants, profile : Profile]

ListAssumption ==
  /\ Restaurants \subseteq Nat /\ IsFiniteSet(Restaurants)
  /\ Filters \in [Clients -> SUBSET SUBSET Profile]
  /\ Bookmarkable \in [Clients -> SUBSET Restaurants]
  /\ FirstProfile \in [Restaurants -> Profile]
  /\ Faults \in BOOLEAN
  /\ FirstListed \subseteq SUBSET Restaurants
  /\ MaxChanges \in Nat /\ MaxQueue \in [Clients -> Nat \ {0}]
ASSUME ListAssumption

VARIABLES
  profile,    \* name, location and type of the rows of `users`
  standing,   \* "approved", "waiting" or "deleted"
  cache,      \* the rows of `restaurants`
  favorites,  \* the restaurants in a customer's rows of `favorites`
  dialog,     \* the open RestaurantListDialog of a client, at most one
  menu,       \* and the restaurant of the MenuDialog above it, at most one
  shown,      \* m_restaurants
  step,       \* what a client's handler is in the middle of
  storing,    \* the answer it stores
  connected,  \* the client's socket
  asked,      \* get_restaurants commands the server has not read
  answers,    \* its answers the client has not read
  changes,    \* history: changes of the catalogue so far
  approved    \* history: the rows that a list could have from the catalogue

catalogue == <<profile, standing, changes, approved>>
window == <<favorites, dialog, menu>>
handler == <<shown, step, storing>>
wire == <<connected, asked, answers>>
vars == <<catalogue, cache, window, handler, wire>>

\* alone: nobody else has been storing an answer since this one was begun.
Nothing == [left |-> {}, asOf |-> 0, alone |-> FALSE]

\* "opening" and "toggling": the catalogue's rows are shown, the cache is still to
\* be read; "storing": the answer's rows are being inserted; "answered": as opening.
Steps == {"idle", "opening", "toggling", "storing", "answered"}

RowOf(r) == [id |-> r, profile |-> profile[r]]
Catalogue == {RowOf(r) : r \in {q \in Restaurants : standing[q] = "approved"}}

Init ==
  /\ profile = FirstProfile
  /\ \E l \in FirstListed :
       standing = [r \in Restaurants |-> IF r \in l THEN "approved" ELSE "waiting"]
  /\ cache = {}
  /\ favorites = [c \in Clients |-> {}]
  /\ dialog = [c \in Clients |-> {}]
  /\ menu = [c \in Clients |-> {}]
  /\ shown = [c \in Clients |-> {}]
  /\ step = [c \in Clients |-> "idle"]
  /\ storing = [c \in Clients |-> Nothing]
  /\ connected = [c \in Clients |-> FALSE]
  /\ asked = [c \in Clients |-> <<>>]
  /\ answers = [c \in Clients |-> <<>>]
  /\ changes = 0
  /\ approved = Catalogue

-----------------------------------------------------------------------------
(* The catalogue: other windows and the administrator.                     *)

Change(r) ==
  /\ standing[r] # "deleted"
  /\ changes < MaxChanges
  /\ changes' = changes + 1
  /\ approved' = approved \cup Catalogue'
  /\ UNCHANGED <<cache, window, handler, wire>>

ApproveRestaurant(r) ==
  /\ standing[r] = "waiting"
  /\ standing' = [standing EXCEPT ![r] = "approved"]
  /\ UNCHANGED profile
  /\ Change(r)

DisapproveRestaurant(r) ==
  /\ standing[r] = "approved"
  /\ standing' = [standing EXCEPT ![r] = "waiting"]
  /\ UNCHANGED profile
  /\ Change(r)

DeleteUser(r) ==
  /\ standing' = [standing EXCEPT ![r] = "deleted"]
  /\ UNCHANGED profile
  /\ Change(r)

\* saveProfileToDB of the restaurant's window.
UpdateRestaurantDetails(r, p) ==
  /\ profile[r] # p
  /\ profile' = [profile EXCEPT ![r] = p]
  /\ UNCHANGED standing
  /\ Change(r)

-----------------------------------------------------------------------------
(* populateModelFromDb: the catalogue's rows, then those of the cache.     *)

\* The WHERE clause both queries share.  No ids at all mean no restriction.
Wanted(c, d, row) ==
  /\ row.profile \in d.filter
  /\ d.favOnly /\ favorites[c] # {} => row.id \in favorites[c]

GetAllRestaurants(c, d) == {row \in Catalogue : Wanted(c, d, row)}

\* Mutation: the cached rows are taken to be those that were asked for.
GetCachedRestaurants_Unfiltered(c, d) ==
  {row \in cache : d.favOnly /\ favorites[c] # {} => row.id \in favorites[c]}

GetCachedRestaurants(c, d) == {row \in cache : Wanted(c, d, row)}

\* appendUnique: in the order of their ids, rows whose name and location are not
\* listed yet.
AppendUnique(list, more) ==
  list \cup {row \in more :
               /\ \A x \in list : x.profile.place # row.profile.place
               /\ \A x \in more : x.id < row.id => x.profile.place # row.profile.place}

\* The first query, at the end of a handler's step that leads to s.
DrawCatalogue(c, d, s) ==
  /\ shown' = [shown EXCEPT ![c] = GetAllRestaurants(c, d)]
  /\ step' = [step EXCEPT ![c] = s]

\* The second one.  The constructor goes on to ask the server.
DrawCache(c) ==
  /\ step[c] \in {"opening", "toggling", "answered"}
  /\ \E d \in dialog[c] :
       /\ shown' = [shown EXCEPT ![c] = AppendUnique(@, GetCachedRestaurants(c, d))]
       /\ asked' = IF step[c] = "opening" /\ connected[c]
                     THEN [asked EXCEPT ![c] = Append(@, d.filter)]
                     ELSE asked
  /\ step' = [step EXCEPT ![c] = "idle"]
  /\ storing' = [storing EXCEPT ![c] = Nothing]
  /\ UNCHANGED <<catalogue, cache, window, connected, answers>>

-----------------------------------------------------------------------------
(* The customer.                                                           *)

OpenList(c, f) ==
  LET d == [filter |-> f, favOnly |-> FALSE]
  IN  /\ step[c] = "idle" /\ dialog[c] = {}
      /\ Len(asked[c]) + Len(answers[c]) < MaxQueue[c]
      /\ dialog' = [dialog EXCEPT ![c] = {d}]
      /\ DrawCatalogue(c, d, "opening")
      /\ UNCHANGED <<catalogue, cache, favorites, menu, storing, wire>>

\* The check box above the list.
ToggleFavOnly(c) ==
  /\ step[c] = "idle" /\ menu[c] = {} /\ Bookmarkable[c] # {}
  /\ \E old \in dialog[c] :
       LET d == [old EXCEPT !.favOnly = ~@]
       IN  /\ dialog' = [dialog EXCEPT ![c] = {d}]
           /\ DrawCatalogue(c, d, "toggling")
  /\ UNCHANGED <<catalogue, cache, favorites, menu, storing, wire>>

OnRestaurantItemClicked(c, row) ==
  /\ step[c] = "idle" /\ dialog[c] # {} /\ menu[c] = {}
  /\ row \in shown[c] /\ row.id \in Bookmarkable[c]
  /\ menu' = [menu EXCEPT ![c] = {row.id}]
  /\ UNCHANGED <<catalogue, cache, favorites, dialog, handler, wire>>

\* toggleFavorite: the list below the menu is not drawn again.
ToggleFavorite(c) ==
  /\ step[c] = "idle" /\ menu[c] # {}
  /\ favorites' = [favorites EXCEPT ![c] = (@ \ menu[c]) \cup (menu[c] \ @)]
  /\ UNCHANGED <<catalogue, cache, dialog, menu, handler, wire>>

CloseMenu(c) ==
  /\ step[c] = "idle" /\ menu[c] # {}
  /\ menu' = [menu EXCEPT ![c] = {}]
  /\ UNCHANGED <<catalogue, cache, favorites, dialog, handler, wire>>

CloseList(c) ==
  /\ step[c] = "idle" /\ dialog[c] # {} /\ menu[c] = {}
  /\ dialog' = [dialog EXCEPT ![c] = {}]
  /\ shown' = [shown EXCEPT ![c] = {}]
  /\ UNCHANGED <<catalogue, cache, favorites, menu, step, storing, wire>>

-----------------------------------------------------------------------------
(* The server and its answers.                                             *)

\* The server's handler of get_restaurants.
GetRestaurants(c) ==
  LET found == {row \in Catalogue : row.profile \in Head(asked[c])}
  IN  /\ asked[c] # <<>>
      /\ asked' = [asked EXCEPT ![c] = Tail(@)]
      /\ answers' = [answers EXCEPT ![c] = Append(@, [rows |-> found, asOf |-> changes])]
      /\ UNCHANGED <<catalogue, cache, window, handler, connected>>

\* The answer c is about to read begins to be stored.
BeginStoring(c, alone) ==
  /\ step' = [step EXCEPT ![c] = "storing"]
  /\ storing' = [q \in Clients |->
       IF q = c THEN [left  |-> Head(answers[c]).rows,
                      asOf  |-> Head(answers[c]).asOf,
                      alone |-> alone]
       ELSE [storing[q] EXCEPT !.alone = FALSE]]
  /\ answers' = [answers EXCEPT ![c] = Tail(@)]
  /\ UNCHANGED <<catalogue, window, shown, connected, asked>>

Receives(c) == step[c] = "idle" /\ answers[c] # <<>> /\ dialog[c] # {}

Storing(q) == step[q] \in {"storing", "answered"}

\* Mutation: the cache is only ever added to.
OnRestaurantsReceived_KeepsRows(c) ==
  /\ Receives(c)
  /\ BeginStoring(c, \A q \in Clients : ~Storing(q))
  /\ UNCHANGED cache

\* onRestaurantsReceived begins: clearRestaurantsTable.
OnRestaurantsReceived(c) ==
  /\ Receives(c)
  /\ BeginStoring(c, \A q \in Clients : ~Storing(q))
  /\ cache' = {}

\* It fails; the result is ignored and old rows remain.
OnRestaurantsReceivedFails(c) ==
  /\ Faults
  /\ Receives(c)
  /\ BeginStoring(c, FALSE)
  /\ UNCHANGED cache

\* Nobody listens when no list is open.
AnswerIgnored(c) ==
  /\ step[c] = "idle" /\ answers[c] # <<>> /\ dialog[c] = {}
  /\ answers' = [answers EXCEPT ![c] = Tail(@)]
  /\ UNCHANGED <<catalogue, cache, window, handler, connected, asked>>

Stored(c, row) ==
  /\ step[c] = "storing" /\ row \in storing[c].left
  /\ storing' = [storing EXCEPT ![c].left = @ \ {row}]
  /\ UNCHANGED <<catalogue, window, shown, step, wire>>

\* INSERT OR REPLACE, by id.
AddRestaurant(c, row) ==
  /\ Stored(c, row)
  /\ cache' = {x \in cache : x.id # row.id} \cup {row}

AddRestaurantFails(c, row) ==
  /\ Faults
  /\ Stored(c, row)
  /\ UNCHANGED cache

\* All rows are stored: the list is drawn again.
DrawAnswer(c) ==
  /\ step[c] = "storing" /\ storing[c].left = {}
  /\ \E d \in dialog[c] : DrawCatalogue(c, d, "answered")
  /\ UNCHANGED <<catalogue, cache, window, storing, wire>>

-----------------------------------------------------------------------------
(* Connections and processes.                                              *)

Connect(c) ==
  /\ ~connected[c]
  /\ connected' = [connected EXCEPT ![c] = TRUE]
  /\ UNCHANGED <<catalogue, cache, window, handler, asked, answers>>

\* Whatever is under way is lost.
Lose(c) ==
  /\ connected' = [connected EXCEPT ![c] = FALSE]
  /\ asked' = [asked EXCEPT ![c] = <<>>]
  /\ answers' = [answers EXCEPT ![c] = <<>>]

Disconnect(c) ==
  /\ connected[c]
  /\ Lose(c)
  /\ UNCHANGED <<catalogue, cache, window, handler>>

\* The process ends anywhere, in the middle of an answer too, and is started again.
Restart(c) ==
  /\ dialog[c] # {}
  /\ Lose(c)
  /\ dialog' = [dialog EXCEPT ![c] = {}]
  /\ menu' = [menu EXCEPT ![c] = {}]
  /\ shown' = [shown EXCEPT ![c] = {}]
  /\ step' = [step EXCEPT ![c] = "idle"]
  /\ storing' = [storing EXCEPT ![c] = Nothing]
  /\ UNCHANGED <<catalogue, cache, favorites>>

-----------------------------------------------------------------------------

ChangeCatalogue(r) ==
  \/ ApproveRestaurant(r) \/ DisapproveRestaurant(r) \/ DeleteUser(r)
  \/ \E p \in Profile : UpdateRestaurantDetails(r, p)

Customer(c) ==
  \/ \E f \in Filters[c] : OpenList(c, f)
  \/ \E row \in Row : OnRestaurantItemClicked(c, row)
  \/ ToggleFavOnly(c) \/ ToggleFavorite(c) \/ CloseMenu(c) \/ CloseList(c)

\* The socket and the rest of the handlers.
Handle(c) ==
  \/ OnRestaurantsReceived(c) \/ OnRestaurantsReceivedFails(c) \/ AnswerIgnored(c)
  \/ \E row \in storing[c].left : AddRestaurant(c, row) \/ AddRestaurantFails(c, row)
  \/ DrawAnswer(c) \/ DrawCache(c)

Next ==
  \/ \E r \in Restaurants : ChangeCatalogue(r)
  \/ \E c \in Clients :
       \/ Customer(c) \/ Handle(c) \/ GetRestaurants(c)
       \/ Connect(c) \/ Disconnect(c) \/ Restart(c)

Spec == Init /\ [][Next]_vars

-----------------------------------------------------------------------------
(* What the customer and the administrator rely on.                        *)

TypeOK ==
  /\ profile \in [Restaurants -> Profile]
  /\ standing \in [Restaurants -> {"approved", "waiting", "deleted"}]
  /\ cache \subseteq Row
  /\ favorites \in [Clients -> SUBSET Restaurants]
  /\ dialog \in [Clients -> SUBSET [filter : SUBSET Profile, favOnly : BOOLEAN]]
  /\ menu \in [Clients -> SUBSET Restaurants]
  /\ shown \in [Clients -> SUBSET Row]
  /\ step \in [Clients -> Steps]
  /\ storing \in [Clients -> [left : SUBSET Row, asOf : Nat, alone : BOOLEAN]]
  /\ connected \in [Clients -> BOOLEAN]
  /\ asked \in [Clients -> Seq(SUBSET Profile)]
  /\ answers \in [Clients -> Seq([rows : SUBSET Row, asOf : Nat])]
  /\ changes \in Nat
  /\ approved \subseteq Row

\* Whatever answers come, to this list's question or to an earlier one's, and
\* whoever stores others at that moment: a list holds restaurants that match its own
\* filter only, with a name, place and type under which they were once approved.
ListKeepsItsFilter ==
  \A c \in Clients : \A row \in shown[c] :
    row \in approved /\ \A d \in dialog[c] : row.profile \in d.filter

\* The restaurants a list should have, each of them once.
Proper(c, d) ==
  {row \in Catalogue : row.profile \in d.filter /\ (d.favOnly => row.id \in favorites[c])}

\* A list drawn from an answer is the catalogue: nobody who lost the approval, was
\* deleted, or has moved is left on it, if nothing changed since the server
\* answered and no other client was storing an answer meanwhile.  Not so for the
\* favorites of a customer who has none, who is shown everybody.
QuietAnswerIsExact ==
  [][\A c \in Clients : \A d \in dialog'[c] :
       /\ step[c] = "answered" /\ step'[c] = "idle"
       /\ storing[c].alone /\ storing[c].asOf = changes
       /\ d.favOnly => favorites[c] # {}
       => shown'[c] = Proper(c, d)]_vars
=============================================================================
