---------------------------- MODULE BroadcastHub ----------------------------
(***************************************************************************)
(* The server's list of connections and a broadcast over it (server.cpp,   *)
(* connectionhandler.cpp:11-36 and 84-88).                                 *)
(*                                                                         *)
(* broadcastExcept walks over m_clients with the begin and end its range-  *)
(* for has taken once.  Writing to a peer that is gone makes the socket    *)
(* abort, which emits disconnected() inside the loop: onDisconnected runs, *)
(* removeAll moves the pointers behind the removed one down by a slot, and *)
(* the loop goes on to the old end.  The handler itself is deleted later,  *)
(* by the event loop.  The server is single threaded: a broadcast runs to  *)
(* its end, but peers come, go and break at any time.                      *)
(***************************************************************************)
EXTENDS Naturals, FiniteSets

CONSTANTS
  Handlers,  \* connections, each accepted at most once
  NoOne,
  Capacity   \* bound: how many of them are open at a time

HubAssumption == NoOne \notin Handlers /\ Capacity \in Nat
ASSUME HubAssumption

VARIABLES
  slots,     \* the memory of m_clients: its pointers, and what is left behind its end
  size,      \* m_clients.size()
  socket,    \* "none", "connected", "broken" (the peer is gone and the server has
             \* not noticed) or "closed"
  doomed,    \* handlers that deleteLater() was called for
  deleted,   \* handlers that are deleted
  origin,    \* the client whose message is being broadcast, or NoOne
  at, last,  \* the loop's position and the end it has taken
  sent,      \* history: how often the message was written to each client
  failures,  \* history: how many writes of this broadcast have failed
  audience   \* history: who was connected when it began

list    == <<slots, size, socket, doomed>>
loop    == <<origin, at, last>>
history == <<sent, failures, audience>>
vars    == <<slots, size, socket, doomed, deleted, origin, at, last, sent, failures, audience>>

Init ==
  /\ slots = [i \in 1..Capacity |-> NoOne]
  /\ size = 0
  /\ socket = [h \in Handlers |-> "none"]
  /\ doomed = {}
  /\ deleted = {}
  /\ origin = NoOne
  /\ at = 1
  /\ last = 0
  /\ sent = [h \in Handlers |-> 0]
  /\ failures = 0
  /\ audience = {}

Idle == origin = NoOne

\* A handler is in the list as long as its socket is not closed.
Open(h) == socket[h] \in {"connected", "broken"}

\* m_clients.append
IncomingConnection(h) ==
  /\ Idle
  /\ socket[h] = "none"
  /\ size < Capacity
  /\ socket' = [socket EXCEPT ![h] = "connected"]
  /\ slots' = [i \in 1..Capacity |-> IF i <= size THEN slots[i]
                                    ELSE IF i = size + 1 THEN h ELSE NoOne]
  /\ size' = size + 1
  /\ UNCHANGED <<doomed, deleted, loop, history>>

\* The peer is gone; the server will hear of it from the event loop or from a write.
PeerBreaks(h) ==
  /\ socket[h] = "connected"
  /\ socket' = [socket EXCEPT ![h] = "broken"]
  /\ UNCHANGED <<slots, size, doomed, deleted, loop, history>>

\* The wrong pointer is taken out.
RemoveAll_Last(h) ==
  /\ UNCHANGED slots
  /\ size' = size - 1

\* m_clients.removeAll: if h is in the list, the pointers behind it move down, and the slot
\* behind the new end keeps what it had.
RemoveAll(h) ==
  /\ slots' = [i \in 1..Capacity |->
                 IF i < size /\ \E p \in 1..i : slots[p] = h THEN slots[i + 1] ELSE slots[i]]
  /\ size' = size - 1

\* `delete handler` in the slot.
OnDisconnected_DeletedAtOnce(h) ==
  /\ RemoveAll(h)
  /\ socket' = [socket EXCEPT ![h] = "closed"]
  /\ deleted' = deleted \cup {h}
  /\ UNCHANGED doomed

\* ConnectionHandler::onDisconnected and Server::onClientDisconnected
OnDisconnected(h) ==
  /\ RemoveAll(h)
  /\ socket' = [socket EXCEPT ![h] = "closed"]
  /\ doomed' = doomed \cup {h}
  /\ UNCHANGED deleted

\* The event loop tells of a peer that has closed its connection or is gone.
PeerCloses(h) ==
  /\ Idle
  /\ Open(h)
  /\ OnDisconnected(h)
  /\ UNCHANGED <<loop, history>>

DeleteLater(h) ==
  /\ Idle
  /\ h \in doomed
  /\ deleted' = deleted \cup {h}
  /\ doomed' = doomed \ {h}
  /\ UNCHANGED <<slots, size, socket, loop, history>>

\* The range-for takes begin and end; the clients in the list are those with an open
\* socket.
StartLoop(h) ==
  /\ origin' = h
  /\ at' = 1
  /\ last' = size'
  /\ audience' = { c \in Handlers : socket'[c] \in {"connected", "broken"} } \ {h}
  /\ UNCHANGED <<sent, failures>>

\* A chat message, an order notification or a status update whose reply was written.
Broadcast(h) ==
  /\ Idle
  /\ Open(h)
  /\ UNCHANGED <<list, deleted>>
  /\ StartLoop(h)

\* The reply to update_order_status fails, which removes the sender's own handler
\* before orderStatusChanged is emitted.
BroadcastAfterFailedReply(h) ==
  /\ Idle
  /\ socket[h] = "broken"
  /\ OnDisconnected(h)
  /\ StartLoop(h)

Current == slots[at]
Looping == ~Idle /\ at <= last

\* The sender itself, and a socket that is not connected any more (sendJson returns).
SkipClient ==
  /\ Looping
  /\ Current = origin \/ ~Open(Current)
  /\ at' = at + 1
  /\ UNCHANGED <<list, deleted, origin, last, history>>

\* A write succeeds, also one to a peer that is already gone.
SendJson ==
  /\ Looping
  /\ Current # origin /\ Open(Current)
  /\ sent' = [sent EXCEPT ![Current] = @ + 1]
  /\ at' = at + 1
  /\ UNCHANGED <<list, deleted, origin, last, failures, audience>>

\* After a removal the loop starts over, so as to miss nobody.
SendJsonFails_Restarts ==
  /\ Looping
  /\ Current # origin /\ socket[Current] = "broken"
  /\ OnDisconnected(Current)
  /\ failures' = failures + 1
  /\ at' = 1
  /\ last' = size'
  /\ UNCHANGED <<origin, sent, audience>>

\* It fails: the socket aborts and disconnected() arrives inside the loop.
SendJsonFails ==
  /\ Looping
  /\ Current # origin /\ socket[Current] = "broken"
  /\ OnDisconnected(Current)
  /\ failures' = failures + 1
  /\ at' = at + 1
  /\ UNCHANGED <<origin, last, sent, audience>>

EndBroadcast ==
  /\ ~Idle /\ at > last
  /\ origin' = NoOne
  /\ at' = 1
  /\ last' = 0
  /\ sent' = [h \in Handlers |-> 0]
  /\ failures' = 0
  /\ audience' = {}
  /\ UNCHANGED <<list, deleted>>

Next ==
  \/ \E h \in Handlers :
       \/ IncomingConnection(h) \/ PeerBreaks(h) \/ PeerCloses(h) \/ DeleteLater(h)
       \/ Broadcast(h) \/ BroadcastAfterFailedReply(h)
  \/ SkipClient \/ SendJson \/ SendJsonFails \/ EndBroadcast

Spec == Init /\ [][Next]_vars
-----------------------------------------------------------------------------
TypeOK ==
  /\ slots \in [1..Capacity -> Handlers \cup {NoOne}]
  /\ size \in 0..Capacity
  /\ socket \in [Handlers -> {"none", "connected", "broken", "closed"}]
  /\ doomed \subseteq Handlers
  /\ deleted \subseteq Handlers
  /\ origin \in Handlers \cup {NoOne}
  /\ at \in Nat \ {0}
  /\ last \in 0..Capacity
  /\ sent \in [Handlers -> Nat]
  /\ failures \in Nat
  /\ audience \subseteq Handlers

\* However the list shrinks under a broadcast, none of the pointers the loop has still
\* to follow is one to a deleted handler, and none in the list is.
NoDanglingPointer ==
  /\ \A i \in 1..size : slots[i] \notin deleted
  /\ ~Idle => \A i \in at..last : slots[i] \notin deleted

\* The list is exactly the open connections, each of them once: nobody is forgotten by
\* all later broadcasts, and nobody hears everything twice.
ListIsExact ==
  /\ \A h \in Handlers : Open(h) <=> \E i \in 1..size : slots[i] = h
  /\ \A i, j \in 1..size : slots[i] = slots[j] => i = j

\* A broadcast in which no write fails reaches every other client once (server.h:11
\* "broadcast to every other connected client"), and the sender never.
QuietBroadcastReachesAll ==
  ~Idle /\ at > last =>
    /\ sent[origin] = 0
    /\ failures = 0 => \A c \in audience : sent[c] = 1

\* A failed write costs at most one client the message and repeats it at most once for
\* another one.
Missed == { c \in audience : Open(c) /\ sent[c] = 0 }
Repeated == { c \in audience : sent[c] > 1 }
LossIsBounded ==
  ~Idle /\ at > last =>
    /\ Cardinality(Missed) <= failures
    /\ Cardinality(Repeated) <= failures
    /\ \A c \in audience : sent[c] <= 1 + failures

=============================================================================
