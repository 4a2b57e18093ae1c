--------------------------- MODULE OrderLifecycle ---------------------------
(***************************************************************************)
(* What the status updates promise about an order, seen as one machine:    *)
(* src/docs/PROTOCOL.md:64 "pending -> confirmed -> shipped -> delivered", *)
(* with "cancelled" for an order whose payment was refused                 *)
(* (PROTOCOL.md:83-85).  `reached` remembers the stages an order has been  *)
(* in.  Replays says whether an order may fall back to a stage it has left *)
(* (a mirrored update that arrives late); without it this is the           *)
(* documented machine.                                                     *)
(***************************************************************************)
CONSTANTS Orders, Replays

VARIABLES status, reached

vars == <<status, reached>>

Stages == {"pending", "confirmed", "shipped", "delivered", "cancelled"}

\* The stage an order must have been in before it can enter s.
Before == [s \in Stages |->
             CASE s = "pending"   -> "none"
               [] s = "confirmed" -> "pending"
               [] s = "shipped"   -> "confirmed"
               [] s = "delivered" -> "shipped"
               [] s = "cancelled" -> "pending"]

Init ==
  /\ status = [o \in Orders |-> "none"]
  /\ reached = [o \in Orders |-> {}]

Enter(o, s) ==
  /\ status' = [status EXCEPT ![o] = s]
  /\ reached' = [reached EXCEPT ![o] = @ \cup {s}]

\* One stage further, from the stage the order is in.
Advance(o) == \E s \in Stages : status[o] = Before[s] /\ Enter(o, s)

\* Back to a stage it has been in, or one further than one of those.
Replay(o) ==
  /\ Replays
  /\ \E s \in Stages : (s \in reached[o] \/ Before[s] \in reached[o]) /\ Enter(o, s)

Next == \E o \in Orders : Advance(o) \/ Replay(o)

Spec == Init /\ [][Next]_vars
=============================================================================
