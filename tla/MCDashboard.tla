---------------------------- MODULE MCDashboard ----------------------------
(***************************************************************************)
(* An instance of Dashboard.  The orders are interchangeable in the safety *)
(* properties, but liveness is checked too: no symmetry.                   *)
(***************************************************************************)
EXTENDS Dashboard

CONSTANTS o1, o2, o3

ThreeOrders == {o1, o2, o3}
=============================================================================
