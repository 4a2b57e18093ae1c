------------------------- MODULE MCConnectionGuards -------------------------
(***************************************************************************)
(* A bucket of two requests that regains one every two milliseconds, under *)
(* a clock that may be set.                                                *)
(***************************************************************************)
EXTENDS ConnectionGuards

\* Both directions: set back to the beginning, and far ahead.
BackOrAhead == {0, 6}
=============================================================================
