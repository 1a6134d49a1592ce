---------------------------- MODULE MCThreadJoin ----------------------------
(***************************************************************************)
(* Model-checking instance of ThreadJoin: two threads that may each call   *)
(* join() or detach() on one Thread object.                                *)
(***************************************************************************)
EXTENDS ThreadJoin

CONSTANTS c1, c2

TwoCallers == {c1, c2}

=============================================================================
