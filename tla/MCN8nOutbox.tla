---------------------------- MODULE MCN8nOutbox ----------------------------
(***************************************************************************)
(* Instances of N8nOutbox for TLC: all events belong to one thread, since  *)
(* threads share nothing but the processes.                                *)
(***************************************************************************)
EXTENDS N8nOutbox

CONSTANT t1

OneThread == [e \in Events |-> t1]
=============================================================================
