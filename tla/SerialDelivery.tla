--------------------------- MODULE SerialDelivery ---------------------------
(***************************************************************************)
(* What the outbox promises of the messages of a thread, without rows,     *)
(* locks, ages or processes: they are served one at a time; n8n is handed  *)
(* a message only while it is served, perhaps more than once; a message is *)
(* delivered only after n8n has taken it, and for good; and a dead letter  *)
(* is served again only when an operator says so.                          *)
(***************************************************************************)
CONSTANTS Events, ThreadOf

VARIABLES
    phase,        \* "waiting", "served", "delivered" or "dead"
    taken         \* the events that n8n has taken

vars == <<phase, taken>>

Init ==
    /\ phase = [e \in Events |-> "waiting"]
    /\ taken = {}

Serve(e) ==
    /\ phase[e] = "waiting"
    /\ \A f \in Events : ThreadOf[f] = ThreadOf[e] => phase[f] # "served"
    /\ phase' = [phase EXCEPT ![e] = "served"]
    /\ UNCHANGED taken

Take(e) ==
    /\ phase[e] = "served"
    /\ taken' = taken \cup {e}
    /\ UNCHANGED phase

Confirm(e) ==
    /\ phase[e] = "served" /\ e \in taken
    /\ phase' = [phase EXCEPT ![e] = "delivered"]
    /\ UNCHANGED taken

(* The service ends without a confirmation: for good, or for now.           *)
Fail(e) ==
    /\ phase[e] = "served"
    /\ \E p \in {"dead", "waiting"} : phase' = [phase EXCEPT ![e] = p]
    /\ UNCHANGED taken

Replay(e) ==
    /\ phase[e] = "dead"
    /\ phase' = [phase EXCEPT ![e] = "waiting"]
    /\ UNCHANGED taken

Next == \E e \in Events : Serve(e) \/ Take(e) \/ Confirm(e) \/ Fail(e) \/ Replay(e)

Spec == Init /\ [][Next]_vars
=============================================================================
