--------------------------- MODULE CycleAssignment ---------------------------
(***************************************************************************)
(* What the assignment protocol promises of conversation cycles, without   *)
(* workers, attempts, queue rows or HubSpot: a cycle of a ticket is queued *)
(* once, held by one owner at a time from then on, and closed for good,    *)
(* and a ticket never has two active cycles.                               *)
(***************************************************************************)
EXTENDS Naturals

CONSTANTS Cycles, TicketOf, Owners, NoHolder

VARIABLES
    state,        \* "none", "queued", "assigned" or "closed"
    holder        \* the owner that holds each assigned cycle

vars == <<state, holder>>

SameTicket(c) == {d \in Cycles : TicketOf[d] = TicketOf[c] /\ state[d] # "none"}
Active(c) == state[c] \in {"queued", "assigned"}

Init ==
    /\ state = [c \in Cycles |-> "none"]
    /\ holder = [c \in Cycles |-> NoHolder]

(* Only the newest known entry of a ticket opens, after the others closed. *)
Open(c) ==
    /\ state[c] = "none"
    /\ \A d \in SameTicket(c) : d < c /\ ~Active(d)
    /\ state' = [state EXCEPT ![c] = "queued"]
    /\ UNCHANGED holder

Assign(c, o) ==
    /\ state[c] = "queued"
    /\ state' = [state EXCEPT ![c] = "assigned"]
    /\ holder' = [holder EXCEPT ![c] = o]

Reassign(c, o) ==
    /\ state[c] = "assigned"
    /\ holder' = [holder EXCEPT ![c] = o]
    /\ UNCHANGED state

Close(c) ==
    /\ Active(c)
    /\ state' = [state EXCEPT ![c] = "closed"]
    /\ holder' = [holder EXCEPT ![c] = NoHolder]

Next == \E c \in Cycles :
    \/ Open(c)
    \/ Close(c)
    \/ \E o \in Owners : Assign(c, o) \/ Reassign(c, o)

Spec == Init /\ [][Next]_vars
=============================================================================
