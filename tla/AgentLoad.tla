------------------------------ MODULE AgentLoad ------------------------------
(***************************************************************************)
(* The counter of an agent's chats with SUPPORT_CAPACITY_MODE=off: who     *)
(* moves it up and down (assignments, closures, owner webhooks, forced     *)
(* reassignments), and who overwrites it with a number read from HubSpot   *)
(* (the matchmaker's load check, the sync of all agents and the hourly     *)
(* recount; apps/support: sat_service.py, agent_sync_service.py, tasks.py, *)
(* queue_service.py, admin_api.py).  HubSpot's search answers from an      *)
(* index that lags behind its tickets.                                     *)
(*                                                                         *)
(* A read of HubSpot that fails leaves the counter alone, as one that was  *)
(* not made.                                                               *)
(***************************************************************************)
EXTENDS Naturals, FiniteSets

CONSTANTS
    Tickets,
    Owners,          \* owners that a ticket can have
    Agents,          \* those of them whose counter is looked at
    Nobody,          \* no owner, or no agent
    MaxEvents        \* bound: changes of owner, assignments, forced reassignments

LoadAssumption ==
    /\ Agents \subseteq Owners /\ Nobody \notin Owners
    /\ MaxEvents \in Nat /\ IsFiniteSet(Tickets)

VARIABLES
    hub,             \* HubSpot: owner of each open ticket
    index,           \* HubSpot: owner of each ticket as its search shows it
    holder,          \* agent of the AssignedConversation of each ticket
    reserved,        \* agent that a reservation of the ticket counts for
    counter,         \* Agent.current_simultaneous_chats
    count,           \* the three overwriters at each agent
    force,           \* one forced reassignment
    events           \* how much of the bound is used

vars == <<hub, index, holder, reserved, counter, count, force, events>>

Overwriters == {"hourly", "sync", "load"}
Uncounted == [pc |-> "idle", local |-> 0, seen |-> 0]
NoForce == [pc |-> "idle", ticket |-> Nobody, from |-> Nobody, to |-> Nobody]

Init ==
    /\ hub = [t \in Tickets |-> Nobody]
    /\ index = hub
    /\ holder = hub
    /\ reserved = hub
    /\ counter = [a \in Agents |-> 0]
    /\ count = [k \in Overwriters |-> [a \in Agents |-> Uncounted]]
    /\ force = NoForce
    /\ events = 0

Event == events < MaxEvents /\ events' = events + 1
Up(c, a) == IF a \notin Agents THEN c ELSE [c EXCEPT ![a] = @ + 1]
Down(c, a) == IF a \notin Agents \/ c[a] = 0 THEN c ELSE [c EXCEPT ![a] = @ - 1]
Holds(owner, a) == Cardinality({t \in Tickets : owner[t] = a})

-----------------------------------------------------------------------------
(* HubSpot: a person edits the owner, or closes the ticket.                 *)
Edit(t, o) ==
    /\ hub[t] # o /\ Event
    /\ hub' = [hub EXCEPT ![t] = o]
    /\ UNCHANGED <<index, holder, reserved, counter, count, force>>

CatchUp(t) ==
    /\ index[t] # hub[t]
    /\ index' = [index EXCEPT ![t] = hub[t]]
    /\ UNCHANGED <<hub, holder, reserved, counter, count, force, events>>

(* The assignment protocol (DurableAssignment): the counter goes up with    *)
(* the reservation, the owner is set, and the assignment recorded.          *)
Reserve(t, a) ==
    /\ holder[t] = Nobody /\ reserved[t] = Nobody /\ Event
    /\ reserved' = [reserved EXCEPT ![t] = a]
    /\ counter' = Up(counter, a)
    /\ UNCHANGED <<hub, index, holder, count, force>>

Assign(t) ==
    /\ reserved[t] # Nobody
    /\ hub' = [hub EXCEPT ![t] = reserved[t]]
    /\ holder' = [holder EXCEPT ![t] = reserved[t]]
    /\ reserved' = [reserved EXCEPT ![t] = Nobody]
    /\ UNCHANGED <<index, counter, count, force, events>>

(* An assigned ticket changes hands, or is closed.                          *)
OwnerWebhook(t) ==
    /\ holder[t] # Nobody /\ hub[t] # holder[t]
    /\ holder' = [holder EXCEPT ![t] = hub[t]]
    /\ counter' = Up(Down(counter, holder[t]), hub[t])
    /\ UNCHANGED <<hub, index, reserved, count, force, events>>

-----------------------------------------------------------------------------
(* _force_reassign_internal: the holder is read before the row is locked,   *)
(* and decremented after HubSpot has taken the new owner.                   *)
ForceRead(t, a) ==
    /\ force.pc = "idle" /\ holder[t] \notin {Nobody, a} /\ Event
    /\ force' = [pc |-> "patch", ticket |-> t, from |-> holder[t], to |-> a]
    /\ UNCHANGED <<hub, index, holder, reserved, counter, count>>

ForcePatch ==
    /\ force.pc = "patch"
    /\ hub' = [hub EXCEPT ![force.ticket] = force.to]
    /\ force' = [force EXCEPT !.pc = "apply"]
    /\ UNCHANGED <<index, holder, reserved, counter, count, events>>

(* An assignment that was closed meanwhile is not found: the call fails.    *)
ForceApply ==
    /\ force.pc = "apply"
    /\ force' = NoForce
    /\ IF holder[force.ticket] = Nobody THEN UNCHANGED <<holder, counter>>
       ELSE /\ holder' = [holder EXCEPT ![force.ticket] = force.to]
            /\ counter' = Up(Down(counter, force.from), force.to)
    /\ UNCHANGED <<hub, index, reserved, count, events>>

(* HubSpot refuses, the other reassignment was first, or the process dies.  *)
ForceStops ==
    /\ force.pc # "idle"
    /\ force' = NoForce
    /\ UNCHANGED <<hub, index, holder, reserved, counter, count, events>>

-----------------------------------------------------------------------------
(* What an overwriter works with: the counter as its copy of the agent had  *)
(* it, and the number of open tickets that HubSpot's search finds.          *)
Begin(k, a) ==
    /\ count[k][a].pc = "idle"
    /\ count' = [count EXCEPT ![k][a] = [pc |-> "asks", local |-> counter[a], seen |-> 0]]
    /\ UNCHANGED <<hub, index, holder, reserved, counter, force, events>>

Ask(k, a) ==
    /\ count[k][a].pc = "asks"
    /\ count' = [count EXCEPT ![k][a].pc = "writes", ![k][a].seen = Holds(index, a)]
    /\ UNCHANGED <<hub, index, holder, reserved, counter, force, events>>

(* The load check goes up only, and compares with its copy, as the hourly   *)
(* recount does; the sync reads the agent again under a lock.  With a bug:  *)
(* the recount goes up only, too.                                           *)
CorrectedUpward(k, c, now) == IF k = "sync" \/ c.seen > c.local THEN c.seen ELSE now
Corrected(k, c, now) ==
    IF k = "sync" \/ (k = "hourly" /\ c.seen # c.local) \/ (k = "load" /\ c.seen > c.local)
    THEN c.seen ELSE now

Overwrite(k, a) ==
    /\ count[k][a].pc = "writes"
    /\ counter' = [counter EXCEPT ![a] = Corrected(k, count[k][a], @)]
    /\ count' = [count EXCEPT ![k][a] = Uncounted]
    /\ UNCHANGED <<hub, index, holder, reserved, force, events>>

Counts(k, a) == Begin(k, a) \/ Ask(k, a) \/ Overwrite(k, a)

-----------------------------------------------------------------------------
Next ==
    \/ ForcePatch \/ ForceApply \/ ForceStops
    \/ \E t \in Tickets :
        \/ CatchUp(t) \/ Assign(t) \/ OwnerWebhook(t)
        \/ \E o \in Owners \cup {Nobody} : Edit(t, o)
        \/ \E a \in Owners : Reserve(t, a) \/ ForceRead(t, a)
    \/ \E k \in Overwriters, a \in Agents : Counts(k, a)

Spec == Init /\ [][Next]_vars

(* The recount is on the beat schedule; what was started goes on, an        *)
(* overwriter with a number that it has read included; the index catches up.*)
FairSpec ==
    /\ Spec
    /\ \A t \in Tickets : WF_vars(CatchUp(t)) /\ WF_vars(Assign(t))
    /\ \A a \in Agents :
        /\ WF_vars(Counts("hourly", a))
        /\ \A k \in {"sync", "load"} : WF_vars(Ask(k, a) \/ Overwrite(k, a))

-----------------------------------------------------------------------------
(***************************************************************************)
(* Whatever was lost, counted twice or overwritten with an old number      *)
(* while tickets changed hands, the hourly recount brings the counter of   *)
(* every agent back to the tickets it owns in HubSpot, and then nobody     *)
(* disturbs it: no agent stays at its maximum without tickets.             *)
(***************************************************************************)
LoadConverges == <>[](\A a \in Agents : counter[a] = Holds(hub, a))
=============================================================================
