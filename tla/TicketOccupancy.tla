--------------------------- MODULE TicketOccupancy ---------------------------
(***************************************************************************)
(* Capacity by identified tickets (apps/support: capacity_service.py,      *)
(* owner_reconciliation_service.py, and what durable_assignment_service.py *)
(* and admin_api.py do when SUPPORT_CAPACITY_MODE is enforce): an agent's  *)
(* load is the number of tickets HubSpot was seen to give to the agent or  *)
(* an unconcluded operation holds for the agent.                           *)
(*                                                                         *)
(* HubSpot is read outside of every transaction, in three steps that all   *)
(* writers share: the revision is captured, the ticket is read, and the    *)
(* snapshot is applied if the revision still holds.  The projections of    *)
(* queue and cycle that follow an applied snapshot are in SupportRecords.  *)
(***************************************************************************)
EXTENDS Integers, Sequences, FiniteSets

CONSTANTS
    Tickets,
    Owners,          \* HubSpot owners
    Agents,          \* those that are agents
    Attempts,        \* workers with an assignment attempt each
    Transfers,       \* administrators with a forced reassignment each
    Watchers,        \* processes that reconcile a ticket for a webhook or a command
    Scanners,        \* processes that run refresh_agent_capacity
    Nobody,          \* no owner
    MaxChats,        \* max_simultaneous_chats
    MaxVersions,     \* bound: versions of a ticket in HubSpot
    MaxFaults,       \* bound: failing requests, dying processes, repairs
    MaxRounds        \* bound: reconciliations that watchers and scanners start

Operations == Attempts \cup Transfers
Processes == Operations \cup Watchers \cup Scanners

ASSUME OccupancyAssumption ==
    /\ IsFiniteSet(Tickets) /\ Agents \subseteq Owners /\ Nobody \notin Owners
    /\ Attempts \cap Transfers = {} /\ Operations \cap (Watchers \cup Scanners) = {}
    /\ Watchers \cap Scanners = {}
    /\ MaxChats \in Nat /\ MaxVersions \in Nat \ {0} /\ MaxFaults \in Nat /\ MaxRounds \in Nat

VARIABLES
    provider,        \* HubSpot: the versions of each ticket
    occ,             \* SupportTicketOccupancy rows; at: the version last applied
    op,              \* each operation with its AgentCapacityReservation
    flight,          \* operations whose PATCH was sent and may still land
    agent,           \* capacity columns of each Agent
    proc,            \* what each process does in reconcile_ticket, and with what
    scan,            \* what each scanner has left to read
    spent            \* how much of the bounds is used

vars == <<provider, occ, op, flight, agent, proc, scan, spent>>

Newest(t) == Len(provider[t])

NoOperation == [state |-> "none", ticket |-> Nobody, agent |-> Nobody, hold |-> "none"]
IdleProcess == [pc |-> "idle", for |-> "none", ticket |-> Nobody, rev |-> 0,
                affected |-> {}, read |-> 0, rejected |-> FALSE]
IdleScan == [agent |-> Nobody, todo |-> {}, done |-> {}, tracker |-> 0]

Init ==
    /\ provider = [t \in Tickets |-> <<[owner |-> Nobody, closed |-> FALSE]>>]
    /\ occ = [t \in Tickets |-> [state |-> "unknown", owner |-> Nobody, at |-> 0, rev |-> 0]]
    /\ op = [w \in Operations |-> NoOperation]
    /\ flight = {}
    /\ agent = [a \in Agents |-> [count |-> 0, rev |-> 0, ready |-> FALSE]]
    /\ proc = [p \in Processes |-> IdleProcess]
    /\ scan = [s \in Scanners |-> IdleScan]
    /\ spent = [faults |-> 0, rounds |-> 0]

Fault == spent.faults < MaxFaults /\ spent' = [spent EXCEPT !.faults = @ + 1]
Round == spent.rounds < MaxRounds /\ spent' = [spent EXCEPT !.rounds = @ + 1]
NoFault == UNCHANGED spent

-----------------------------------------------------------------------------
(* capacity_count: the union of occupied and reserved tickets.              *)
Held(w) == op[w].hold = "held"
HeldOn(t) == {w \in Operations : Held(w) /\ op[w].ticket = t}
Counted(a) ==
    {t \in Tickets : occ[t].state = "active" /\ occ[t].owner = a}
        \cup {op[w].ticket : w \in {v \in Operations : Held(v) /\ op[v].agent = a}}
CapacityCount(a) == Cardinality(Counted(a))

(* materialize, after the changes of its transaction.                       *)
Materialized(as) == [a \in Agents |->
    IF a \in as THEN [agent[a] EXCEPT !.count = CapacityCount(a)', !.rev = @ + 1] ELSE agent[a]]

Degraded(as) == [a \in Agents |->
    IF a \in as THEN [agent[a] EXCEPT !.ready = FALSE, !.rev = @ + 1] ELSE agent[a]]

(* capacity_ready, under the lock of the agent.                             *)
CapacityReady(a) == agent[a].ready /\ CapacityCount(a) < MaxChats

Enter(p, pc) == proc' = [proc EXCEPT ![p].pc = pc]
Leave(p) == proc' = [proc EXCEPT ![p] = IdleProcess]

-----------------------------------------------------------------------------
(* HubSpot: a person or a late PATCH changes a ticket.                      *)
Updated(t, version) ==
    /\ Newest(t) < MaxVersions
    /\ provider' = [provider EXCEPT ![t] = Append(@, version)]

Current(t) == provider[t][Newest(t)]

PersonAssigns(t, o) ==
    /\ o # Current(t).owner
    /\ Updated(t, [Current(t) EXCEPT !.owner = o])
    /\ UNCHANGED <<occ, op, flight, agent, proc, scan, spent>>

PersonCloses(t) ==
    /\ ~Current(t).closed
    /\ Updated(t, [Current(t) EXCEPT !.closed = TRUE])
    /\ UNCHANGED <<occ, op, flight, agent, proc, scan, spent>>

Land(w) ==
    /\ w \in flight
    /\ Updated(op[w].ticket, [Current(op[w].ticket) EXCEPT !.owner = op[w].agent])
    /\ flight' = flight \ {w}
    /\ UNCHANGED <<occ, op, agent, proc, scan, spent>>

-----------------------------------------------------------------------------
(* reconcile_ticket, for every caller.                                      *)
Watch(p, t) ==
    /\ p \in Watchers /\ proc[p].pc = "idle"
    /\ Round
    /\ proc' = [proc EXCEPT ![p] = [IdleProcess EXCEPT !.pc = "start", !.for = "watch", !.ticket = t]]
    /\ UNCHANGED <<provider, occ, op, flight, agent, scan>>

Concerned(t) == ({occ[t].owner} \cup {op[w].agent : w \in HeldOn(t)}) \cap Agents

Capture(p) ==
    LET t == proc[p].ticket IN
    /\ proc[p].pc = "start"
    /\ proc' = [proc EXCEPT ![p] = [@ EXCEPT !.pc = "captured", !.rev = occ[t].rev,
                                             !.affected = Concerned(t)]]
    /\ UNCHANGED <<provider, occ, op, flight, agent, scan, spent>>

(* A read may show the version before the newest.                           *)
ReadProvider(p) ==
    /\ proc[p].pc = "captured"
    /\ \E v \in {Newest(proc[p].ticket), Newest(proc[p].ticket) - 1} \ {0} :
        proc' = [proc EXCEPT ![p] = [@ EXCEPT !.pc = "read", !.read = v]]
    /\ UNCHANGED <<provider, occ, op, flight, agent, scan, spent>>

Snapshot(p) == provider[proc[p].ticket][proc[p].read]

(* Whom a refusal degrades, and whom an applied snapshot materializes: the  *)
(* latter with the agents whose holds were taken since the capture.         *)
Met(p) ==
    proc[p].affected \cup ({occ[proc[p].ticket].owner, Snapshot(p).owner} \cap Agents)

Affected(p) == Met(p) \cup Concerned(proc[p].ticket)

(* With a bug: an older version is applied when the revision still holds.   *)
OutdatedByRevision(p) == occ[proc[p].ticket].rev # proc[p].rev
Outdated(p) ==
    \/ occ[proc[p].ticket].rev # proc[p].rev
    \/ proc[p].read < occ[proc[p].ticket].at

(* What a snapshot says, and what it concludes: a hold that is confirmed is *)
(* converted; a closed ticket releases all.                                 *)
StateOf(version) ==
    IF version.closed THEN "closed" ELSE IF version.owner = Nobody THEN "unassigned" ELSE "active"

Concluded(w, version) ==
    IF StateOf(version) = "closed" THEN "released"
    ELSE IF version.owner = op[w].agent THEN "converted" ELSE "held"

(* With a bug: the former owner is not materialized.                        *)
MaterializedNew(p) == Materialized({Snapshot(p).owner} \cap Agents)
MaterializedAll(p) == Materialized(Affected(p))

Apply(p) ==
    LET t == proc[p].ticket IN
    /\ proc[p].pc = "read" /\ ~Outdated(p)
    /\ occ' = [occ EXCEPT ![t] = [state |-> StateOf(Snapshot(p)), owner |-> Snapshot(p).owner,
                                  at |-> proc[p].read, rev |-> @.rev + 1]]
    /\ op' = [w \in Operations |-> IF w \in HeldOn(t)
                THEN [op[w] EXCEPT !.hold = Concluded(w, Snapshot(p))] ELSE op[w]]
    /\ agent' = MaterializedAll(p)
    /\ IF p \in Scanners
       THEN scan' = [scan EXCEPT
                ![p].done = @ \cup {t}, ![p].todo = @ \ {t},
                ![p].tracker = @ + (IF scan[p].agent \in Affected(p) THEN 1 ELSE 0)]
       ELSE UNCHANGED scan
    /\ IF p \in Watchers THEN Leave(p)
       ELSE Enter(p, IF p \in Scanners THEN "scanning" ELSE "observed")
    /\ UNCHANGED <<provider, flight, spent>>

(* The read fails, or is refused: the agents lose their readiness.          *)
Refuse(p) ==
    LET failed == proc[p].pc = "captured" IN
    /\ \/ failed /\ Fault
       \/ proc[p].pc = "read" /\ Outdated(p) /\ NoFault
    /\ agent' = Degraded(IF failed THEN proc[p].affected ELSE Met(p))
    /\ IF p \in Watchers THEN Leave(p)
       ELSE Enter(p, IF p \in Scanners THEN "conflict" ELSE "refused")
    /\ UNCHANGED <<provider, occ, op, flight, scan>>

-----------------------------------------------------------------------------
(* hold_capacity for an operation that starts or is tried again.            *)
Hold(w, t, a) ==
    /\ CapacityReady(a)
    /\ op' = [op EXCEPT ![w] = [state |-> "live", ticket |-> t, agent |-> a, hold |-> "held"]]
    /\ occ' = [occ EXCEPT ![t].rev = @ + 1]
    /\ agent' = Materialized({a})
    /\ UNCHANGED <<provider, flight, scan>>

Starts(w, for, t) ==
    proc' = [proc EXCEPT ![w] = [IdleProcess EXCEPT !.pc = "start", !.for = for, !.ticket = t]]

(* reserve_next_assignment, reserve_manual_assignment: one live attempt.    *)
Reserve(w, t, a) ==
    /\ w \in Attempts /\ op[w].state = "none"
    /\ \A v \in Attempts : op[v].ticket = t => op[v].state = "done"
    /\ Hold(w, t, a)
    /\ Starts(w, "precondition", t)
    /\ NoFault

(* _capacity_force_reassign, after its first observation.                   *)
ReserveTransfer(w, t, a) ==
    /\ w \in Transfers /\ op[w].state = "none"
    /\ occ[t].state = "active" /\ occ[t].owner # a /\ HeldOn(t) = {}
    /\ Hold(w, t, a)
    /\ proc' = [proc EXCEPT ![w] = [IdleProcess EXCEPT !.pc = "patch", !.ticket = t]]
    /\ NoFault

(* retry_assignment_attempt.                                                *)
Retry(w) ==
    /\ w \in Attempts /\ op[w].state = "retryable" /\ op[w].hold = "released"
    /\ Hold(w, op[w].ticket, op[w].agent)
    /\ Starts(w, "precondition", op[w].ticket)
    /\ NoFault

-----------------------------------------------------------------------------
(* compensate_assignment_attempt without repair_required, and with it.      *)
ReleasedHold(w) == IF Held(w) THEN "released" ELSE op[w].hold

Compensate(w, state) ==
    /\ op' = [op EXCEPT ![w] = [@ EXCEPT !.state = state, !.hold = ReleasedHold(w)]]
    /\ UNCHANGED <<provider, occ, flight, scan, spent>>
    /\ agent' = Materialized({op[w].agent})
    /\ Leave(w)

Unresolved(w) ==
    /\ op' = [op EXCEPT ![w].state = "repair"]
    /\ agent' = Degraded({op[w].agent})
    /\ Leave(w)
    /\ UNCHANGED <<provider, occ, flight, scan, spent>>

(* _mark_external_applied and finalize_assignment_attempt, which fails when *)
(* the occupancy moved on.                                                  *)
Finalize(w) ==
    LET o == occ[op[w].ticket] IN
    /\ op' = [op EXCEPT ![w].state =
            IF o.state = "active" /\ o.owner = op[w].agent THEN "done" ELSE "repair"]
    /\ Leave(w)
    /\ UNCHANGED <<provider, occ, flight, agent, scan, spent>>

At(w, pc, for) == w \in Attempts /\ proc[w].pc = pc /\ proc[w].for = for

(* The precondition read of _execute_assignment_attempt.                    *)
PreconditionFails(w) ==
    /\ At(w, "refused", "precondition")
    /\ Compensate(w, "retryable")

PreconditionStops(w) ==
    /\ At(w, "observed", "precondition")
    /\ Snapshot(w).closed \/ Snapshot(w).owner \notin {Nobody, op[w].agent}
    /\ Compensate(w, "done")

PreconditionConfirms(w) ==
    /\ At(w, "observed", "precondition")
    /\ ~Snapshot(w).closed /\ Snapshot(w).owner = op[w].agent
    /\ Finalize(w)

PreconditionAllows(w) ==
    /\ At(w, "observed", "precondition")
    /\ ~Snapshot(w).closed /\ Snapshot(w).owner = Nobody
    /\ Enter(w, "patch")
    /\ UNCHANGED <<provider, occ, op, flight, agent, scan, spent>>

(* The PATCH is applied, is rejected, or is sent and not answered.          *)
Patch(w) ==
    LET t == op[w].ticket
        readback(rejected) == proc' = [proc EXCEPT ![w] = [IdleProcess EXCEPT
                !.pc = "start", !.for = "readback", !.ticket = t, !.rejected = rejected]]
    IN
    /\ w \in Operations /\ proc[w].pc = "patch"
    /\ \/ /\ Updated(t, [Current(t) EXCEPT !.owner = op[w].agent])
          /\ readback(FALSE) /\ NoFault /\ UNCHANGED flight
       \/ Fault /\ readback(TRUE) /\ UNCHANGED <<provider, flight>>
       \/ Fault /\ readback(FALSE) /\ flight' = flight \cup {w} /\ UNCHANGED provider
    /\ UNCHANGED <<occ, op, agent, scan>>

(* reconcile_ambiguous_attempt.  With a bug: an owner that is not the       *)
(* desired one shows that the PATCH had no effect.                          *)
NoEffectUnlessSeen(w) == Snapshot(w).owner # op[w].agent
NoEffect(w) == proc[w].rejected /\ Snapshot(w).owner = Nobody

ReadbackFails(w) == At(w, "refused", "readback") /\ Unresolved(w)

ReadbackStops(w) ==
    /\ At(w, "observed", "readback")
    /\ Snapshot(w).closed \/ NoEffect(w)
    /\ Compensate(w, "done")

ReadbackConfirms(w) ==
    /\ At(w, "observed", "readback")
    /\ ~Snapshot(w).closed /\ Snapshot(w).owner = op[w].agent
    /\ Finalize(w)

ReadbackDiffers(w) ==
    /\ At(w, "observed", "readback")
    /\ ~Snapshot(w).closed /\ Snapshot(w).owner # op[w].agent /\ ~NoEffect(w)
    /\ Unresolved(w)

(* The readback of a transfer: unconfirmed, its hold is retained.           *)
TransferEnds(w) ==
    /\ w \in Transfers /\ proc[w].pc \in {"observed", "refused"}
    /\ op' = [op EXCEPT ![w].state = "done"]
    /\ agent' = IF /\ proc[w].pc = "observed"
                   /\ ~Snapshot(w).closed /\ Snapshot(w).owner = op[w].agent
                THEN agent ELSE Degraded({op[w].agent})
    /\ Leave(w)
    /\ UNCHANGED <<provider, occ, flight, scan, spent>>

(* repair_assignment_attempts: the owner of a stale attempt is read again.  *)
Repair(w) ==
    /\ w \in Attempts /\ op[w].state = "repair" /\ proc[w].pc = "idle"
    /\ Fault
    /\ Starts(w, "readback", op[w].ticket)
    /\ UNCHANGED <<provider, occ, op, flight, agent, scan>>

(* A process dies; its request may be on its way.                           *)
Crash(w) ==
    /\ w \in Operations /\ proc[w].pc # "idle"
    /\ Fault
    /\ Leave(w)
    /\ op' = [op EXCEPT ![w].state = IF w \in Attempts THEN "repair" ELSE "done"]
    /\ flight' \in {flight, IF proc[w].pc = "patch" THEN flight \cup {w} ELSE flight}
    /\ UNCHANGED <<provider, occ, agent, scan>>

-----------------------------------------------------------------------------
(* refresh_agent_capacity: the revision, the tickets of the owner in        *)
(* HubSpot, those that are held, and those that are known.                  *)
ScanStart(s, a) ==
    /\ proc[s].pc = "idle"
    /\ Round
    /\ scan' = [scan EXCEPT ![s] = [agent |-> a, todo |-> {}, done |-> {}, tracker |-> agent[a].rev]]
    /\ Enter(s, "listing")
    /\ UNCHANGED <<provider, occ, op, flight, agent>>

ScanList(s) ==
    LET a == scan[s].agent IN
    /\ proc[s].pc = "listing"
    /\ scan' = [scan EXCEPT ![s].todo =
            {t \in Tickets : ~Current(t).closed /\ Current(t).owner = a} \cup Counted(a)]
    /\ Enter(s, "scanning")
    /\ UNCHANGED <<provider, occ, op, flight, agent, spent>>

ScanNext(s) == \E t \in scan[s].todo :
    /\ proc[s].pc = "scanning"
    /\ proc' = [proc EXCEPT ![s] = [IdleProcess EXCEPT !.pc = "start", !.for = "scan", !.ticket = t]]
    /\ UNCHANGED <<provider, occ, op, flight, agent, scan, spent>>

(* An operation that waits for its readback keeps its agent from readiness. *)
Ambiguous(a) == \E w \in Operations :
    Held(w) /\ op[w].agent = a /\ (w \in Transfers \/ op[w].state = "repair")

(* With a bug: the generation is not compared.                              *)
SameGenerationAssumed(s) == TRUE
SameGeneration(s) == agent[scan[s].agent].rev = scan[s].tracker

ScanEnd(s) ==
    LET a == scan[s].agent IN
    /\ \/ /\ proc[s].pc = "scanning" /\ scan[s].todo = {}
          /\ ~Ambiguous(a) /\ SameGeneration(s)
          /\ agent' = [agent EXCEPT ![a].ready = TRUE]
       \/ /\ \/ proc[s].pc = "conflict"
             \/ proc[s].pc = "scanning" /\ scan[s].todo = {} /\ (Ambiguous(a) \/ ~SameGeneration(s))
          /\ agent' = Degraded({a})
    /\ scan' = [scan EXCEPT ![s] = IdleScan]
    /\ Leave(s)
    /\ UNCHANGED <<provider, occ, op, flight, spent>>

-----------------------------------------------------------------------------
Reconcile(p) == Capture(p) \/ ReadProvider(p) \/ Apply(p) \/ Refuse(p)

Attempt(w) ==
    \/ PreconditionFails(w) \/ PreconditionStops(w)
    \/ PreconditionConfirms(w) \/ PreconditionAllows(w)
    \/ ReadbackFails(w) \/ ReadbackStops(w) \/ ReadbackConfirms(w) \/ ReadbackDiffers(w)

Next ==
    \/ \E t \in Tickets : PersonCloses(t) \/ \E o \in Owners : PersonAssigns(t, o)
    \/ \E p \in Processes : Reconcile(p)
    \/ \E p \in Watchers, t \in Tickets : Watch(p, t)
    \/ \E w \in Operations :
        \/ Land(w) \/ Patch(w) \/ Crash(w) \/ TransferEnds(w)
        \/ Attempt(w) \/ Retry(w) \/ Repair(w)
        \/ \E t \in Tickets, a \in Agents : Reserve(w, t, a) \/ ReserveTransfer(w, t, a)
    \/ \E s \in Scanners : ScanList(s) \/ ScanNext(s) \/ ScanEnd(s) \/ \E a \in Agents : ScanStart(s, a)

Spec == Init /\ [][Next]_vars

-----------------------------------------------------------------------------
(***************************************************************************)
(* "Project occupancy under stable agent locks without legacy deltas": the *)
(* counter of every agent is the number of tickets that are active for the *)
(* agent or held for the agent, whichever of the writers came last.        *)
(***************************************************************************)
CounterAgrees == \A a \in Agents : agent[a].count = CapacityCount(a)

(***************************************************************************)
(* An occupancy never goes back to an older version of its ticket,         *)
(* although reads overtake each other and HubSpot may show the version     *)
(* before.                                                                 *)
(***************************************************************************)
ObservationsAdvance == [][\A t \in Tickets : occ'[t].at >= occ[t].at]_vars

(***************************************************************************)
(* "An ambiguous effect still occupies capacity until conclusive           *)
(* readback": the hold of a PATCH that may still land is not released,     *)
(* unless the ticket was closed.                                           *)
(***************************************************************************)
FlightIsHeld == \A w \in flight :
    op[w].hold = "released" => Current(op[w].ticket).closed

(***************************************************************************)
(* An agent becomes ready with exactly the tickets that its scan has read: *)
(* whatever came in between makes the scan fail.                           *)
(***************************************************************************)
ReadyWasScanned == [][\A s \in Scanners :
    LET a == scan[s].agent IN
    (a \in Agents /\ proc[s].pc = "scanning" /\ proc'[s].pc = "idle" /\ agent'[a].ready)
        => Counted(a) \subseteq scan[s].done]_vars
=============================================================================
