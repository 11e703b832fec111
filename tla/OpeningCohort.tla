---------------------------- MODULE OpeningCohort ----------------------------
(***************************************************************************)
(* The barrier of the first assignments of a window (apps/support:         *)
(* opening_cohort_service.py; tasks.py, task_matchmaker_drain_queue and    *)
(* task_recheck_opening_assignment_cohort; durable_assignment_service.py,  *)
(* reserve_next_assignment), with OPENING_COHORT_BARRIER_MODE enforce:     *)
(* while some agents are eligible and others are still stabilizing, the    *)
(* tickets that waited for the window are held back, so that the first     *)
(* agents do not get all of them.                                          *)
(*                                                                         *)
(* One window, which starts at time 0; whether an agent has room is part   *)
(* of its state "off".                                                     *)
(***************************************************************************)
EXTENDS Integers, FiniteSets, FiniteSetsExt

CONSTANTS
    Members,         \* agents
    Waiting,         \* queue rows that are older than the window
    Drains,          \* processes that run reserve_next_assignment
    Stable,          \* AVAILABILITY_STABLE_SECONDS
    Heartbeat,       \* SAT_HEARTBEAT_INTERVAL_SECONDS
    Jitter,          \* _RECHECK_JITTER_SECONDS
    MaxClock         \* bound: the time that is looked at

CohortAssumption ==
    /\ IsFiniteSet(Members)
    /\ {Stable, Heartbeat, Jitter, MaxClock} \subseteq Nat

VARIABLES
    clock,
    member,          \* eligibility of each agent, and availability_online_since
    cohort,          \* OpeningAssignmentCohort of the window
    callback,        \* task_recheck_opening_assignment_cohort: "none", "published" or "lost"
    queue,           \* each row: assigned, next_assignment_attempt_at
    drain            \* what each process does, and its row

vars == <<clock, member, cohort, callback, queue, drain>>

NoCohort == [state |-> "none", members |-> {}, recheck |-> 0, deadline |-> 0]
IdleDrain == [pc |-> "idle", row |-> CHOOSE r \in Waiting : TRUE]

Init ==
    /\ clock = 0
    /\ member = [a \in Members |-> [state |-> "off", since |-> 0]]
    /\ cohort = NoCohort
    /\ callback = "none"
    /\ queue = [r \in Waiting |-> [assigned |-> FALSE, next |-> 0]]
    /\ drain = [d \in Drains |-> IdleDrain]

-----------------------------------------------------------------------------
Tick ==
    /\ clock < MaxClock
    /\ clock' = clock + 1
    /\ UNCHANGED <<member, cohort, callback, queue, drain>>

(* The heartbeat sees an agent come, stay long enough, or go.               *)
Come(a) ==
    /\ member[a].state = "off" /\ clock + Stable + Heartbeat <= MaxClock
    /\ member' = [member EXCEPT ![a] = [state |-> "stabilizing", since |-> clock]]
    /\ UNCHANGED <<clock, cohort, callback, queue, drain>>

Settle(a) ==
    /\ member[a].state = "stabilizing" /\ clock >= member[a].since + Stable
    /\ member' = [member EXCEPT ![a].state = "eligible"]
    /\ UNCHANGED <<clock, cohort, callback, queue, drain>>

Go(a) ==
    /\ member[a].state # "off"
    /\ member' = [member EXCEPT ![a].state = "off"]
    /\ UNCHANGED <<clock, cohort, callback, queue, drain>>

Eligible == {a \in Members : member[a].state = "eligible"}
Stabilizing == {a \in Members : member[a].state = "stabilizing"}

-----------------------------------------------------------------------------
(* _cohort_defaults.                                                        *)
ObservedAt == Min({member[a].since : a \in Eligible \cup Stabilizing})
DeadlineAt == ObservedAt + Stable + Heartbeat
RecheckAt ==
    LET eta == Max({member[a].since + Stable : a \in Stabilizing} \cup {clock})
    IN Min({DeadlineAt, eta + Jitter})

(* A window has one cohort.                                                 *)
CohortForms ==
    /\ cohort.state = "none" /\ Eligible # {} /\ Stabilizing # {}
    /\ clock < DeadlineAt

(* The cohort that evaluate_opening_cohort_barrier looks at.                *)
Current ==
    IF CohortForms
    THEN [state |-> "active", members |-> Eligible \cup Stabilizing,
          recheck |-> RecheckAt, deadline |-> DeadlineAt]
    ELSE cohort

Settled(c) == c.members \cap Stabilizing = {}
Over(c) == Settled(c) \/ clock >= c.deadline
Released(c) == [c EXCEPT !.state = "released"]

Defers == Current.state = "active" /\ ~Over(Current)
Evaluated == IF Current.state = "active" /\ Over(Current) THEN Released(Current) ELSE Current

(* _schedule_recheck: once, and a callback that cannot be published is not  *)
(* published again.                                                         *)
Scheduled ==
    IF Defers /\ callback = "none" THEN callback' \in {"published", "lost"} ELSE UNCHANGED callback

Deferred(r) == IF Defers THEN [queue EXCEPT ![r].next = Current.recheck] ELSE queue

-----------------------------------------------------------------------------
(* reserve_next_assignment: the oldest ready row passes the barrier, then   *)
(* the candidates are verified with HubSpot, then the row is locked and the *)
(* barrier evaluated again.                                                 *)
Ready(r) == ~queue[r].assigned /\ queue[r].next <= clock

Precheck(d, r) ==
    /\ drain[d].pc = "idle" /\ Ready(r)
    /\ cohort' = Evaluated
    /\ Scheduled
    /\ queue' = Deferred(r)
    /\ drain' = IF Defers THEN drain ELSE [drain EXCEPT ![d] = [pc |-> "verifying", row |-> r]]
    /\ UNCHANGED <<clock, member>>

(* With a bug: the barrier is not evaluated again under the lock.           *)
PassesUnlocked == Eligible # {}
Passes == Eligible # {} /\ ~Defers

Reserve(d) ==
    LET r == drain[d].row IN
    /\ drain[d].pc = "verifying"
    /\ drain' = [drain EXCEPT ![d] = IdleDrain]
    /\ IF ~Ready(r) \/ Eligible = {} THEN UNCHANGED <<cohort, callback, queue>>
       ELSE /\ cohort' = Evaluated
            /\ Scheduled
            /\ queue' = IF Passes THEN [queue EXCEPT ![r].assigned = TRUE] ELSE Deferred(r)
    /\ UNCHANGED <<clock, member>>

(* finalize_opening_assignment_cohort.                                      *)
Finalized == IF cohort.state = "active" /\ Over(cohort) THEN Released(cohort) ELSE cohort

(* task_matchmaker_drain_queue, which finds expired cohorts first, whether  *)
(* or not a row is waiting.  With a bug: it leaves them to the callback.    *)
ExpiredToCallback == FALSE
Expired == cohort.state = "active" /\ clock >= cohort.deadline

Beat ==
    /\ Expired
    /\ cohort' = Finalized
    /\ UNCHANGED <<clock, member, callback, queue, drain>>

(* The callback runs once, when it is due; a heartbeat that is blocked ends *)
(* it.                                                                      *)
Recheck ==
    /\ callback = "published" /\ clock >= cohort.recheck
    /\ callback' = "lost"
    /\ cohort' \in {cohort, Finalized}
    /\ UNCHANGED <<clock, member, queue, drain>>

-----------------------------------------------------------------------------
Next ==
    \/ Tick \/ Beat \/ Recheck
    \/ \E a \in Members : Come(a) \/ Settle(a) \/ Go(a)
    \/ \E d \in Drains : Reserve(d) \/ \E r \in Waiting : Precheck(d, r)

Spec == Init /\ [][Next]_vars

(* Time passes, and the drain is on the beat schedule                       *)
(* (core/settings/base.py:291).                                             *)
FairSpec == Spec /\ WF_vars(Tick) /\ WF_vars(Beat)

-----------------------------------------------------------------------------
(***************************************************************************)
(* No row that waited for the window is assigned while the cohort holds it *)
(* back: not by a process either whose first look was before the cohort.   *)
(***************************************************************************)
NoEarlyAssignment == [][\A r \in Waiting :
    queue'[r].assigned /\ ~queue[r].assigned => cohort'.state # "active"]_vars

(***************************************************************************)
(* Nobody prolongs the barrier: once the cohort is formed, agents who come *)
(* late, or go and come back, change neither its members nor its deadline  *)
(* and do not form it again, and no row is put off beyond the deadline, as *)
(* docs/research/TICKET-48154078600-stabilizing-cohort-research.md:286     *)
(* asks for.                                                               *)
(***************************************************************************)
NobodyProlongs == [][
    /\ cohort.state # "none" => cohort' \in {cohort, Released(cohort)}
    /\ \A r \in Waiting : queue'[r].next # queue[r].next => queue'[r].next <= cohort'.deadline]_vars

(***************************************************************************)
(* The barrier always ends, also when its only callback is lost, and the   *)
(* cohort of a window is formed once: a released one stays released.       *)
(***************************************************************************)
BarrierEnds == (cohort.state = "active") ~> [](cohort.state = "released")
=============================================================================
