----------------------------- MODULE MCRecovery -----------------------------
(***************************************************************************)
(* Six components that must recover from what went wrong, model-checked    *)
(* for safety and liveness in one run: a behaviour is one of one of them,  *)
(* chosen at the start, and the others stand still.  The module of the     *)
(* webhook ledger is extended and the others are instances.                *)
(***************************************************************************)
EXTENDS WebhookLedger

CONSTANTS
    CloseWorkers, ReconcileWorkers, MaxAttempts, MaxTime, MaxFailures,
    Members, Waiting, Drains, Stable, Heartbeat, Jitter, MaxClock,
    Threads, Threshold, MaxProbes, MaxFailedCalls, MaxExcluded,
    Tickets, Owners, Agents, Nobody, MaxEvents,
    Tasks, MaxTaskRetries, MaxEntries, MaxRows, MaxMishaps

VARIABLES
    component,
    now, row, cycle, worker, failures,
    clock, member, cohort, callback, queue, drain,
    state, failedCalls, elapsed, probes, thread, ended,
    hub, index, holder, reserved, counter, count, force, events,
    enforced, ticket, entryCycle, queued, assigned, inbox, lock, intake, sync,
    lapsed, mishaps

Occurrences == INSTANCE LifecycleOccurrences
Cohort == INSTANCE OpeningCohort
Breaker == INSTANCE CircuitBreaker WITH failures <- failedCalls, MaxFailures <- MaxFailedCalls
Load == INSTANCE AgentLoad
Intake == INSTANCE QueueIntake WITH
    cycle <- entryCycle, Deliveries <- Tasks, MaxRetries <- MaxTaskRetries,
    MaxFaults <- MaxMishaps

ASSUME RecoveryAssumption ==
    /\ Occurrences!OccurrencesAssumption
    /\ Cohort!CohortAssumption
    /\ Breaker!BreakerAssumption
    /\ Load!LoadAssumption
    /\ Intake!IntakeAssumption

occurrencesVars == <<now, row, cycle, worker, failures>>
cohortVars == <<clock, member, cohort, callback, queue, drain>>
breakerVars == <<state, failedCalls, elapsed, probes, thread, ended>>
loadVars == <<hub, index, holder, reserved, counter, count, force, events>>
intakeVars == <<enforced, ticket, entryCycle, queued, assigned, inbox, lock, intake,
                sync, lapsed, mishaps>>
recoveryVars == <<component, occurrencesVars, cohortVars, vars, breakerVars, loadVars,
                  intakeVars>>

RecoveryInit ==
    /\ component \in {"occurrences", "cohort", "ledger", "breaker", "load", "intake"}
    /\ Occurrences!Init /\ Cohort!Init /\ Init /\ Breaker!Init
    /\ Load!Init /\ Intake!Init
    /\ component # "intake" => enforced

RecoveryNext ==
    /\ UNCHANGED component
    /\ \/ /\ component = "occurrences" /\ Occurrences!Next
          /\ UNCHANGED <<cohortVars, vars, breakerVars, loadVars, intakeVars>>
       \/ /\ component = "cohort" /\ Cohort!Next
          /\ UNCHANGED <<occurrencesVars, vars, breakerVars, loadVars, intakeVars>>
       \/ /\ component = "ledger" /\ Next
          /\ UNCHANGED <<occurrencesVars, cohortVars, breakerVars, loadVars, intakeVars>>
       \/ /\ component = "breaker" /\ Breaker!Next
          /\ UNCHANGED <<occurrencesVars, cohortVars, vars, loadVars, intakeVars>>
       \/ /\ component = "load" /\ Load!Next
          /\ UNCHANGED <<occurrencesVars, cohortVars, vars, breakerVars, intakeVars>>
       \/ /\ component = "intake" /\ Intake!Next
          /\ UNCHANGED <<occurrencesVars, cohortVars, vars, breakerVars, loadVars>>

RecoverySpec == RecoveryInit /\ [][RecoveryNext]_recoveryVars

(* The fairness of each component's FairSpec, for the one that moves.       *)
FairRecoverySpec ==
    /\ RecoverySpec
    /\ \A w \in Occurrences!OccurrenceWorkers :
        WF_occurrencesVars(/\ component = "occurrences"
                           /\ \/ Occurrences!Reconcile(w)
                              \/ \E k \in Occurrences!Keys : Occurrences!ReconcileStart(w, k))
    /\ WF_cohortVars(component = "cohort" /\ Cohort!Tick)
    /\ WF_cohortVars(component = "cohort" /\ Cohort!Beat)
    /\ \A d \in Deliveries :
        /\ WF_vars(component = "ledger" /\ task[d].pc = "owed" /\ Receive(d))
        /\ WF_vars(component = "ledger" /\ Run(d))
    /\ WF_breakerVars(component = "breaker" /\ Breaker!Elapse)
    /\ \A t \in Threads : WF_breakerVars(component = "breaker" /\ Breaker!Call(t))
    /\ \A t \in Tickets :
        /\ WF_loadVars(component = "load" /\ Load!CatchUp(t))
        /\ WF_loadVars(component = "load" /\ Load!Assign(t))
    /\ \A a \in Agents :
        /\ WF_loadVars(component = "load" /\ Load!Counts("hourly", a))
        /\ \A k \in {"sync", "load"} :
            WF_loadVars(component = "load" /\ (Load!Ask(k, a) \/ Load!Overwrite(k, a)))
    /\ WF_intakeVars(component = "intake" /\ Intake!SyncStep)

(* The properties, each stated and commented in its component.              *)
CyclesFollowEvidence == Occurrences!CyclesFollowEvidence
ProcessedHasEffect == Occurrences!ProcessedHasEffect
OccurrencesSettle == Occurrences!OccurrencesSettle
NoEarlyAssignment == Cohort!NoEarlyAssignment
NobodyProlongs == Cohort!NobodyProlongs
BarrierEnds == Cohort!BarrierEnds
CallsGetThrough == Breaker!CallsGetThrough
LoadConverges == Load!LoadConverges
EntryIsQueued == Intake!EntryIsQueued
=============================================================================
