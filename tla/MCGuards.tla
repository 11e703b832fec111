------------------------------ MODULE MCGuards ------------------------------
(***************************************************************************)
(* Five components that guard what they write with a lease, a token, a     *)
(* version or a time, model-checked for safety in one run: a behaviour is  *)
(* one of one of them, chosen at the start, and the others stand still.    *)
(* The module of the lock is extended and the others are instances.        *)
(***************************************************************************)
EXTENDS OwnedCacheLock

CONSTANTS
    Watchdogs, MaxFailures, LegacyStates, MaxEvents, MaxOdd, MaxLag,
    Agents, Beats, Drains, LeaseTTL, CacheTTL, Stable, Samples, MaxAge, MaxClock, MaxBeats, MaxChanges,
    Requests, AuditKeys, Rules, Existing, Readers, DefaultOpen, MaxEdits,
    Tasks, MaxTaskRetries, MaxEntries, MaxRows, MaxMishaps

VARIABLES
    component,
    provider, ledger, inst, support, closing, assigner, watch,
    clock, open, presence, enabled, lease, cached, agent, beat, drain, changes, seen,
    rule, audit, request, reader, edits,
    enforced, ticket, cycle, queued, assigned, inbox, lock, intake, sync, lapsed, mishaps

Lifecycle == INSTANCE ConversationLifecycle
Availability == INSTANCE AgentAvailability
Calendar == INSTANCE CalendarRules WITH Payloads <- {
    [kind |-> "service", priority |-> 1, today |-> TRUE, hours |-> TRUE],
    [kind |-> "absence", priority |-> 0, today |-> TRUE, hours |-> FALSE]}
Intake == INSTANCE QueueIntake WITH
    Deliveries <- Tasks, MaxRetries <- MaxTaskRetries, MaxFaults <- MaxMishaps

ASSUME GuardsAssumption ==
    /\ Lifecycle!LifecycleAssumption
    /\ Availability!TimesAssumption
    /\ Calendar!CalendarAssumption
    /\ Intake!IntakeAssumption

lifecycleVars == <<provider, ledger, inst, support, closing, assigner, watch>>
availabilityVars == <<clock, open, presence, enabled, lease, cached, agent, beat, drain, changes, seen>>
calendarVars == <<rule, audit, request, reader, edits>>
intakeVars == <<enforced, ticket, cycle, queued, assigned, inbox, lock, intake, sync,
                lapsed, mishaps>>
guardsVars == <<component, lifecycleVars, availabilityVars, calendarVars, vars, intakeVars>>

Components == {"lifecycle", "availability", "calendar", "lock", "intake"}

(* The components that stand still have one initial state each.             *)
GuardsInit ==
    /\ component \in Components
    /\ Lifecycle!Init /\ Availability!Init /\ Calendar!Init /\ Init /\ Intake!Init
    /\ component # "lifecycle" => inst = [i \in Lifecycle!Instances |-> Lifecycle!Absent]
    /\ component # "availability" => open /\ presence = [a \in Agents |-> "away"]
    /\ component # "calendar" => \A r \in Existing : rule[r].says = Calendar!NoRule.says
    /\ component # "intake" => enforced

GuardsNext ==
    /\ UNCHANGED component
    /\ \/ /\ component = "lifecycle" /\ Lifecycle!Next
          /\ UNCHANGED <<availabilityVars, calendarVars, vars, intakeVars>>
       \/ /\ component = "availability" /\ Availability!Next
          /\ UNCHANGED <<lifecycleVars, calendarVars, vars, intakeVars>>
       \/ /\ component = "calendar" /\ Calendar!Next
          /\ UNCHANGED <<lifecycleVars, availabilityVars, vars, intakeVars>>
       \/ /\ component = "lock" /\ Next
          /\ UNCHANGED <<lifecycleVars, availabilityVars, calendarVars, intakeVars>>
       \/ /\ component = "intake" /\ Intake!Next
          /\ UNCHANGED <<lifecycleVars, availabilityVars, calendarVars, vars>>

GuardsSpec == GuardsInit /\ [][GuardsNext]_guardsVars

(* The properties, each stated and commented in its component.              *)
AttendanceFollowsState == Lifecycle!AttendanceFollowsState
ClosedTicketIsQuiet == Lifecycle!ClosedTicketIsQuiet
OnlyNewsReopens == Lifecycle!OnlyNewsReopens
ReservedWasSeenThrice == Availability!ReservedWasSeenThrice
AuditMatches == Calendar!AuditMatches
NoLostEdit == Calendar!NoLostEdit
AbsenceCloses == Calendar!AbsenceCloses
OneArmedRow == Intake!OneArmedRow
=============================================================================
