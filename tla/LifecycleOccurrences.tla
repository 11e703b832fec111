------------------------ MODULE LifecycleOccurrences ------------------------
(***************************************************************************)
(* Durable evidence of what HubSpot said of one ticket (apps/support:      *)
(* lifecycle_occurrence_service.py, tasks.py): entries into the queue and  *)
(* closures are recorded, deduplicated by their time, projected on the     *)
(* conversation cycles, and tried again within a budget.  The module holds *)
(* for HUBSPOT_PROVIDER_CONTRACT_MODE other than off; owner changes are    *)
(* left to TicketOccupancy.                                                *)
(*                                                                         *)
(* The ticket enters the queue at odd times and is closed at even ones.    *)
(***************************************************************************)
EXTENDS Naturals

CONSTANTS
    CloseWorkers,        \* processes that handle webhooks of a closure
    ReconcileWorkers,    \* processes that reconcile occurrences
    MaxAttempts,         \* SUPPORT_LIFECYCLE_RECONCILE_MAX_ATTEMPTS
    MaxTime,             \* bound: what happens to the ticket
    MaxFailures          \* bound: failing requests and dying processes

OccurrenceWorkers == CloseWorkers \cup ReconcileWorkers

OccurrencesAssumption ==
    /\ CloseWorkers \cap ReconcileWorkers = {}
    /\ MaxAttempts \in Nat \ {0} /\ MaxTime \in Nat /\ MaxFailures \in Nat

VARIABLES
    now,             \* HubSpot: the time of the last entry or closure
    row,             \* SupportLifecycleOccurrence rows
    cycle,           \* state of the cycle of each entry
    worker,          \* what each process does
    failures         \* how much of the bound is used

vars == <<now, row, cycle, worker, failures>>

Times == 1..MaxTime
IsEntry(t) == t % 2 = 1
Entries == {t \in Times : IsEntry(t)}

(* evidence_key: of an occurrence with a time, or of a pending closure of a *)
(* cycle (0: of none).                                                      *)
Keys == {"timed"} \X Times \cup {"pending"} \X (Entries \cup {0})
NoKey == <<"none", 0>>

Idle == [pc |-> "idle", key |-> NoKey, origin |-> NoKey, snap |-> 0]
NoRow == [evidence |-> "none", at |-> 0, status |-> "none", retries |-> 0, due |-> FALSE]

Init ==
    /\ now = 0
    /\ row = [k \in Keys |-> NoRow]
    /\ cycle = [t \in Entries |-> "none"]
    /\ worker = [w \in OccurrenceWorkers |-> Idle]
    /\ failures = 0

Fail == failures < MaxFailures /\ failures' = failures + 1

-----------------------------------------------------------------------------
(* conversation_cycle_service.py and ticket_close_service.py, as far as the *)
(* times go.                                                                *)
Known == {t \in Entries : cycle[t] # "none"}
Active == {t \in Entries : cycle[t] = "open"}
IsNewest(c, S) == c \in S /\ \A t \in S : t <= c

(* With a bug: a newer entry is opened although the last one is not closed. *)
OpenedBeside(t) ==
    IF cycle[t] = "none" /\ \A c \in Known : c < t
    THEN [cycle EXCEPT ![t] = "open"] ELSE cycle
Opened(t) ==
    IF cycle[t] = "none" /\ Active = {} /\ \A c \in Known : c < t
    THEN [cycle EXCEPT ![t] = "open"] ELSE cycle

(* resolve_close_target: 0 when no known cycle began before.                *)
TargetOf(t) ==
    LET eligible == {c \in Known : c <= t}
    IN IF eligible = {} THEN 0 ELSE CHOOSE c \in eligible : IsNewest(c, eligible)

ClosesCurrent(t) == TargetOf(t) # 0 /\ cycle[TargetOf(t)] = "open" /\ IsNewest(TargetOf(t), Known)

(* classify_close_occurrence, given what the provider showed at s.          *)
StillClosed(t, s) == s % 2 = 0 /\ s <= t
Classification(t, s) ==
    IF TargetOf(t) = 0 THEN "no_cycle"
    ELSE IF cycle[TargetOf(t)] = "closed" THEN "duplicate"
    ELSE IF ClosesCurrent(t) /\ ~StillClosed(t, s) THEN "reopen_not_materialized"
    ELSE "applied"

(* The closures that count as processed.  With a bug: one of no known cycle *)
(* does too.                                                                *)
ProjectsAny(result) == result # "reopen_not_materialized"
Projects(result) == result \in {"applied", "duplicate"}

-----------------------------------------------------------------------------
(* The ticket enters the queue, or is closed.                               *)
Happen ==
    /\ now < MaxTime
    /\ now' = now + 1
    /\ UNCHANGED <<row, cycle, worker, failures>>

(* record_proven_occurrence: the row with this time, else the pending row   *)
(* of the cycle that it closes, else a new one; due: next_reconcile_at is   *)
(* set, and passes by itself.                                               *)
KeyFor(t) ==
    LET same == {k \in Keys : row[k].evidence = "proven" /\ row[k].at = t}
        pending == <<"pending", TargetOf(t)>>
    IN IF same # {} THEN CHOOSE k \in same : TRUE
       ELSE IF ~IsEntry(t) /\ row[pending].evidence = "pending" THEN pending
       ELSE <<"timed", t>>

(* With a bug: a new row waits for its webhook.                             *)
RecordedUnscheduled(t) ==
    LET k == KeyFor(t)
    IN IF row[k].evidence = "proven" THEN row
       ELSE [row EXCEPT ![k] = [@ EXCEPT !.evidence = "proven", !.at = t, !.status = "pending"]]
Recorded(t) ==
    LET k == KeyFor(t)
    IN IF row[k].evidence = "proven" THEN row
       ELSE [row EXCEPT ![k] = [@ EXCEPT !.evidence = "proven", !.at = t,
                                         !.status = "pending", !.due = TRUE]]

(* mark_processed.                                                          *)
Processed(rows, k) ==
    IF rows[k].evidence = "proven" /\ rows[k].status = "pending"
    THEN [rows EXCEPT ![k] = [@ EXCEPT !.status = "processed", !.due = FALSE]] ELSE rows

(* open_from_proven_occurrence: one transaction.                            *)
EntryDone(rows, cycles, t) == IF cycles[t] # "none" THEN Processed(rows, KeyFor(t)) ELSE rows

OpenFromProven(t) ==
    /\ cycle' = Opened(t)
    /\ row' = EntryDone(Recorded(t), Opened(t), t)

EntryWebhook(t) ==
    /\ t <= now /\ IsEntry(t)
    /\ OpenFromProven(t)
    /\ UNCHANGED <<now, worker, failures>>

(* project_close_occurrence: the evidence first.                            *)
CloseWebhook(w, t) ==
    /\ w \in CloseWorkers /\ worker[w].pc = "idle" /\ t <= now /\ ~IsEntry(t)
    /\ row' = Recorded(t)
    /\ worker' = [worker EXCEPT ![w] = [Idle EXCEPT !.pc = "closing", !.key = KeyFor(t)]]
    /\ UNCHANGED <<now, cycle, failures>>

(* record_pending_close: a closed ticket does not show its time yet.        *)
PendingKey == <<"pending", IF Active = {} THEN 0 ELSE CHOOSE c \in Active : TRUE>>

ObserveClosed ==
    /\ now > 0 /\ ~IsEntry(now)
    /\ row[PendingKey].evidence = "none"
    /\ row' = [row EXCEPT ![PendingKey] = [@ EXCEPT
            !.evidence = "pending", !.status = "pending", !.due = TRUE]]
    /\ UNCHANGED <<now, cycle, worker, failures>>

-----------------------------------------------------------------------------
(* reconcile_close_occurrence: the provider is read when the current cycle  *)
(* is to be closed, and the cycles are looked at again.                     *)
CloseRead(w) ==
    /\ worker[w].pc = "closing"
    /\ worker' = [worker EXCEPT ![w] = [@ EXCEPT !.pc = "read", !.snap = now]]
    /\ UNCHANGED <<now, row, cycle, failures>>

Later(w) == worker' = [worker EXCEPT ![w] = [@ EXCEPT !.pc = "later"]]

CloseApply(w) ==
    LET t == row[worker[w].key].at
        result == Classification(t, worker[w].snap)
    IN
    /\ worker[w].pc = "read"
    /\ cycle' = IF result = "applied" THEN [cycle EXCEPT ![TargetOf(t)] = "closed"] ELSE cycle
    /\ worker' = [worker EXCEPT ![w] =
            [@ EXCEPT !.pc = IF Projects(result) THEN "done" ELSE "later"]]
    /\ UNCHANGED <<now, row, failures>>

(* The occurrence is processed; a pending row that turned out to be another *)
(* one's duplicate is rejected.                                             *)
CloseDone(w) ==
    LET k == worker[w].key
        o == worker[w].origin
        rows == Processed(row, k)
    IN
    /\ worker[w].pc = "done"
    /\ row' = IF o \notin {NoKey, k} /\ row[o].evidence = "pending"
              THEN [rows EXCEPT ![o] = [@ EXCEPT !.evidence = "rejected",
                                                 !.status = "processed", !.due = FALSE]]
              ELSE rows
    /\ worker' = [worker EXCEPT ![w] = Idle]
    /\ UNCHANGED <<now, cycle, failures>>

-----------------------------------------------------------------------------
(* task_reconcile_lifecycle_occurrence.  Its first transaction spends a try *)
(* or finds the budget exhausted.                                           *)
Exhausted(k) ==
    [row[k] EXCEPT !.status = "repair_required",
                   !.evidence = IF @ = "proven" THEN @ ELSE "ambiguous", !.due = FALSE]

ReconcileStart(w, k) ==
    /\ w \in ReconcileWorkers /\ worker[w].pc = "idle"
    /\ row[k].status = "pending" /\ row[k].due
    /\ IF row[k].retries >= MaxAttempts
       THEN row' = [row EXCEPT ![k] = Exhausted(k)] /\ UNCHANGED worker
       ELSE /\ row' = [row EXCEPT ![k].retries = @ + 1]
            /\ worker' = [worker EXCEPT ![w] = [Idle EXCEPT
                    !.pc = IF row[k].at = 0 THEN "unproven" ELSE "claimed", !.key = k, !.origin = k]]
    /\ UNCHANGED <<now, cycle, failures>>

(* An entry is opened again, and its row is locked with it.                 *)
ReconcileEntry(w) ==
    LET k == worker[w].key
        t == row[k].at
    IN
    /\ worker[w].pc = "claimed" /\ IsEntry(t)
    /\ IF row[k].status # "pending" THEN UNCHANGED <<row, cycle>> ELSE OpenFromProven(t)
    /\ worker' = [worker EXCEPT ![w] = IF row'[k].status = "pending" THEN [@ EXCEPT !.pc = "later"] ELSE Idle]
    /\ UNCHANGED <<now, failures>>

ReconcileProven(w) ==
    /\ worker[w].pc = "claimed" /\ ~IsEntry(row[worker[w].key].at)
    /\ worker' = [worker EXCEPT ![w] = [@ EXCEPT !.pc = "closing"]]
    /\ UNCHANGED <<now, row, cycle, failures>>

(* A pending closure: the ticket shows the time of its last closure, or     *)
(* not yet.                                                                 *)
ReconcilePending(w) ==
    LET t == IF IsEntry(now) THEN now - 1 ELSE now IN
    /\ worker[w].pc = "unproven"
    /\ \/ Later(w) /\ UNCHANGED row
       \/ /\ row' = Recorded(t)
          /\ worker' = [worker EXCEPT ![w] = [@ EXCEPT !.pc = "closing", !.key = KeyFor(t)]]
    /\ UNCHANGED <<now, cycle, failures>>

(* retry_later, for a task; a webhook leaves it to the scan.                *)
RetryLater(w) ==
    LET o == worker[w].origin IN
    /\ worker[w].pc = "later"
    /\ row' = IF o # NoKey /\ row[o].status = "pending" /\ row[o].retries >= MaxAttempts
              THEN [row EXCEPT ![o] = Exhausted(o)] ELSE row
    /\ worker' = [worker EXCEPT ![w] = Idle]
    /\ UNCHANGED <<now, cycle, failures>>

(* A request fails, or a transaction is refused.                            *)
RequestFails(w) ==
    /\ worker[w].pc \in {"claimed", "unproven", "closing"}
    /\ Fail
    /\ Later(w)
    /\ UNCHANGED <<now, row, cycle>>

(* fail_capability: 401 or 403.  The row is not looked at again.            *)
CapabilityFails(w) ==
    LET o == worker[w].origin IN
    /\ worker[w].pc = "unproven"
    /\ Fail
    /\ row' = [row EXCEPT ![o] = Exhausted(o)]
    /\ worker' = [worker EXCEPT ![w] = Idle]
    /\ UNCHANGED <<now, cycle>>

Crash(w) ==
    /\ worker[w].pc # "idle"
    /\ Fail
    /\ worker' = [worker EXCEPT ![w] = Idle]
    /\ UNCHANGED <<now, row, cycle>>

-----------------------------------------------------------------------------
Reconcile(w) ==
    \/ CloseRead(w) \/ CloseApply(w) \/ CloseDone(w)
    \/ ReconcileEntry(w) \/ ReconcileProven(w) \/ ReconcilePending(w) \/ RetryLater(w)

Next ==
    \/ Happen \/ ObserveClosed
    \/ \E t \in Times : EntryWebhook(t) \/ \E w \in OccurrenceWorkers : CloseWebhook(w, t)
    \/ \E k \in Keys, w \in OccurrenceWorkers : ReconcileStart(w, k)
    \/ \E w \in OccurrenceWorkers : Reconcile(w) \/ RequestFails(w) \/ CapabilityFails(w) \/ Crash(w)

Spec == Init /\ [][Next]_vars

(* task_scan_lifecycle_occurrences is on the beat schedule                  *)
(* (core/settings/base.py:262), and workers go on with what they started.   *)
FairSpec ==
    /\ Spec
    /\ \A w \in OccurrenceWorkers :
        WF_vars(Reconcile(w) \/ \E k \in Keys : ReconcileStart(w, k))

-----------------------------------------------------------------------------
(***************************************************************************)
(* Every entry and closure that was recorded is projected, rejected as a   *)
(* duplicate or handed to an operator in the end, although requests fail,  *)
(* processes die and entries overtake closures.                            *)
(***************************************************************************)
OccurrencesSettle == \A k \in Keys :
    (row[k].status = "pending") ~> (row[k].status \in {"processed", "repair_required"})

-----------------------------------------------------------------------------
(***************************************************************************)
(* However deliveries and reconciliations of entries and closures overtake *)
(* and repeat each other, the cycles of the ticket live as CycleAssignment *)
(* says: opened in the order of their entries, one at a time, and closed   *)
(* for good.  Assignments are not seen here, so an open cycle is queued.   *)
(***************************************************************************)
Life == INSTANCE CycleAssignment WITH
    Cycles <- Entries, TicketOf <- [t \in Entries |-> 1], Owners <- {}, NoHolder <- 0,
    state <- [t \in Entries |-> IF cycle[t] = "open" THEN "queued" ELSE cycle[t]],
    holder <- [t \in Entries |-> 0]

CyclesFollowEvidence == Life!Spec

(***************************************************************************)
(* Evidence that counts as processed had its effect, whichever process     *)
(* marked it and although the cycle was looked for in another transaction: *)
(* the cycle of an entry was opened, and a cycle that began before a       *)
(* closure is closed.                                                      *)
(***************************************************************************)
ProcessedHasEffect == \A k \in Keys :
    row[k].status = "processed" /\ row[k].evidence = "proven" =>
        IF IsEntry(row[k].at) THEN cycle[row[k].at] # "none"
        ELSE \E c \in Entries : c < row[k].at /\ cycle[c] = "closed"

-----------------------------------------------------------------------------
(***************************************************************************)
(* "Record that a proven occurrence reached its canonical projection."     *)
(* (lifecycle_occurrence_service.py:192): when a closure is processed, no  *)
(* cycle that began before it is active.  Violated: a closure that is      *)
(* handled before a late entry is known is projected on an older cycle.    *)
(***************************************************************************)
ProcessedWasProjected == \A k \in Keys :
    row[k].status = "processed" /\ row[k].evidence = "proven" /\ ~IsEntry(row[k].at)
        => \A c \in Active : c > row[k].at
=============================================================================
