---------------------------- MODULE QueueIntake ----------------------------
(***************************************************************************)
(* How a ticket that enters NOVO gets a row in the queue.  The webhook of  *)
(* the entry runs task_matchmaker_assign_single, which holds a 30 second   *)
(* lock of the ticket, reads the ticket, opens the cycle of the entry,     *)
(* gets or creates the ticket's row and writes the cycle into it, each in  *)
(* a transaction of its own.  Webhooks are lost and repeated, reads fail,  *)
(* workers are killed; sync_novo_stage_tickets, which runs every day and   *)
(* on request, takes no lock: it searches HubSpot, reads the rows once and *)
(* goes by what it read.                                                   *)
(*                                                                         *)
(* Modelled from apps/support/tasks.py, matchmaker_service.py (enqueue),   *)
(* auto_assign_service.py (sync) and conversation_cycle_service.py.  One   *)
(* ticket; its assignment and its closure are DurableAssignment's and      *)
(* LifecycleOccurrences' and take one step here.                           *)
(***************************************************************************)
EXTENDS FiniteSetsExt, Naturals

CONSTANTS
    Deliveries,     \* task runs of entry webhooks
    MaxRetries,     \* max_retries of task_matchmaker_assign_single
    MaxEntries,     \* bound: entries of the ticket into NOVO
    MaxRows,        \* bound: queue rows at a time, deleted ones still held included
    MaxFaults       \* bound: lost webhooks, failed reads, kills, slow tasks

IntakeAssumption ==
    /\ "free" \notin Deliveries
    /\ MaxRetries \in Nat /\ MaxEntries \in Nat /\ MaxRows \in Nat /\ MaxFaults \in Nat

VARIABLES
    enforced,       \* CONVERSATION_CYCLES_ENFORCED
    ticket,         \* the ticket in HubSpot
    cycle,          \* cycle[e]: the state of the cycle of entry e
    queued,         \* the ticket's NewConversation rows
    assigned,       \* TRUE while the ticket has an AssignedConversation
    inbox,          \* entries whose webhook waits for a worker
    lock,           \* holder of the lock matchmaker_assign:<ticket>
    intake,         \* intake[d]: a running task and the copies it holds
    sync,           \* the running sync and the copies it holds
    lapsed,         \* TRUE once the lock expired under a running task
    mishaps

vars == <<enforced, ticket, cycle, queued, assigned, inbox, lock, intake,
          sync, lapsed, mishaps>>
providerVars == <<ticket, inbox>>
recordVars == <<cycle, queued, assigned>>

Entries == 1..MaxEntries
NoCycle == 0
Free == "free"

NoIntake == [pc |-> "idle", entry |-> 0, run |-> 0, cycle |-> NoCycle, row |-> 0]
NoSync == [pc |-> "idle", entry |-> 0, row |-> 0, failed |-> FALSE,
           assigned |-> FALSE, cycle |-> NoCycle]

Init ==
    /\ enforced \in BOOLEAN
    /\ ticket = [entry |-> 0, novo |-> FALSE, owned |-> FALSE]
    /\ cycle = [e \in Entries |-> "none"]
    /\ queued = {} /\ assigned = FALSE
    /\ inbox = {} /\ lock = Free
    /\ intake = [d \in Deliveries |-> NoIntake]
    /\ sync = NoSync
    /\ lapsed = FALSE /\ mishaps = 0

Mishap == mishaps < MaxFaults /\ mishaps' = mishaps + 1

-----------------------------------------------------------------------------
(* HubSpot: the ticket enters NOVO, leaves it for another stage, or is      *)
(* closed, which ends its active cycle and its projections; a webhook is    *)
(* repeated, or lost.                                                       *)
EnterNovo ==
    /\ ~ticket.novo /\ ticket.entry < MaxEntries
    /\ ticket' = [entry |-> ticket.entry + 1, novo |-> TRUE, owned |-> FALSE]
    /\ \/ inbox' = inbox \union {ticket.entry + 1} /\ UNCHANGED mishaps
       \/ Mishap /\ UNCHANGED inbox
    /\ UNCHANGED <<enforced, recordVars, lock, intake, sync, lapsed>>

Repeat ==
    /\ Mishap
    /\ ticket.entry # 0
    /\ inbox' = inbox \union {ticket.entry}
    /\ UNCHANGED <<enforced, ticket, recordVars, lock, intake, sync, lapsed>>

LeaveNovo ==
    /\ ticket.novo
    /\ ticket' = [ticket EXCEPT !.novo = FALSE]
    /\ UNCHANGED <<enforced, recordVars, inbox, lock, intake, sync, lapsed, mishaps>>

Active(e) == cycle[e] \in {"queued", "assigned"}

Close ==
    /\ ticket.entry # 0
    /\ ticket' = [ticket EXCEPT !.novo = FALSE, !.owned = FALSE]
    /\ cycle' = [e \in Entries |-> IF Active(e) THEN "closed" ELSE cycle[e]]
    /\ queued' = {r \in queued : r.cycle = NoCycle \/ ~Active(r.cycle)}
    /\ assigned' = FALSE
    /\ UNCHANGED <<enforced, inbox, lock, intake, sync, lapsed, mishaps>>

(* The matchmaker with a row it may take: the ticket gets its owner, or the *)
(* row is quarantined because the ticket was not found or the cycle is old. *)
Ready(r) == r.armed /\ r.status = "pending"
Stale(r) == r.cycle # NoCycle /\ cycle[r.cycle] # "queued"

Match(r) ==
    /\ r \in queued /\ Ready(r)
    /\ \/ /\ ~Stale(r)
          /\ queued' = queued \ {r}
          /\ assigned' = TRUE
          /\ ticket' = [ticket EXCEPT !.owned = TRUE]
          /\ cycle' = IF r.cycle = NoCycle THEN cycle ELSE [cycle EXCEPT ![r.cycle] = "assigned"]
          /\ UNCHANGED mishaps
       \/ /\ Stale(r)
          /\ queued' = (queued \ {r}) \union {[r EXCEPT !.status = "stale"]}
          /\ UNCHANGED <<assigned, ticket, cycle, mishaps>>
       \/ /\ Mishap
          /\ queued' = (queued \ {r}) \union {[r EXCEPT !.status = "not_found"]}
          /\ UNCHANGED <<assigned, ticket, cycle>>
    /\ UNCHANGED <<enforced, inbox, lock, intake, sync, lapsed>>

-----------------------------------------------------------------------------
(* open_or_get_cycle, in one transaction: what the entry is to the cycles   *)
(* of its ticket.                                                           *)
Classified(e) ==
    IF cycle[e] # "none" THEN "duplicate"
    ELSE IF \E f \in Entries : f > e /\ cycle[f] # "none" THEN "stale"
    ELSE IF \E f \in Entries : Active(f) THEN "active_conflict"
    ELSE "created"

Opened(e) == IF Classified(e) = "created" THEN [cycle EXCEPT ![e] = "queued"] ELSE cycle

(* _ATTACHABLE_CYCLE_CLASSIFICATIONS.  With a bug: only a cycle that was    *)
(* just created is given a row.                                             *)
AttachableNew == {"created"}
Attachable == {"created", "duplicate"}

CycleFor(e) == IF Classified(e) \in Attachable THEN e ELSE NoCycle
Admitted(e) == Classified(e) \in Attachable \/ ~enforced

(* uniq_new_conversation_cycle: the cycle is in no other row.               *)
Unused(c, id) == c = NoCycle \/ \A r \in queued : r.cycle = c => r.id = id

Row(id) == {r \in queued : r.id = id}
Revivable(r) == r.status = "not_found"      \* can_reactivate

(* A row's id is fresh: no row has it and nobody holds it.                  *)
Fresh == {id \in 1..MaxRows :
            /\ Row(id) = {} /\ sync.row # id
            /\ \A d \in Deliveries : intake[d].row # id}
NewRow(c, armed) == [id |-> Min(Fresh), cycle |-> c, status |-> "pending", armed |-> armed]

-----------------------------------------------------------------------------
(* task_matchmaker_assign_single: a message that finds the ticket's lock    *)
(* taken is left alone.                                                     *)
Goes(d, pc) == intake' = [intake EXCEPT ![d].pc = pc]

Locks(d, message) ==
    IF lock = Free
    THEN lock' = d /\ intake' = [intake EXCEPT ![d] = [message EXCEPT !.pc = "read"]]
    ELSE intake' = [intake EXCEPT ![d] = NoIntake] /\ UNCHANGED lock

Receive(d) ==
    /\ intake[d].pc = "idle"
    /\ \E e \in inbox :
        /\ inbox' = inbox \ {e}
        /\ Locks(d, [NoIntake EXCEPT !.entry = e])
    /\ UNCHANGED <<enforced, ticket, recordVars, sync, lapsed, mishaps>>

Retry(d) ==
    /\ intake[d].pc = "again"
    /\ Locks(d, intake[d])
    /\ UNCHANGED <<enforced, providerVars, recordVars, sync, lapsed, mishaps>>

Released(d) == IF lock = d THEN Free ELSE lock

(* Every return: the lock is released.                                      *)
Done(d) == intake' = [intake EXCEPT ![d] = NoIntake] /\ lock' = Released(d)

(* An exception: released, and run again up to the limit.                   *)
Raises(d) ==
    /\ lock' = Released(d)
    /\ intake' = [intake EXCEPT ![d] =
          IF @.run = MaxRetries THEN NoIntake
          ELSE [NoIntake EXCEPT !.pc = "again", !.entry = intake[d].entry, !.run = intake[d].run + 1]]

(* get_ticket_details and _is_ticket_eligible; a failed read ends the task  *)
(* without a retry.                                                         *)
Eligible == ticket.novo /\ ~ticket.owned

Read(d) ==
    /\ intake[d].pc = "read"
    /\ \/ Eligible /\ Goes(d, "open") /\ UNCHANGED <<lock, mishaps>>
       \/ ~Eligible /\ Done(d) /\ UNCHANGED mishaps
       \/ Mishap /\ Done(d)
    /\ UNCHANGED <<enforced, providerVars, recordVars, sync, lapsed>>

Open(d) ==
    LET e == intake[d].entry IN
    /\ intake[d].pc = "open"
    /\ cycle' = Opened(e)
    /\ IF Admitted(e)
       THEN /\ intake' = [intake EXCEPT ![d].pc = "get", ![d].cycle = CycleFor(e)]
            /\ UNCHANGED lock
       ELSE Done(d)
    /\ UNCHANGED <<enforced, providerVars, queued, assigned, sync, lapsed, mishaps>>

(* get_or_create by ticket: no constraint keeps a second row away between   *)
(* its read and its insert, and a second row makes it raise.                *)
Get(d) ==
    /\ intake[d].pc = "get"
    /\ \/ queued = {} /\ Goes(d, "insert") /\ UNCHANGED lock
       \/ /\ Cardinality(queued) = 1
          /\ \E r \in queued :
              intake' = [intake EXCEPT ![d].pc = IF Revivable(r) THEN "revive" ELSE "attach",
                                       ![d].row = r.id]
          /\ UNCHANGED lock
       \/ Cardinality(queued) > 1 /\ Raises(d)
    /\ UNCHANGED <<enforced, providerVars, recordVars, sync, lapsed, mishaps>>

Insert(d) ==
    /\ intake[d].pc = "insert" /\ Fresh # {}
    /\ queued' = queued \union {NewRow(NoCycle, TRUE)}
    /\ intake' = [intake EXCEPT ![d].pc = "attach", ![d].row = Min(Fresh)]
    /\ UNCHANGED <<enforced, providerVars, cycle, assigned, lock, sync, lapsed, mishaps>>

Revive(d) ==
    LET found == Row(intake[d].row) IN
    /\ intake[d].pc = "revive"
    /\ IF found = {} THEN Raises(d) /\ UNCHANGED queued
       ELSE /\ queued' = (queued \ found)
                 \union {[r EXCEPT !.status = "pending", !.armed = TRUE] : r \in found}
            /\ Goes(d, "attach") /\ UNCHANGED lock
    /\ UNCHANGED <<enforced, providerVars, cycle, assigned, sync, lapsed, mishaps>>

Attach(d) ==
    LET found == Row(intake[d].row)
        c == intake[d].cycle
    IN
    /\ intake[d].pc = "attach"
    /\ IF c # NoCycle /\ (found = {} \/ ~Unused(c, intake[d].row))
       THEN Raises(d) /\ UNCHANGED queued
       ELSE /\ queued' = IF c = NoCycle THEN queued
                         ELSE (queued \ found) \union {[r EXCEPT !.cycle = c] : r \in found}
            /\ Done(d)
    /\ UNCHANGED <<enforced, providerVars, cycle, assigned, sync, lapsed, mishaps>>

Kill(d) ==
    /\ intake[d].pc # "idle"
    /\ Mishap
    /\ intake' = [intake EXCEPT ![d] = NoIntake]
    /\ UNCHANGED <<enforced, providerVars, recordVars, lock, sync, lapsed>>

(* The lock's 30 seconds are over: its task was killed, or is slow.         *)
Holding(d) == intake[d].pc \in {"read", "open", "get", "insert", "revive", "attach"}

Expire ==
    /\ lock # Free
    /\ lock' = Free
    /\ \/ ~Holding(lock) /\ UNCHANGED <<lapsed, mishaps>>
       \/ Holding(lock) /\ lapsed' = TRUE /\ Mishap
    /\ UNCHANGED <<enforced, providerVars, recordVars, intake, sync>>

-----------------------------------------------------------------------------
(* sync_novo_stage_tickets.  Whatever raises ends the run; it starts again. *)
Search ==
    /\ sync.pc = "idle" /\ Eligible
    /\ sync' = [NoSync EXCEPT !.pc = "rows", !.entry = ticket.entry]
    /\ UNCHANGED <<enforced, providerVars, recordVars, lock, intake, lapsed, mishaps>>

(* The rows, then the assignments, are read once for all tickets.           *)
PrefetchRows ==
    /\ sync.pc = "rows"
    /\ sync' \in IF queued = {} THEN {[sync EXCEPT !.pc = "assigned"]}
                 ELSE {[sync EXCEPT !.pc = "assigned", !.row = r.id, !.failed = Revivable(r)] : r \in queued}
    /\ UNCHANGED <<enforced, providerVars, recordVars, lock, intake, lapsed, mishaps>>

PrefetchAssigned ==
    /\ sync.pc = "assigned"
    /\ sync' = IF sync.row # 0
               THEN IF sync.failed THEN [sync EXCEPT !.pc = "revive"] ELSE NoSync
               ELSE IF assigned THEN NoSync ELSE [sync EXCEPT !.pc = "open"]
    /\ UNCHANGED <<enforced, providerVars, recordVars, lock, intake, lapsed, mishaps>>

(* The copy of a row that was not found is saved: the row is pending again, *)
(* but for people only.                                                     *)
SyncRevive ==
    /\ sync.pc = "revive"
    /\ queued' = {IF r.id = sync.row THEN [r EXCEPT !.status = "pending", !.armed = FALSE] ELSE r :
                    r \in queued}
    /\ sync' = NoSync
    /\ UNCHANGED <<enforced, providerVars, cycle, assigned, lock, intake, lapsed, mishaps>>

SyncOpen ==
    /\ sync.pc = "open"
    /\ cycle' = Opened(sync.entry)
    /\ sync' = IF Admitted(sync.entry)
               THEN [sync EXCEPT !.pc = "insert", !.cycle = CycleFor(sync.entry)]
               ELSE NoSync
    /\ UNCHANGED <<enforced, providerVars, queued, assigned, lock, intake, lapsed, mishaps>>

(* A row made here is not assigned automatically.  With a bug: it is.       *)
SyncRowArmed(c) == NewRow(c, TRUE)
SyncRow(c) == NewRow(c, FALSE)

SyncInsert ==
    /\ sync.pc = "insert" /\ Fresh # {}
    /\ sync' = NoSync
    /\ queued' = IF Unused(sync.cycle, Min(Fresh)) THEN queued \union {SyncRow(sync.cycle)}
                 ELSE queued
    /\ UNCHANGED <<enforced, providerVars, cycle, assigned, lock, intake, lapsed, mishaps>>

SyncDies ==
    /\ sync.pc # "idle"
    /\ Mishap
    /\ sync' = NoSync
    /\ UNCHANGED <<enforced, providerVars, recordVars, lock, intake, lapsed>>

SyncStep ==
    \/ Search \/ PrefetchRows \/ PrefetchAssigned
    \/ SyncRevive \/ SyncOpen \/ SyncInsert

Next ==
    \/ EnterNovo \/ Repeat \/ LeaveNovo \/ Close \/ Expire
    \/ \E r \in queued : Match(r)
    \/ \E d \in Deliveries :
        \/ Receive(d) \/ Retry(d) \/ Read(d) \/ Open(d) \/ Get(d)
        \/ Insert(d) \/ Revive(d) \/ Attach(d) \/ Kill(d)
    \/ SyncStep \/ SyncDies

Spec == Init /\ [][Next]_vars

(* The sync is run every day; nothing is assumed of the webhooks' tasks.    *)
FairSpec == Spec /\ WF_vars(SyncStep)

-----------------------------------------------------------------------------
(***************************************************************************)
(* A ticket that waits in NOVO without an owner, not assigned here and with *)
(* no cycle of an earlier entry still open, comes to have a queue row that *)
(* is not one of a ticket that was not found - although its webhook was    *)
(* lost, or its task stopped between the cycle and the row.                *)
(***************************************************************************)
Waits == Eligible /\ ~assigned /\ \A e \in Entries \ {ticket.entry} : ~Active(e)

EntryIsQueued ==
    \A e \in Entries :
        (Waits /\ ticket.entry = e) ~>
            \/ \E r \in queued : ~Revivable(r)
            \/ ~(Waits /\ ticket.entry = e)

(***************************************************************************)
(* While the ticket's lock outlives its tasks, at most one row of a ticket *)
(* is up for automatic assignment: two of them, one with the cycle and one *)
(* without, would be reserved independently of each other.                 *)
(***************************************************************************)
OneArmedRow ==
    ~lapsed => Cardinality({r \in queued : r.armed}) <= 1
=============================================================================
