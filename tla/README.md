# JUDAH support desk in TLA+

JUDAH is the help-desk back end of a Django project: it receives HubSpot
webhooks, keeps a queue of tickets, assigns them to agents by setting the
owner in HubSpot, follows them until they are closed, and exchanges messages
with n8n.  This directory holds a TLA+ development of it: modules that follow
the code of the assignment protocol and of the components around it, TLC runs
that check them on small instances, and TLAPS proofs of the main results for
every instance.

All paths below are relative to `src/`.

## 1. Inventory of the system

| component | state it keeps | operations | what is hard about it | what makes it correct |
|---|---|---|---|---|
| **Durable assignment** `apps/support/durable_assignment_service.py` | `AssignmentAttempt` rows, claim columns of queue rows, agent counters | reserve (automatic, manual), execute, read back, finalize, compensate, retry, repair, purge | HubSpot calls between transactions without locks; PATCH results that are unknown; processes that die; repair concurrent with the worker it repairs | one live attempt per cycle, one finalization, capacity neither leaked nor overbooked, every reservation resolved |
| **Conversation cycles** `conversation_cycle_service.py` | `SupportConversationCycle` rows | classify, open or get, transition | entries delivered late, again, or out of order | at most one active cycle per ticket, opened in order, closed for good |
| **Queue entry and matchmaker** `matchmaker_service.py`, `queue_service.py`, `auto_assign_service.py` | `NewConversation` rows | enqueue, drain, rank agents, change counters | three transactions per entry; row found by ticket, cycle by time | the row of a ticket belongs to its active cycle |
| **Ticket closure** `ticket_close_service.py` | cycles, assignments, `ClosedConversation` | resolve the target, read the provider, materialize | a closure that arrives after the ticket came back | the right cycle is closed, once, and its capacity released |
| **Owner changes** `tasks.py` `task_handle_owner_change` | assignments, counters | converge a queued ticket, transfer an assigned one | people and workers change the owner at the same time; events repeated or stale | counters move with assignments |
| **Ticket occupancy** (enforce mode) `capacity_service.py`, `owner_reconciliation_service.py` | `SupportTicketOccupancy`, `AgentCapacityReservation` | reconcile a ticket, hold, convert, release, materialize | provider snapshots applied late; revision conflicts | an agent's load is the union of occupied tickets and holds |
| **Lifecycle occurrences** `lifecycle_occurrence_service.py` | `SupportLifecycleOccurrence` rows with a retry budget | record, promote, scan, reconcile, mark processed | the same occurrence recorded twice, or proven later | every proven occurrence has its effect once, or is reported |
| **Opening cohort** `opening_cohort_service.py` | `OpeningAssignmentCohort` | evaluate the barrier, release, recheck | release by deadline races release by settlement | released once, drained afterwards |
| **Availability (SAT)** `sat_service.py`, `agent_sync_service.py`, `availability_runtime.py`, `eligibility_service.py` | agent status, revisions, a reconciliation lease | heartbeat, verify eligibility, sync the team | decisions taken from a stale status | a reservation rests on independent sightings of the agent |
| **Administrative API** `admin_api.py` | assignments, counters, audit | manual assignment, forced reassignment | agent read before the HubSpot call and used after it | counters follow the assignment |
| **Owned cache lock** `owned_cache_lock.py` | a Redis key with a token and a TTL | acquire, release | expiry while the work goes on | only its owner releases a lock |
| **Webhook ingestion** `apps/webhooks/services.py`, `api.py`, `tasks.py`, `handlers/` | `WebhookEvent` ledger | accept, deduplicate, dispatch | dispatch lost after commit; concurrent duplicates | each event dispatched at least once |
| **n8n outbox** `apps/webhooks/n8n_outbox.py` | `OutboxEvent`, `N8nThreadDeliveryLock` | claim, deliver, record success or failure, select due | a lease stolen from a slow delivery; late results of old claims | one delivery per thread at a time; a delivered event stays delivered |
| **n8n inbound** `n8n_inbound.py`, **HubSpot reconciliation** `reconciliation.py` | ledger, cursors | ingest, hydrate, reconcile | webhook and reconciliation bring the same message | one ledger entry and one outbox event per message |
| **AI lifecycle** `apps/ai_agents/services/` | `ConversationInstance`, service cycles, events | normalize, route, transition, reopen, watchdog | events out of order, metadata merged without a lock | attendances follow the states, late events do not rewind |
| **Calendar** `helpdesk_calendar/service.py`, `admin_audit.py` | schedule rules, audit rows | edit rules under an idempotency key, resolve a day | repeated and overlapping edits; reads torn by an edit | no edit lost or applied twice, an absence closes |
| **Infrastructure** `common/circuit_breaker.py`, `rate_limit.py` | in-process or cache counters | call, count | half-open probes, expiry of windows | the circuit recovers; the limit holds |
| **HubSpot** (external) `apps/integrations/hubspot/` | ticket stage and owner | read, PATCH, webhooks | anything may fail or be late | - |

The webhook handlers (`apps/webhooks/handlers/hubspot_handler.py`) turn NOVO
entries, closures and owner changes into Celery tasks; the tasks use the
services above; the services share the five tables `support_conversation_
cycles`, `new_conversations`, `assigned_conversations`, `assignment_attempts`
and `agents`, and HubSpot.  Celery beat runs the drain and the repair every 60
seconds.  Language models, knowledge base, analytics, church, health and
authentication keep no protocol state and are not modelled.

`PROJECT.json` lists each component with its status and every hazard found in
the survey at its line.

## 2. Plan

Modules, in the order of their importance.  The core came first, then what
decides whether a ticket reaches it (intake, occurrences, webhooks), what it
rests on (occupancy, availability, locks), and what goes on beside it.
Recursion is kept out of all of them, so that each can be proved about.

1. `SupportRecords`, `DurableAssignment`, `CycleAssignment` (abstract), with
   the proofs of single live attempts and of the refinement.
2. `N8nOutbox`, its abstract specification `SerialDelivery` and, before them,
   `MessageIngestion`, with their proofs.
3. `TicketOccupancy`: the protocol in enforce mode, with its proofs.
4. `LifecycleOccurrences`, `WebhookLedger` (proved), `QueueIntake`: how an
   entry or a closure reaches the records although deliveries are lost.
5. `AgentAvailability`, `OpeningCohort`, `AgentTurns`, `AgentLoad`,
   `OwnedCacheLock` (proved): who may be given a ticket, and whose turn it is.
6. `ConversationLifecycle`, `CalendarRules`, `CircuitBreaker`.

All of these are done, and every safety property that a run checks is a
theorem.  What would come next: one action per row lock of the assignment
protocol, for the order of the locks; the occurrences of owner changes; the
safety part of the two components that are checked for liveness only
(`AgentLoad`, `CircuitBreaker`).

## 3. Modules

| module | contents |
|---|---|
| `SupportRecords` | the five tables of the assignment protocol and what a committed transaction does to them |
| `DurableAssignment` | HubSpot, workers, webhook handlers; actions, specification, fairness, properties |
| `CycleAssignment` | abstract specification of a cycle's life; `DurableAssignment` and `LifecycleOccurrences` implement it |
| `DurableAssignment_proofs` | inductive invariant; refinement of `CycleAssignment`; what the tables say of each other |
| `TicketOccupancy`, `MCOccupancy_proofs` | occupancy rows, holds and counters in enforce mode |
| `AgentTurns`, `AgentTurns_proofs` | ranking and turns of the agents |
| `AgentLoad` | the counter of off mode and those who overwrite it |
| `AgentAvailability` | heartbeat, lease, cache, verification of a candidate |
| `OpeningCohort` | the barrier of the first assignments of a window |
| `QueueIntake` | from the entry webhook, or the synchronization, to a queue row |
| `LifecycleOccurrences` | durable evidence of entries and closures |
| `ConversationLifecycle` | instances, attendances, event order, watchdog |
| `CalendarRules`, `CalendarRules_proofs` | audited edits of the calendar, and its readers |
| `WebhookLedger` | receipt and processing of one webhook |
| `MessageIngestion`, `MessageIngestion_proofs` | ledger, hydration and reconciliation of a thread's messages |
| `N8nOutbox` | delivery to n8n |
| `SerialDelivery` | abstract specification of the delivery of a thread's messages |
| `N8nOutbox_proofs` | inductive invariant of the outbox; refinement of `SerialDelivery` |
| `OwnedCacheLock` | the Redis lock with an owner token |
| `CircuitBreaker` | the breaker around HTTP clients |
| `MCDurableAssignment`, `MCN8nOutbox` | instances, symmetry and a later initial state for TLC |
| `MCOccupancy`, `MCGuards`, `MCRecovery` | several components in one run: a behaviour is one of one component, chosen at the start |
| `MCGuards_proofs` | proofs about the lock, the intake, the availability and the conversations; the calendar's carried over |
| `MCRecovery_proofs` | proofs about the webhook ledger, the opening cohort and the lifecycle occurrences; the latter's refinement of `CycleAssignment` |

`MCOccupancy`, `MCGuards` and `MCRecovery` do not compose components that
interact; they check components side by side, and a state of the run is a state
of one of them.  Components that do interact are composed within a module: lock,
task and synchronization in `QueueIntake`; occurrences and cycles in `LifecycleOccurrences`; heartbeat
and drain in `AgentAvailability`; cohort and drain in `OpeningCohort`; the
support cycle and the conversation in `ConversationLifecycle`; attempt, transfer,
observer and scan in `TicketOccupancy`.

**Configuration modelled.**  `DurableAssignment`, `AgentLoad`:
`SUPPORT_CAPACITY_MODE=off` (the default: load is the column
`current_simultaneous_chats`); `TicketOccupancy`: `enforce`.
`HUBSPOT_PROVIDER_CONTRACT_MODE=off` in `DurableAssignment`, on in
`LifecycleOccurrences`.  `CONVERSATION_CYCLES_ENFORCED=True` with
`HUBSPOT_PORTAL_ID` set, except that `QueueIntake` has both values.
`ABSENCE_SAFE_ELIGIBILITY_ENFORCED` on in `AgentAvailability`,
`OPENING_COHORT_BARRIER_MODE=enforce` in `OpeningCohort`.

### State of the assignment protocol

| variable | code |
|---|---|
| `cycle[c]` | `SupportConversationCycle.state`; cycles are named by their entry time, so they are ordered numbers |
| `row[t]` | the `NewConversation` of a ticket: its cycle (or the ticket itself, when the column is null), `ready` for pending or queued, `failed`, and whether it failed with `hubspot_ticket_not_found`, which `can_reactivate` asks |
| `att[k]` | `AssignmentAttempt`, keyed by scope and assignment type as its unique `idempotency_key` is; `released` is `compensated_at`, `linked` is `queue_row` |
| `conv[s]` | `AssignedConversation.hubspot_owner_id`, per cycle, or per ticket when its cycle is null |
| `load[a]` | `Agent.current_simultaneous_chats` |
| `hub[t]`, `ownerEvents`, `closings` | HubSpot's ticket, and what its webhooks have announced |
| `worker[w]` | what a Celery worker or API thread is executing: program point, attempt, argument, and the transaction it holds open |
| `entry`, `closeReads`, `ownerTasks` | progress of the three webhook tasks |
| `spent` | how much of each bound is used |

### Actions of the assignment protocol

A database transaction is one action and a HubSpot call is one action, because
the code holds no lock across a call.  The exception is
`repair_assignment_attempts`, which keeps its transaction open over the calls:
there `worker[w].tx` is `"repair"` or, once `retry_assignment_attempt` has
reserved the agent again, `"retry"`.  The changes of an open transaction are
not in the tables yet; `Seen(w)` and `Counters(w)` are what the worker itself
reads, `AttemptLocked` and `AgentLocked` what others wait for.

| action | code |
|---|---|
| `EnqueueRead`, `OpenCycle`, `FindRow`, `PointRow` | `enqueue_new_ticket`: the provider read, `open_or_get_cycle`, `get_or_create` and revival, the write of the cycle column |
| `ReserveStale`, `ReserveExisting`, `ReserveNew` | `reserve_next_assignment` and `reserve_manual_assignment` by outcome |
| `Start`, `PreRead`, `PatchApplied`, `PatchRejected` | `_execute_assignment_attempt` |
| `Readback`, `Reread` | `reconcile_ambiguous_attempt` |
| `CompensateStep`, `MarkExternalApplied`, `FinalizeStep` | the three transactions of an attempt's end |
| `RepairScan`, `RepairLock`, `RetryCheck`, `RetryTake`, `RepairConfirm`, `RepairRaises`, `RepairHandler` | `repair_assignment_attempts`, `retry_assignment_attempt` |
| `Purge` | `purge_terminal_assignment_attempts` |
| `CloseRead`, `CloseApply` | `reconcile_close_occurrence`, `apply_close_occurrence` with `_materialize` |
| `OwnerRead`, `OwnerApply`, `OwnerDrop` | `task_handle_owner_change` |
| `HubEnterNovo`, `HubMoveOn`, `HubClose`, `HubEditOwner` | HubSpot and the people who use it (external) |
| `Crash`, `EnqueueDies` | a process that dies between two transactions |

### Abstractions of the assignment protocol

- Time: deadlines (claim TTL, backoff, age of a stuck attempt) only delay a
  step and any delay is possible between two steps, so they guard nothing.
- Eligibility of agents: any agent may be eligible or not at each check; only
  the counter decides what the properties see.
- Any ready row, any candidate, any announced event may be taken next, and any
  number of times: selection order and batch limits are left out.  Events are
  never consumed, which covers repeated and reordered deliveries; an event that
  is never handled covers the lost ones.
- HubSpot reads are current; a read that lags behind a write is not modelled.
- Two deliveries of the same entry do not overlap (the Redis lock of
  `task_matchmaker_assign_single`); its expiry after 30 seconds, and with it two
  queue rows of one ticket, is in `QueueIntake`.  The lock of owner changes protects
  nothing in the model.
- A transfer without a cycle takes the first assignment of the ticket; the
  model takes any.
- A PATCH takes effect before its answer or not at all; a late effect is in
  `TicketOccupancy`.
- Deadlocks between row locks are not modelled: transactions are atomic.
- The cycle states `repair_required` and `cancelled`, the closure of a cycle
  that is active but not current, and `COMPLETED_SAME_CYCLE` are not reachable
  and are left out.
- Moves of a ticket back to NOVO without a closure are left out.

### The outbox

| variable | code |
|---|---|
| `event[e]` | `OutboxEvent`: status, `attempt_count`, and whether `locked_at` is null, within the stale interval or older |
| `lease[t]` | `N8nThreadDeliveryLock`: `current_outbox` and the age of `locked_at` |
| `deliverer[d]` | a Celery process in `deliver_outbox_event`: its `ClaimedDelivery`, what the answer was classified as, and whether the stale interval of its claim has passed |
| `taken` | the events n8n has accepted |

| action | code |
|---|---|
| `Claim` | `claim_outbox_event`, one transaction over the event and the lease |
| `Post` | `httpx.post` and `_classify_response` |
| `RecordSuccess`, `RecordFailure` | the second transaction, with `_release_thread_lease` |
| `Unconfigured` | URL or secret missing: `_record_failure` with the refund |
| `Expire` | the stale interval passes (`_processing_stale_seconds`) |
| `Crash` | a process dies, or `httpx.post` raises something that is not caught |
| `Replay` | the operator's replay of a dead letter, as `docs/architecture/n8n-inbound-adapter.md` describes it (external) |

All events exist from the start: an event that has not arrived is one that
nobody has claimed.  Any event may be offered to any process at any time, by the
dispatch after the commit or by the poll; the guards are those of the claim.
Backoff is any delay.  n8n takes an event that it accepts, never one it rejects,
and may or may not have taken one whose answer is malformed or missing.
`CANCELLED` is never written.  An event without a thread is never claimed and is
left out.

### Ticket occupancy (enforce mode)

`provider[t]` is the sequence of versions of a ticket (owner, closed or not);
`occ[t]` its `SupportTicketOccupancy` with the version last applied; `op[w]` an
assignment attempt or a forced transfer with its `AgentCapacityReservation`;
`flight` the operations whose PATCH may still land; `agent[a]` the capacity
columns; `proc` and `scan` the local state of `reconcile_ticket` and
`refresh_agent_capacity`.

| action | code |
|---|---|
| `Capture`, `ReadProvider`, `Apply`, `Refuse` | `reconcile_ticket`: revision, provider read, transaction or conflict; shared by owner webhooks (`Watch`), attempts, transfers and scans |
| `Reserve`, `Retry`, `Compensate`, `Finalize`, `Precondition...`, `Patch`, `Readback...`, `Repair` | the enforce branches of `durable_assignment_service.py` |
| `ReserveTransfer`, `TransferEnds` | `_capacity_force_reassign` |
| `ScanStart`, `ScanList`, `ScanNext`, `ScanEnd` | `refresh_agent_capacity` |
| `PersonAssigns`, `PersonCloses`, `Land`, `Crash` | people, HubSpot (a PATCH lands sooner or later, or never), processes |

What an applied snapshot does to queue and cycles is in `SupportRecords`, the
pending closures are in `LifecycleOccurrences`.  The effect lock of an attempt
(120 s) is assumed to be held while its process works.

### Whose turn, and how loaded

`AgentTurns` has `chats`, `last` (`last_assignment_at`), `log` (the agent of the
last logged automatic assignment), for each drain its old ranking, as the
place of each candidate, and in `left` the attempts of each agent that no drain
works at any more: with their chat, given back and due for a retry, or with an
owner that is still to be read.  `Rank`
is `get_ranked_eligible_agents`, `Reserve` the row-locked check and increment,
`Finalize` the log, `Compensate` the undoing, which gives the chat back and not
the turn, `Leave` a drain that dies or raises.  `RepairLogs`, `RepairUndoes` and
`Retry` are what `repair_assignment_attempts` does with an attempt at any later
time, while drains go on.  `Assigned` are the writers of `last_assignment_at`
that ask nobody for a turn: the manual reservation, the owner webhook
(`increment_agent_chat_count`) and, in enforce mode, `reconcile_ticket`.
`passed[a]` counts the tickets drains gave to others while `a` could have had
one, and `logged[a]` the assignments of `a` itself that were logged meanwhile;
neither is in the code.  Reservations are numbered in the order of their
commits: a `last_assignment_at` that was read from the clock before a commit it
follows is not modelled.  The undoing of an assignment by people is `Ends`; a
retry that raises leaves its attempt as `RepairUndoes` does.

`AgentLoad` has HubSpot's owners and the search index that lags behind them,
the holder and the reservation of each ticket, and the counter.  Three writers
overwrite the counter with a number they read before: the load check of the
matchmaker, the synchronization and the hourly recount (`Ask`, `Overwrite`);
owner webhooks, assignments and forced reassignments (`ForceRead`,
`ForcePatch`, `ForceApply`, `ForceStops`) move it by one.

### Availability and opening cohort

`AgentAvailability`: each heartbeat takes the lease of
`AvailabilityReconciliationLease`, whose `generation` is the fencing token,
asks HubSpot for the users or finds the answer in the cache, and decides agent
by agent in transactions that compare the token (`Step`); a drain verifies its
candidate with HubSpot once more and looks at the row under its lock (`Verify`,
`Reserve`).  The clock counts the stable seconds and the expiry of lease and
cache.  `seen[a]` records the answers that found the agent; it is not in the
code.

`OpeningCohort`: `Come`, `Settle`, `Go` are what heartbeats find; `Precheck` is
the first look of `reserve_next_assignment`, `Reserve` its transaction;
`Recheck` the callback, which may be lost; `Beat` the scheduled drain, which
finalizes expired cohorts.  There is one window, and its first moment is 0.

### Queue intake

`Receive`, `Read`, `Open`, `Get`, `Insert`, `Revive`, `Attach` are the steps of
`task_matchmaker_assign_single` with `enqueue_new_ticket`, between which other
processes run; `Expire` ends the 30 second lock under a task; `Retry` is the
task's retry, `Kill` its loss.  `SyncStep` is `sync_novo_stage_tickets`: search,
prefetch, and for the ticket the cycle and the row, without a lock.  `Match`
and `Close` stand for the assignment and the closure, which the other modules
have.

### Lifecycle occurrences

Entries happen at odd times, closures at even ones; `row` is
`SupportLifecycleOccurrence` by its `evidence_key`; `cycle` the state of each
entry's cycle.  `EntryWebhook` and `CloseWebhook` record; `ObserveClosed`
records a closure without its time; `ReconcileStart` is the claim of
`task_reconcile_lifecycle_occurrence` with its budget, followed by
`ReconcileEntry`, `ReconcileProven` or `ReconcilePending`; `CloseRead`,
`CloseApply`, `CloseDone` are the closure itself; `RetryLater`,
`RequestFails`, `CapabilityFails` and `Crash` are its failures.  The age limit
of an occurrence and owner changes are left out.

### Conversations

One ticket has a placeholder instance and the instance of its thread.
`Record` is the transaction of `record_normalized_event`; a late event is
recorded without an effect; a closing event is deferred to the closure of the
support cycle (`CloseRead`, `CloseApply`), which ends every instance of the
ticket.  HubSpot's events have the time of what they tell (`at`) and the time of
their webhook (`when`, 0 where `occurredAt` is missing).  Time need not pass
between two events: they may share a millisecond, and `Stale` lets equal and
missing times through as `_is_stale_provider_event` does.
`Assign`, `AssignRead`, `AssignApply` are the projection of a human
assignment; `Scan`, `Supersede`, `Count`, `MarkRetryable`, `GiveUp` the steps
of `run_lifecycle_watchdog`, which saves a copy it read without a lock.

### Calendar

`Ask`, `Audit`, `Lock`, `Commit`, `Conflict`, `Rollback`, `RecordFailure` and
`Crash` are `execute_audited_action` around `save_rule` and `deactivate_rule`;
`ReadRules`, `ReadIntervals`, `Resolve` are `get_active_rules` (two queries) and
`resolve_day`.  Whether a rule is for today and holds the present time are two
truth values.

### Webhooks and messages

`WebhookLedger` follows one event: `Receive` is the request, which fails and is
repeated when the broker is down; `Start`, `Record`, `Effects`, `Save`, `Mark`
are `process_webhook_event` on the copy of the row it read; `Fail`, `Untrack`
and `Again` its failures and retries; `Lose` kills the worker.  The handler of
a failure itself does not fail in the model: where `mark_event_failed`, the
dead letter or the save of the counter raises (`services.py:228`-`254`), the
task ends without a retry, as that of a killed worker does.

`MessageIngestion` names messages by their creation.  `Webhook` stores the
envelope and sends the hydration, `Hydrate` reads and ingests, with the error
recorded late (`HydrateFail`); `Claim`, `SkipShut`, `SeeOpen`, `List`,
`IngestNext`, `Advance`, `Finish`, `Fail`, `Die`, `Expire` are
`reconcile_cursor`.  The thread may be marked as spam, closed and opened again
at any time (`shut`, `Turn`): a reconciler that finds it so ends its pass as a
success and has listed nothing (`SkipShut`, `reconciliation.py:161`), and one
that saw it open lists it although it may be shut by then.  A claim becomes
stale by its age alone, whether or not its holder still works.  `Ingest` is the
transaction of `ingest_hubspot_message`, in which the outbox row appears that
`N8nOutbox` goes on with.

### Locks and breaker

`OwnedCacheLock`: `Acquire` draws a new token, `Expire` drops the key under a
worker that goes on (`overrun`), `Release` compares and deletes.
`CircuitBreaker`: `Call` is one thread's next step in `call` - state, place,
function, result - with preemption between a read and a write; `Elapse` is the
recovery timeout.

## 4. Runs

| run | instance | question |
|---|---|---|
| `race` | one cycle, two agents, two workers, both assignment types, two faults, one stage move; starts queued | `SingleLiveAttempt`, `CompletedOnce`, `IInv`, `NoCapacityLeak` while drain, administrator and repair race |
| `people` | one cycle, one agent and one owner without an agent row, one worker, two owner edits, one stage move, one fault; from the entry | `CompletedWasApplied`, `CyclesKeepTheirPromise` while people edit owners |
| `two_cycles` | two cycles of one ticket, three deliveries, one stage move; from the first entry | `ProjectionAgrees` over a reopening |
| `two_tickets` | two tickets, one agent with one place, two workers, one fault; starts queued | `NoOverbooking` |
| `repair_live` | one cycle, both types, one worker, one fault, one stage move, fairness | `ReservationResolved` |
| `outbox` | two events of one thread, two processes, two attempts, one fault, two slow deliveries, one replay, fairness | the properties of `N8nOutbox` |
| `ingestion` | three messages, one not from the customer, a hydration task, two reconcilers, lookback of one message, one fault, a thread that is shut and opened at any time, fairness | the properties of `MessageIngestion` |
| `occupancy` | one ticket, an agent and another owner, an attempt, a transfer, an owner webhook, a scan, three versions, one fault; and three agents with two drains, eight reservations, one change (of eligibility, a closed chat, an attempt undone or left to the repair, or an assignment by people) | the properties of `TicketOccupancy`, `BoundedBypass` |
| `guards` | conversation: one watchdog, four provider events, one of them another change, a message, or of the time of the one before or none; availability: one agent, two heartbeats, a drain; calendar: two requests, keys and rules; lock: three users; intake: two tasks, two entries | the safety of the five |
| `recovery` | occurrences: three events; cohort: two agents, two drains; ledger: two deliveries, four faults; breaker: one thread; load: one ticket, two changes; intake: two tasks, one entry | the liveness of the six, and their safety |
| `lost_close`, `stuck_circuit` | the smallest instance of each finding | section 6 |

The properties of the assignment protocol:

- `SingleLiveAttempt`: a cycle has one live attempt at most, over both types.
- `CompletedOnce`: a completed attempt took its cycle out of the queue and is
  the only completed one of the cycle.
- `CompletedWasApplied`: an attempt is completed only for an owner that HubSpot
  really had for the ticket.
- `NoCapacityLeak`: a counter never exceeds the attempts that still hold
  capacity and the assignments the agent holds.
- `ProjectionAgrees`: an assigned cycle has a holder, a queued one has none.
- `NoOverbooking`: a worker never raises a counter above the maximum; owner
  webhooks may, since they record what people did.
- `ReservationResolved`: a reserved or externally applied attempt does not stay
  so for ever.
- `CyclesKeepTheirPromise`: the refinement of `CycleAssignment`.
- `IInv`: the inductive invariant of the proofs, type correctness included.

`ProjectionAgrees` and `NoCapacityLeak` are stated for tickets that have no
assignment without a cycle (`Untangled`).  `enqueue_new_ticket`
creates the row and writes the cycle in two transactions; a drain between them
creates an attempt without a cycle, and later a second attempt for the cycle is
possible: two reservations of one ticket, of which the older one takes the
assignment over when it is finalized.  The state is reachable in the runs that
start from the entry, and `CyclesKeepTheirPromise` is checked and proved for it
as well.

Of occupancy, turns and load:

- `CounterAgrees`: an agent's counter is the number of tickets that are active
  for the agent or held, after every step of every writer.
- `FlightIsHeld`: the hold of a PATCH that may still land is not given back.
- `ObservationsAdvance`: an occupancy never returns to an older version.
- `ReadyWasScanned`: a scan makes an agent ready only with the tickets it read.
- `BoundedBypass`: drains pass an agent that may be given a ticket over at most
  once per agent and drain, and once more per drain for each assignment of the
  agent itself that is logged meanwhile: a log that comes late, from a drain or
  from the repair, leaves the agent out of the rankings again.  Nothing bounds
  the late logs but the number of the agent's own open attempts, which may be
  left to the repair while drains go on, so they are counted and not bounded by
  the drains.  What the repair logs for other agents is no ticket a drain gave
  away and is not counted.
- `LoadConverges`: once tickets stop changing hands, the counter of off mode
  becomes the number of tickets HubSpot shows, and stays so.

Of what leads to an assignment:

- `ReservedWasSeenThrice`: a reservation rests on three requests answered
  "available", with nothing to the contrary since the first.
- `NoEarlyAssignment`, `BarrierEnds`: rows that waited are not assigned while
  the cohort is active; the barrier ends, once, also without its callback.
- `OneInTime`: of two holders of a lock one has outlived it.
- `OneArmedRow`: while the lock outlives its tasks, one row of a ticket at most
  is up for automatic assignment.
- `EntryIsQueued`: a ticket that waits without an owner gets a usable row,
  although its webhook is lost or its task dies.
- `OccurrencesSettle`: an occurrence is projected, rejected or handed to an
  operator.
- `ProcessedHasEffect`: an entry counts as processed only with its cycle opened,
  a closure only with a closed cycle that began before it.  This is what is true
  of the stronger `ProcessedWasProjected`, which `lost_close` refutes.
- `CyclesFollowEvidence`: the refinement of `CycleAssignment` by webhooks and
  reconciliations that overtake and repeat each other; assignments are not seen
  there, so an open cycle is queued.
- `ProcessedWasSent`, `WebhookSettles`: a webhook marked processed has had its
  effect; every webhook is processed or dead-lettered unless a worker is killed.

Of conversations, calendar, messages and breaker:

- `AttendanceFollowsState`, `ClosedTicketIsQuiet`, `OnlyNewsReopens`: the last
  attendance is open exactly while the state is not terminal; a closed ticket
  leaves none open until an entry is recorded that is not dated before the
  closure; and only an entry that is new in the ledger and not dated before the
  closure reopens.  "Not dated before" is the documented rule for late webhooks
  (`lifecycle.py:498`): a later time, the same millisecond, or no time.
- `AuditMatches`, `NoLostEdit`, `AbsenceCloses`: an edit is applied once and
  exactly when its audit row says so; no edit is lost; an absence that was there
  when a reader began closes the day.
- `ReadyHasOutbox`, `CursorPassesNothing`, `EveryMessageSettles`: one outbox row
  per ready message; the cursor hides no message that is not settled; all are
  settled in the end, those that came while the thread was spam or closed
  included, provided that it stays open from some time on (`StaysOpen`).
- `DeliveredWasTaken`, `DeliveredIsFinal`: an event is marked delivered only
  when n8n accepted it, and no late result takes that back.
- `DeliversSerially`: as long as no delivery outlives the stale interval, the
  refinement of `SerialDelivery`: a message is served when no other of its
  thread is, n8n takes it only while it is served, and it is confirmed only
  after that.  The condition is needed (section 6).
- `EventSettles`: every event is delivered or becomes a dead letter.
- `CallsGetThrough`: a circuit closes again and again, unless a probe was wasted
  on an excluded exception.

Four more are stated in the modules and proved (section 5) but not listed with a
run, because one of the above shows most of what they say on the same instance:

- `LeaseFollowsEvent`: a lease names an event that is being processed and is as
  old as its claim; so a lease never blocks its thread longer than its event,
  which `EventSettles` needs.
- `OneDeliveryPerThread`: under the condition of `DeliversSerially`, two
  processes never deliver for the same thread at once.
- `SettledStays`: a settled message stays settled.  A ready one that changed
  would break `ReadyHasOutbox`.
- `NobodyProlongs`: the cohort of a window is formed once and only ever
  released, and no row is deferred past its deadline; `BarrierEnds` says that a
  released cohort stays so.

**Bounds.**  `MaxOwnerEdits`, `MaxStageMoves`, `MaxFaults` and `MaxDeliveries`
bound what people, HubSpot and failures do; everything the program does in the
assignment protocol is unbounded.  One fault is one crash or one failing repair
anywhere; two let a crash be followed by a repair that raises while another
worker concludes.  One stage move lets a closure or a departure from NOVO happen
at every point; two workers give every pairwise race, and all shared state is
guarded by locks on single rows, so a third worker meets the same guards.  One
agent with `MaxChats = 1` makes the limit matter at the first reservation.  A
second cycle needs the closure of the first, which is why `two_cycles` has one
stage move and three deliveries: two entries, and one of them again.

In the outbox, two processes and two events of one thread give every pair of
claims; with `MaxSlow = 2` a claim that took over is taken over again.  In
ingestion, three messages and a lookback of one are the least with a message
that the lookback hides; two reconcilers overlap because the first message
releases the claim.  In the occupancy run, three versions let a ticket move
away and back, and a scan, an attempt, a transfer and a webhook are all the
kinds of writers; the counters of two tickets only add up (the theorem has any
number).  Three agents and two drains may pass an agent over six times, and two
times more for each late log of its own; with eight reservations six are reached
without a late log, and at least five with one, and four chats for each agent
leave room for them.  One change is one attempt that is left to the repair, or
one agent that comes back.

In ingestion the thread turns without a bound, and one fault is one failing
request, lost task or dead reconciler anywhere.

In `guards`, four events are an entry, its closure, a second entry and one
closure more, or an odd one among them: `MaxOdd = 1` is one other change or
message, or one entry or closure that shares the time of the event before or
has none; a webhook that is dated later than its event (`MaxLag = 1`) was
checked for the conversations alone, with the same result.  Three leases let a
heartbeat overtake one that outlived its lease and be overtaken itself; two requests with two keys give a repetition and an
overlap; three users of a lock let one that overran release while two others
come; two entries give a second cycle and its repeated webhook.  In
`recovery`, `MaxTime = 3` is an entry, its closure and a later entry;
`MaxRetries = 2` with four faults exhausts the runs of both deliveries; a
threshold of two failures opens the circuit twice; the load of one ticket can
only be wrong by one, in either direction, which is what each writer does.

**Deadlock** checking is off: when everything is settled and the bounds of the
environment are used up, nothing more happens.  The two violation runs
stop at their counterexample.

**Fairness.**

- Assignment (`Fairness`, used by `repair_live`): weak fairness of a worker's
  current step: the process goes on unless it dies, and HubSpot calls end with
  an answer or a timeout.  Strong fairness of `RepairScan` per worker and
  attempt: beat starts the repair every 60 seconds (`core/settings/base.py:295`),
  each run takes every due attempt up to 100, and a worker is idle infinitely
  often.  Nothing is assumed of people, HubSpot's webhooks, the drain, or the
  outcome of a call.
- Outbox: a process goes on unless it dies, and a request ends; the stale
  interval of an abandoned claim passes; and a due event that can be claimed all
  the time is claimed.  The last one is `poll_n8n_outbox_task`, which the
  repository does not schedule by itself (`core/settings/base.py:449`):
  `EventSettles` holds for deployments that schedule it.
- Ingestion: reconcilers go on and are started; claims become stale.  Nothing
  is assumed of webhooks and hydrations.  That the thread stays open is a
  condition of the property, not of the specification.
- Occurrences: `task_scan_lifecycle_occurrences` is on the beat schedule
  (`core/settings/base.py:262`), workers go on.  Nothing is assumed of webhooks.
- Cohort: time passes and the drain is on the beat schedule
  (`core/settings/base.py:291`).  Nothing is assumed of the callback.
- Ledger: HubSpot repeats a request that failed, the broker hands out tasks and
  re-sends retries, a worker goes on unless it is killed.
- Breaker: the recovery timeout passes, and callers go on calling.
- Load: HubSpot's index catches up, reservations are concluded (see
  `repair_live`), the hourly recount is on the schedule, and a started read ends.
- Intake: only the synchronization, which runs every day.

## 5. Proofs

The eight proof modules are checked by TLAPS without assumptions beyond those of
the constants, which TLC evaluates in the passing runs.  Of the assignment
protocol: cycles are positive numbers with a ticket each, scopes, owners and the
two null values are distinct, the types are among automatic and manual,
`MaxChats` is positive and the bounds are numbers.  Finiteness is assumed only
where something is counted or a best one chosen: of the tickets of
`TicketOccupancy`, the drains of `AgentTurns` and the rules of `CalendarRules`.
The values that stand for nobody are not in the sets they are added to
(`"nobody"` is no request, `"free"` no task).  `AgentAvailability` assumes that
a reading stays in the cache for less than the stable time: 15 seconds
(`apps/integrations/hubspot/client.py:730`) and, by default, 30
(`core/settings/base.py:237`).

An invariant that is named below was first checked by TLC on the instance of its
run.  The theorems about the turns and about the calendar are proved in
`AgentTurns_proofs` and `CalendarRules_proofs`; `MCOccupancy_proofs` and
`MCGuards_proofs` carry them over to the instances that the runs check
(`SameTurns`, `SameCalendar`: both instances have the same steps).

**`Invariance`: `Spec => []IInv`.**  `SingleLiveAttempt` is not inductive.
`ReserveNew` is harmless, since it looks for live attempts first; `RepairHandler`
is harmless because of the partial unique index.  The danger is a step that
makes a concluded attempt live again.  A compensation inside a retry writes
`retryable` over what it believes is `reserved`; that is harmless only because
the attempt in the table is still `retryable` - hence live already - while the
retry holds its row (`RetriesHold`).  That in turn needs that nobody else writes
the row, that is, that two transactions never hold the same attempt
(`LocksExclude`), that idle workers hold nothing (`IdleFree`) and that a worker
only acts on attempts that exist (`KeysExist`), which needs that `Purge` removes
no attempt a worker still has.  `AgentsKnown` and `ErasKnown` serve type
correctness.  The proof has one step per action.

**`TypeCorrect`, `AttemptsAreSingle`**: `Spec => []TypeOK` and
`Spec => []SingleLiveAttempt`, from `Invariance`.

**`OneCycleIsActive`: `Spec => []OneActive`.**  An active cycle is the newest
known cycle of its ticket; so a ticket has one active cycle at most.

**`PromiseKept`: `Spec => CyclesKeepTheirPromise`.**  Under the mapping
`state <- cycle`, `holder <- Holder`, every step is a step of `CycleAssignment`
or a stutter.  `OpenCycle` is `Open`, a finalization or an adoption of a queued
ticket is `Assign`, a transfer is `Reassign`, a closure is `Close`.  The mapping
has to say who holds a cycle whose assignment was taken over by an attempt
without a cycle (the owner recorded for the ticket).  That such a take-over
changes the holder of one assigned cycle only is where `OneActive` is needed.

**The tables** (`RecordsInvariance`, given `IInv`).  `RecordsInv` adds what the
tables say of each other and of HubSpot.  Whatever HubSpot shows as an owner, or
an attempt records as applied, was announced (`EffectsAnnounced`): so
`CompletedAfterEffect`, through every lost and repeated answer.  A row, and a
task that makes one, belong to a cycle that was opened (`RowsOpened`), hence a
finalization never meets a cycle that is none: `FinalizedOnce` and
`ProjectionsAgree`.  `CapacityNotLeaked` is about two numbers, the counter and
what it may count; every transaction changes at most one attempt and one
assignment, so each step compares three sizes that change by one at most
(`OneMoreOrLess`).  It needs that a retryable attempt gave its capacity back
(`RetryableReleased`), and `NeverOverbooked` that the agent a retry has locked
still has room (`RetriesHaveRoom`), although the counter is raised only when
the transaction ends.

**The outbox.**  `OutboxInv` adds to the types three facts that make each other
inductive.  `LeaseFollowsEvent` says that a lease and the claim of its event age
together.  `ClaimsHold` says that, as long as nothing was slow, every process at
work has a processing event with a fresh lock, alone, and that event has the
lease; a new claim of the thread is then impossible, because the lease is as
fresh as the event.  `SuccessesTaken` carries n8n's acceptance from the answer to
the row.  From it follow `OutboxTypes`, `DeliveryIsConfirmed`, `LeaseIsInUse` and
`DeliveriesAreSerial`; `DeliveryIsFinal` is an action property.

**`OutboxIsSerial`: `Spec => DeliversSerially`.**  An event is `served` in
`SerialDelivery` while some process works on it, and otherwise what its row says.
The row alone will not do: it says `processing` for ever after a crash, until it
is claimed again, while nobody serves the event.  By `ClaimsHold` nobody else
works on an event whose process concludes, so a conclusion is `Confirm` or
`Fail`, a crash is `Fail`, a claim is `Serve`, and `Expire`, which only ages
locks, is a stutter (`ExpiryUnseen`).  The condition is
that `spent.slow` is 0 after the step; it never falls, so it was 0 before too.

**Ingestion.**  `IngestedOnce` needs the rows only.  `NothingIsPassed` needs the
walk of each reconciler as well: a reconciler whose claim was released or taken
over still advances the cursor, so what it has listed must be enough by itself.
The messages a later one would hide behind the lookback are settled unless the
reconciler still has them before it (`Hidden`), its cutoff is not later than the
cursor's, and the oldest message is settled when the cursor is about to move.
`SettledForGood` is the action property of the rows.

**Occupancy.**  `CountersAgree` is nearly inductive once every row, hold and
capture is known to name its ticket and agent: each transaction materializes all
agents whose tickets or holds it touched, and the lemmas say that for another
agent the set of counted tickets stays.  `VersionsAdvance` follows from the
version a process has read being one of the ticket's and from the comparison in
`Apply`.

`HoldsOutliveTheirPatch` needs to know who may give a hold back while a PATCH is
on its way (`HoldsInv`): its own operation, which is live, in repair or done and
is neither before its PATCH nor rejected; and a snapshot of a closed ticket,
which no later version opens again.  `ScansAreComplete` compares two counters:
an agent's generation moves whenever its tickets do, the tracker of a scan with
the reads of that scan; as long as they agree, every ticket that counts for the
agent was read or is still to be read (`Follows`).

**Turns.**  `NobodyIsPassedOver` bounds a count, so the invariant bounds what
may still be added to it.  `Left(a)` is the set of pairs of a drain and an agent
whose ticket the drain may yet log before `a` has its turn: agents ahead of `a`,
those that an old ranking prefers, and `a` itself for a drain that may log
anybody - because the last log names `a`, the ranking leaves `a` out, or
something is reserved.  A drain that logs another agent removes a pair; one that
reserves exchanges a pair for another; the repair, a retry and people, who move
`last` and the log without a drain, add none - but for a log of `a` itself,
late or not, which adds one pair for each drain at most.  So the sum of the
count and the pairs, less a drain's worth for each log of `a`, never grows while
`a` may be given a ticket, and it starts with at most `drains * agents`.  The
attempts that are left to the repair need not be bounded: what they can do to
the order of the agents is one of these steps.

**Calendar.**  An audit row is reserved exactly while one transaction works
under it (`ReservedBy`, `HasReserved`); the copy that is about to be saved is
the rule as it is, and nobody else is about to save that rule
(`CopyIsCurrent`); what a reader has of a rule agrees with it, but for the
hours, until there is a newer version (`Agrees`).  From these `AuditIsTrue`,
`EditsAreKept` and `AbsencesClose`.

**Intake.**  `OneRowIsArmed`: while no lock lapsed, the one task at work holds
the lock, and a task that is about to insert or revive a row found no other
armed one (`ArmsAlone`); the synchronization, which takes no lock, arms no row.

**Availability.**  `ReservationsRest`: the danger is one answer that is counted
twice because it was found in the cache again.  As long as all samples of a run
are one reading, the run is shorter than a reading stays in the cache (`InUse`,
`IsRun`), hence shorter than the stable time, and the agent is not eligible.

**Conversations.**  `LifecycleInv`: rows follow their state, and the cursor of a
row is not before its closure (`RowFollows`, `RowIsDated`); an event of the
ticket has a row to end in, the placeholder's or the thread's
(`IdentitiesHold`); and until an entry is recorded that is not dated before the
closure, every row of the ticket has ended and its cursor has reached the
closure (`QuietAfterClosure`), so that an older event is late for it.  Nothing
is said of the times of HubSpot's events: equal, missing and later ones are
covered.  From it follow `AttendancesFollow`, `ClosureQuiets` and the action
property `NewsAloneReopens`.

**Cohort.**  `NobodyJumpsTheBarrier` is the second look of a drain: the step that
assigns evaluates the barrier in the state it assigns in, and the cohort it
leaves is not active, whatever the first look was.

`BarrierIsBounded`: a step that forms the cohort does so before the deadline and
while somebody is stabilizing; the first sighting is the least of a finite set
of numbers and the recheck is cut off at the deadline (`FormedInTime`), so a
cohort rechecks no later than it ends.  After that a step only releases the
cohort (`BarrierEvaluated`), and a row is deferred to its recheck.

**Occurrences.**  `OccurrencesInv` says what is known of a row: it has a time
exactly when its evidence is proven, and proven evidence is never replaced.  A
worker that is about to mark a closure has found a closed cycle that began
before it (`Knows`), and that stays so between its two transactions, because a
cycle only moves from none to open to closed (`CyclesGrow`).  From it follows
`ProcessedIsProjected`.  For `EvidenceKeepsOrder` an entry that opens a cycle is
newer than every known one and meets no active one; a closure closes the newest
of those before it, which exists because a finite set of entries has a last
(`LastOf`).  Everything else a worker does is a stutter.

**Ledger.**  `ProcessedOnlyAfterSent` needs the mark of the lifecycle event in
the invariant: a later delivery takes a processed event for done and sends
nothing, so that mark must not precede the effect either.

**Lock.**  `HoldersAreInTime`: a worker in time holds the stored token, and no
token is drawn twice.

**Only model-checked**: the liveness properties (`ReservationResolved`,
`EventSettles`, `EveryMessageSettles`, `OccurrencesSettle`, `BarrierEnds`,
`WebhookSettles`, `CallsGetThrough`, `LoadConverges`, `EntryIsQueued`), because
TLAPS reaches neither fairness nor ENABLED, and the two findings.

## 6. What the code does not do

Two findings are runs whose counterexample TLC finds.

- `lost_close`: a closure that is handled before a late entry is known is
  applied to an older cycle, or taken for its duplicate, and marked processed;
  the entry then opens a cycle that no closure ends.
- `stuck_circuit`: a probe of a half-open circuit that ends in an excluded
  exception (a 404) keeps its place; no later call is let through.

Differences that are described here and not run.

Assignment:

- An older entry, delivered again after the ticket came back, points the
  ticket's queue row at the closed cycle (`matchmaker_service.py:432`); the row
  is then quarantined as stale while the new cycle stays queued.
  `conversation_cycle_service.py:26`: "An older occurrence never alters a newer
  cycle".
- A row quarantined for a 404 is revived in the same cycle
  (`matchmaker_service.py:412`), but the idempotency key of that cycle and type
  is spent: the next reservation raises `IntegrityError` and ends the drain.
- The exception handler of the repair overwrites an attempt that another worker
  concluded after the scan (`durable_assignment_service.py:1178`).
- An attempt that gave its capacity back because the owner was unreadable is
  finalized by a later repair without taking it again
  (`durable_assignment_service.py:849`).
- A retryable attempt of a closed cycle is skipped by every repair and never
  ends (`durable_assignment_service.py:1039`); its `updated_at` never changes,
  so it stays at the head of the batch of 100.
- The owner PATCH is unconditional, so an owner that a person sets between the
  precondition read and the PATCH is replaced
  (`durable_assignment_service.py:700`, against
  `docs/research/manual-assignment-auto-assignment-hotfix.md:33`).
- The removal of an owner cannot be stored, because the column is not nullable
  (`tasks.py:979`); an owner found before the PATCH quarantines the row, and the
  owner webhook then no longer converges it.

Intake and turns:

- A synchronization that races a webhook task leaves two rows of a ticket, an
  armed one without cycle and its own with the cycle; `get_or_create` then
  raises `MultipleObjectsReturned` for every later webhook.
- The synchronization may create a row for a ticket that was assigned or closed
  after its prefetch; such a row stays, and it is not automatically assignable.
- A delivery that finds the lock held is dropped; an entry while an older cycle
  is active stays in conflict until a closure; "stale_cycle" rows are never
  revived.
- "Never assign two consecutive tickets to the same agent"
  (`queue_service.py:8`) is broken by overlapping drains: the log is written at
  finalization and rankings are old.  An undone attempt costs the agent its turn.
- The log of an attempt that was left to the repair is written when the repair
  finds its owner, however long after (`durable_assignment_service.py:774`): its
  agent is then left out of the next rankings although others had tickets since,
  and whoever had the last one is no longer left out.

Enforce mode, availability, load:

- A hold converted by a human assignment no longer covers a PATCH in flight; an
  unconfirmed transfer keeps its hold, and its agent is not ready meanwhile.
- Stable seconds count from the arrival of answers; the late answer of an
  overtaken heartbeat is still cached.
- The recount and the load check compare a copy read before HubSpot answered;
  a forced reassignment decrements the agent read before the PATCH.  That is
  why `LoadConverges` is a liveness property.
- The midnight reset of online time reads without a lock; it is not modelled.

Conversations, calendar:

- An assigned conversation may become FAILED_RETRYABLE by a watchdog that saw it
  queued; `next_retry_at` has no reader, `failure_count` is never renewed on
  reopening, and a superseded placeholder keeps its open attendance until the
  closure.
- An entry that shares the millisecond of the closure, or has no time, reopens a
  closed conversation, as documented ("equal timestamps remain processable");
  the support cycle goes by the time of the stage and stays closed when that
  entry is known, so the conversation then has an attendance without a cycle.
- The published version of the schedule is read unlocked and written plus one
  (`helpdesk_calendar/service.py:390`, whose docstring at line 352 says
  "atomically"); rules and intervals are two reads; a failed key stays refused.

Webhooks and messages:

- A task of a killed worker is lost, since it was acknowledged early, and
  nothing looks for its event again; a dead-lettered event may be processed by a
  redelivery; the lifecycle mark can go from PROCESSED to FAILED.
- A thread that is spam or closed ends a reconciliation as a success: a message
  whose webhook or hydration was lost waits until the thread is open when a
  reconciler looks, for ever if it stays shut (`reconciliation.py:161`).
- A reconciler gives its claim up with the first message it records, so two of
  them may walk one thread.  The proofs of `MessageIngestion` allow for it.
- A claim of the outbox carries no token of its own: the late result of an
  overtaken claim releases the lease of the newer claim of the same event
  (`n8n_outbox.py:100`), and the next event of the thread is delivered next to
  it.
- `fail_capability` overwrites an occurrence that was processed meanwhile;
  owner-change occurrences have no time to be scanned by.
- Of several threads, a late success while the circuit becomes half open leaves
  its places used up; the limit of probes is read, then incremented.

## 7. Not modelled

Online-time accounting, metrics, audit history and reports; the age limit of
occurrences and occurrences of owner changes; row locks one by one, hence
deadlocks between transactions; the rate limit, whose fixed window is three
cache calls without a promise to check; signatures and parsing.  Functions
without callers (`update_metadata`, `transition_by_thread`, promotion of
placeholders, `transition_cycle_state`) are left out.  Language-model agents,
knowledge base, analytics, church, health, authentication, the web application
and most operator commands keep no protocol state, or run the services above by
hand.
