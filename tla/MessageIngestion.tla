-------------------------- MODULE MessageIngestion --------------------------
(***************************************************************************)
(* How the messages of one HubSpot thread reach the ledger and the outbox  *)
(* (apps/webhooks: api.py, n8n_inbound.py, reconciliation.py, tasks.py): a *)
(* webhook persists an envelope and dispatches its hydration; a periodic   *)
(* reconciliation lists the thread from a durable cursor.  Both end in     *)
(* ingest_hubspot_message.  N8nOutbox goes on from the outbox rows.        *)
(*                                                                         *)
(* Messages are named by the time HubSpot created them.  Each transaction  *)
(* and each HTTP request is one action.                                    *)
(***************************************************************************)
EXTENDS Integers

CONSTANTS
    LastMessage,     \* messages are 1..LastMessage
    Customer,        \* those that _ignored_reason lets through
    Hydrations,      \* deliveries of hydrate_hubspot_message_event_task
    MaxTries,        \* its tries: max_retries + 1
    Reconcilers,     \* processes that run reconcile_cursor
    Lookback,        \* N8N_BOT_RECONCILIATION_LOOKBACK_SECONDS
    MaxFaults        \* bound: failing requests, lost tasks, dying processes

Messages == 1..LastMessage

ASSUME IngestionAssumption ==
    /\ LastMessage \in Nat /\ Lookback \in Nat
    /\ Customer \subseteq Messages
    /\ MaxTries \in Nat \ {0} /\ MaxFaults \in Nat

VARIABLES
    listed,          \* the messages HubSpot shows
    shut,            \* its thread is spam or CLOSED
    row,             \* processing_status of the WebhookEvent of each message
    outbox,          \* OutboxEvent rows of each message
    task,            \* hydrations that are queued or at work
    cursor,          \* HubSpotReconciliationCursor: last message, age of locked_at
    reconciler,      \* what each reconciler does, and what it has listed
    faults           \* how much of the bound is used

vars == <<listed, shut, row, outbox, task, cursor, reconciler, faults>>

Settled == {"ready", "ignored"}
IsSettled(m) == row[m] \in Settled
NoTask == [pc |-> "none", message |-> 0, tries |-> 0]
IdleReconciler == [pc |-> "idle", todo |-> {}, cutoff |-> 0]

Init ==
    /\ listed = {}
    /\ shut = FALSE
    /\ row = [m \in Messages |-> "none"]
    /\ outbox = [m \in Messages |-> 0]
    /\ task = [k \in Hydrations |-> NoTask]
    /\ cursor = [last |-> 0, lock |-> "none"]
    /\ reconciler = [r \in Reconcilers |-> IdleReconciler]
    /\ faults = 0

Fault == faults < MaxFaults /\ faults' = faults + 1

-----------------------------------------------------------------------------
(* HubSpot shows a message, out of order by the lookback at most.           *)
Appear(m) ==
    /\ m \notin listed
    /\ \A n \in listed : n - m <= Lookback
    /\ listed' = listed \cup {m}
    /\ UNCHANGED <<shut, row, outbox, task, cursor, reconciler, faults>>

(* The thread is marked as spam, closed or opened again; it may go on       *)
(* receiving messages.                                                      *)
Turn ==
    /\ shut' = ~shut
    /\ UNCHANGED <<listed, row, outbox, task, cursor, reconciler, faults>>

(* record_hubspot_message_envelope, in a transaction of its own.            *)
Enveloped(m) == IF row[m] = "none" THEN [row EXCEPT ![m] = "received"] ELSE row

(* The webhook: the envelope, then the dispatch, which the broker may       *)
(* refuse; HubSpot may deliver it again.                                    *)
Webhook(m, k) ==
    /\ m \in listed /\ task[k].pc = "none"
    /\ row' = Enveloped(m)
    /\ task' = [task EXCEPT ![k] = [pc |-> "queued", message |-> m, tries |-> 0]]
    /\ UNCHANGED <<listed, shut, outbox, cursor, reconciler, faults>>

WebhookUndispatched(m) ==
    /\ m \in listed
    /\ Fault
    /\ row' = Enveloped(m)
    /\ UNCHANGED <<listed, shut, outbox, task, cursor, reconciler>>

(* The transaction of ingest_hubspot_message, over the locked row.  With a  *)
(* bug: a settled message is ingested again.                                *)
IngestAgain(m) ==
    /\ row' = [row EXCEPT ![m] = IF m \in Customer THEN "ready" ELSE "ignored"]
    /\ outbox' = IF m \in Customer THEN [outbox EXCEPT ![m] = @ + 1] ELSE outbox
Ingest(m) ==
    IF IsSettled(m) THEN UNCHANGED <<row, outbox>>
    ELSE /\ row' = [row EXCEPT ![m] = IF m \in Customer THEN "ready" ELSE "ignored"]
         /\ outbox' = IF m \in Customer /\ outbox[m] = 0 THEN [outbox EXCEPT ![m] = 1] ELSE outbox

-----------------------------------------------------------------------------
(* hydrate_webhook_message_event: the status is read, the thread and the    *)
(* message are fetched, and only then the row is locked.                    *)
HydrateStart(k) ==
    /\ task[k].pc = "queued"
    /\ task' = [task EXCEPT ![k] = IF IsSettled(@.message) THEN NoTask
                                   ELSE [@ EXCEPT !.pc = "fetching", !.tries = task[k].tries + 1]]
    /\ UNCHANGED <<listed, shut, row, outbox, cursor, reconciler, faults>>

HydrateIngest(k) ==
    /\ task[k].pc = "fetching"
    /\ Ingest(task[k].message)
    /\ task' = [task EXCEPT ![k] = NoTask]
    /\ UNCHANGED <<listed, shut, cursor, reconciler, faults>>

(* A request fails: the error is recorded, unless somebody settled the      *)
(* message meanwhile, and the task is retried.                              *)
ErrorRecorded(m) == IF IsSettled(m) THEN row ELSE [row EXCEPT ![m] = "error"]

HydrateFail(k) ==
    /\ task[k].pc = "fetching"
    /\ Fault
    /\ row' = ErrorRecorded(task[k].message)
    /\ task' = [task EXCEPT ![k] = IF @.tries < MaxTries THEN [@ EXCEPT !.pc = "queued"] ELSE NoTask]
    /\ UNCHANGED <<listed, shut, outbox, cursor, reconciler>>

(* The broker or the worker loses the task.                                 *)
HydrateLost(k) ==
    /\ task[k].pc # "none"
    /\ Fault
    /\ task' = [task EXCEPT ![k] = NoTask]
    /\ UNCHANGED <<listed, shut, row, outbox, cursor, reconciler>>

-----------------------------------------------------------------------------
(* _claim_cursor, and the read of the cursor that follows it.  With a bug:  *)
(* a claim is never taken over.                                             *)
ClaimableUnlocked == cursor.lock = "none"
Claimable == cursor.lock # "fresh"

ReconcilerStep(r, from, to) ==
    /\ reconciler[r].pc = from
    /\ reconciler' = [reconciler EXCEPT ![r] = to]

Claim(r) ==
    /\ Claimable
    /\ ReconcilerStep(r, "idle", [pc |-> "claimed", todo |-> {}, cutoff |-> cursor.last - Lookback])
    /\ cursor' = [cursor EXCEPT !.lock = "fresh"]
    /\ UNCHANGED <<listed, shut, row, outbox, task, faults>>

(* The thread is fetched first.  Spam or closed, it ends the pass as a      *)
(* success: nothing is listed, and the cursor stays where it is.            *)
SkipShut(r) ==
    /\ shut
    /\ ReconcilerStep(r, "claimed", IdleReconciler)
    /\ cursor' = [cursor EXCEPT !.lock = "none"]
    /\ UNCHANGED <<listed, shut, row, outbox, task, faults>>

SeeOpen(r) ==
    /\ ~shut
    /\ ReconcilerStep(r, "claimed", [reconciler[r] EXCEPT !.pc = "open"])
    /\ UNCHANGED <<listed, shut, row, outbox, task, cursor, faults>>

(* All pages of the thread, sorted; older messages are skipped.  With a     *)
(* bug: the lookback is left out.                                           *)
SkippedByLast(r) == {m \in listed : m < reconciler[r].cutoff + Lookback}
Skipped(r) == {m \in listed : m < reconciler[r].cutoff}

List(r) ==
    /\ ReconcilerStep(r, "open",
            [reconciler[r] EXCEPT !.pc = "listed", !.todo = listed \ Skipped(r)])
    /\ UNCHANGED <<listed, shut, row, outbox, task, cursor, faults>>

Oldest(r, m) == m \in reconciler[r].todo /\ \A n \in reconciler[r].todo : m <= n

IngestNext(r) == \E m \in reconciler[r].todo :
    /\ Oldest(r, m)
    /\ Ingest(m)
    /\ ReconcilerStep(r, "listed", [reconciler[r] EXCEPT !.pc = "ingested"])
    /\ UNCHANGED <<listed, shut, task, cursor, faults>>

(* _record_cursor_success for a message, which also releases the claim.     *)
Advanced(m) == IF m >= cursor.last THEN m ELSE cursor.last

Advance(r) == \E m \in reconciler[r].todo :
    /\ Oldest(r, m)
    /\ ReconcilerStep(r, "ingested",
            [reconciler[r] EXCEPT !.pc = "listed", !.todo = @ \ {m}])
    /\ cursor' = [last |-> Advanced(m), lock |-> "none"]
    /\ UNCHANGED <<listed, shut, row, outbox, task, faults>>

Finish(r) ==
    /\ reconciler[r].todo = {}
    /\ ReconcilerStep(r, "listed", IdleReconciler)
    /\ cursor' = [cursor EXCEPT !.lock = "none"]
    /\ UNCHANGED <<listed, shut, row, outbox, task, faults>>

(* _record_cursor_failure: a request fails, or a transaction is refused.    *)
Fail(r) ==
    /\ reconciler[r].pc # "idle"
    /\ Fault
    /\ reconciler' = [reconciler EXCEPT ![r] = IdleReconciler]
    /\ cursor' = [cursor EXCEPT !.lock = "none"]
    /\ UNCHANGED <<listed, shut, row, outbox, task>>

Die(r) ==
    /\ reconciler[r].pc # "idle"
    /\ Fault
    /\ reconciler' = [reconciler EXCEPT ![r] = IdleReconciler]
    /\ UNCHANGED <<listed, shut, row, outbox, task, cursor>>

(* The stale interval of a claim passes, whether or not its holder works.   *)
Expire ==
    /\ cursor.lock = "fresh"
    /\ cursor' = [cursor EXCEPT !.lock = "stale"]
    /\ UNCHANGED <<listed, shut, row, outbox, task, reconciler, faults>>

Hydrate(k) == HydrateStart(k) \/ HydrateIngest(k)
Reconcile(r) ==
    SkipShut(r) \/ SeeOpen(r) \/ List(r) \/ IngestNext(r) \/ Advance(r) \/ Finish(r)

Next ==
    \/ \E m \in Messages :
        \/ Appear(m) \/ WebhookUndispatched(m)
        \/ \E k \in Hydrations : Webhook(m, k)
    \/ \E k \in Hydrations : Hydrate(k) \/ HydrateFail(k) \/ HydrateLost(k)
    \/ \E r \in Reconcilers : Claim(r) \/ Reconcile(r) \/ Fail(r) \/ Die(r)
    \/ Expire \/ Turn

Spec == Init /\ [][Next]_vars

(* Where reconciliation is enabled and scheduled, and the thread has an     *)
(* active instance, its cursor is claimed again and again.                  *)
FairSpec ==
    /\ Spec
    /\ \A r \in Reconcilers : WF_vars(Reconcile(r))
    /\ WF_vars(\E r \in Reconcilers : Claim(r))
    /\ WF_vars(Expire)

-----------------------------------------------------------------------------
(***************************************************************************)
(* "Ledger completion and outbox creation run in one transaction": however *)
(* often and by whomever a message is ingested, it has exactly one outbox  *)
(* row when it is ready, and none before or when it is ignored.            *)
(***************************************************************************)
ReadyHasOutbox == \A m \in Messages :
    outbox[m] = IF row[m] = "ready" THEN 1 ELSE 0

(***************************************************************************)
(* A settled message stays as it is, whatever a failing hydration that     *)
(* started earlier records.                                                *)
(***************************************************************************)
SettledStays == [][\A m \in Messages : IsSettled(m) => row'[m] = row[m]]_vars

(***************************************************************************)
(* The cursor never passes a message that was not ingested: one that is    *)
(* older than the lookback, and would not be listed again, is settled.     *)
(***************************************************************************)
CursorPassesNothing == \A m \in listed : m < cursor.last - Lookback => IsSettled(m)

(***************************************************************************)
(* Reconciliation skips a thread that is spam or closed, but it skips      *)
(* nothing for good: once the thread stays open, every message is settled, *)
(* also one of the time when it was shut, although its webhook, its        *)
(* hydration and some reconciliations may be lost.                         *)
(***************************************************************************)
StaysOpen == <>[]~shut
EveryMessageSettles ==
    StaysOpen => \A m \in Messages : (m \in listed) ~> IsSettled(m)
=============================================================================
