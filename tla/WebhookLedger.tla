--------------------------- MODULE WebhookLedger ---------------------------
(***************************************************************************)
(* The ledger of webhooks: a delivery is recorded once under the key of    *)
(* its payload and given to a task through the broker; the task records    *)
(* the lifecycle event, sends the support task that does the work, and     *)
(* marks both rows.  Deliveries are repeated, sends fail, and the tasks of *)
(* two deliveries of one event run at once on copies of its row.           *)
(*                                                                         *)
(* Modelled from apps/webhooks/api.py, services.py, tasks.py and handlers; *)
(* LifecycleEngine's marks from apps/ai_agents/services/lifecycle.py.      *)
(* Which support task is sent is abstracted to "sent"; an event whose      *)
(* route has no effect is one whose sending cannot fail.                   *)
(***************************************************************************)
EXTENDS Integers

CONSTANTS
    Deliveries,     \* deliveries of one event, repeated by HubSpot
    MaxRetries,     \* MAX_RETRIES
    MaxFaults       \* bound: sends, database writes and broker calls that fail

ASSUME LedgerAssumption == MaxRetries \in Nat \ {0} /\ MaxFaults \in Nat

VARIABLES
    webhook,        \* the WebhookEvent row
    lifecycle,      \* processing_status of its ConversationEvent, or "none"
    task,           \* task[d]: the task of delivery d and the copies it holds
    sent,           \* TRUE once the event's support task is in the broker
    suppressed,     \* TRUE once its effects were left out, a newer state being known
    faults

vars == <<webhook, lifecycle, task, sent, suppressed, faults>>

(* "owed": HubSpot got no 2xx answer and delivers again.                    *)
Unsent == [pc |-> "none", run |-> 0, count |-> 0, tracked |-> FALSE, dispatch |-> FALSE]

Places == {"none", "owed", "queued", "record", "effects", "save", "mark",
           "untrack", "fail", "again", "done", "lost"}

Init ==
    /\ webhook = [recorded |-> FALSE, processed |-> FALSE, dead |-> FALSE, retries |-> 0]
    /\ lifecycle = "none"
    /\ task = [d \in Deliveries |-> Unsent]
    /\ sent = FALSE
    /\ suppressed = FALSE
    /\ faults = 0

Fault == faults < MaxFaults /\ faults' = faults + 1

Goes(d, pc) == task' = [task EXCEPT ![d].pc = pc]

-----------------------------------------------------------------------------
(* record_webhook_event: get_or_create by the deduplication key.            *)
RowRecorded == [webhook EXCEPT !.recorded = TRUE]

(* _receive_hubspot_webhook: the row is found or created; when the broker   *)
(* does not take the task the request fails and HubSpot repeats it.         *)
Receive(d) ==
    /\ task[d].pc \in {"none", "owed"}
    /\ webhook' = RowRecorded
    /\ \/ Goes(d, "queued") /\ UNCHANGED faults
       \/ Goes(d, "owed") /\ Fault
    /\ UNCHANGED <<lifecycle, sent, suppressed>>

(* The worker is killed after the broker gave it the task: the task was     *)
(* acknowledged when it started, and nobody looks for the row again.        *)
Lose(d) ==
    /\ task[d].pc \in {"record", "effects", "save", "mark", "untrack", "fail", "again"}
    /\ Fault
    /\ Goes(d, "lost")
    /\ UNCHANGED <<webhook, lifecycle, sent, suppressed>>

-----------------------------------------------------------------------------
(* process_webhook_event reads the row.                                     *)
Start(d) ==
    /\ task[d].pc = "queued"
    /\ task' = [task EXCEPT ![d] =
          IF webhook.processed THEN [@ EXCEPT !.pc = "done"]
          ELSE [pc |-> "record", run |-> task[d].run + 1, count |-> webhook.retries,
                tracked |-> FALSE, dispatch |-> FALSE]]
    /\ UNCHANGED <<webhook, lifecycle, sent, suppressed, faults>>

(* Whether the effects of an event that is not stale are sent: it is new,   *)
(* or known and not done.  With a bug: a known event is a duplicate.        *)
DispatchesNew == lifecycle = "none"
Dispatches == lifecycle \in {"none", "PENDING", "FAILED"}

(* record_lifecycle_for_webhook_event; a stale event may be one whose       *)
(* effects are left out.  When the record fails the handler runs untracked. *)
Record(d) ==
    /\ task[d].pc = "record"
    /\ \/ \E stale \in BOOLEAN :
            /\ task' = [task EXCEPT ![d].tracked = TRUE,
                                    ![d].dispatch = ~stale /\ Dispatches,
                                    ![d].pc = IF ~stale /\ Dispatches THEN "effects" ELSE "save"]
            /\ suppressed' = (suppressed \/ stale)
            /\ lifecycle' = IF lifecycle = "none" THEN "PENDING" ELSE lifecycle
            /\ UNCHANGED faults
       \/ /\ Fault
          /\ task' = [task EXCEPT ![d].dispatch = TRUE, ![d].pc = "effects"]
          /\ UNCHANGED <<suppressed, lifecycle>>
    /\ UNCHANGED <<webhook, sent>>

(* handle_hubspot_event gives the support task to the broker.               *)
Effects(d) ==
    /\ task[d].pc = "effects"
    /\ \/ sent' = TRUE /\ Goes(d, "save") /\ UNCHANGED faults
       \/ Fault /\ Goes(d, "untrack") /\ UNCHANGED sent
    /\ UNCHANGED <<webhook, lifecycle, suppressed>>

Save(d) ==
    /\ task[d].pc = "save"
    /\ \/ /\ webhook' = [webhook EXCEPT !.processed = TRUE]
          /\ Goes(d, IF task[d].tracked THEN "mark" ELSE "done")
          /\ UNCHANGED faults
       \/ Fault /\ Goes(d, "untrack") /\ UNCHANGED webhook
    /\ UNCHANGED <<lifecycle, sent, suppressed>>

(* mark_event_processed.                                                    *)
Mark(d) ==
    /\ task[d].pc = "mark"
    /\ \/ lifecycle' = "PROCESSED" /\ Goes(d, "done") /\ UNCHANGED faults
       \/ Fault /\ Goes(d, "untrack") /\ UNCHANGED lifecycle
    /\ UNCHANGED <<webhook, sent, suppressed>>

(* The exception: mark_event_failed, then the count of the copy plus one.   *)
Untrack(d) ==
    /\ task[d].pc = "untrack"
    /\ lifecycle' = IF task[d].tracked THEN "FAILED" ELSE lifecycle
    /\ Goes(d, "fail")
    /\ UNCHANGED <<webhook, sent, suppressed, faults>>

Fail(d) ==
    /\ task[d].pc = "fail"
    /\ webhook' = [webhook EXCEPT
          !.retries = task[d].count + 1,
          !.dead = @ \/ task[d].count + 1 >= MaxRetries]
    /\ Goes(d, "again")
    /\ UNCHANGED <<lifecycle, sent, suppressed, faults>>

(* process_webhook_event_task: the first run and max_retries more, unless   *)
(* the row is at its limit.  With a bug: one run fewer than the limit.      *)
RunsLeftFewer(d) == task[d].run < MaxRetries - 1
RunsLeft(d) == task[d].run < MaxRetries

Again(d) ==
    /\ task[d].pc = "again"
    /\ Goes(d, IF webhook.retries < MaxRetries /\ RunsLeft(d) THEN "queued" ELSE "done")
    /\ UNCHANGED <<webhook, lifecycle, sent, suppressed, faults>>

Run(d) ==
    \/ Start(d) \/ Record(d) \/ Effects(d) \/ Save(d)
    \/ Mark(d) \/ Untrack(d) \/ Fail(d) \/ Again(d)

Next == \E d \in Deliveries : Receive(d) \/ Lose(d) \/ Run(d)

Spec == Init /\ [][Next]_vars

(* HubSpot repeats what was not accepted; workers run what the broker has.  *)
FairSpec ==
    /\ Spec
    /\ \A d \in Deliveries :
          /\ WF_vars(task[d].pc = "owed" /\ Receive(d))
          /\ WF_vars(Run(d))

-----------------------------------------------------------------------------
(***************************************************************************)
(* A webhook that is marked processed has had its effect: the support task *)
(* was sent, or a newer state of the provider made it void.  A retry finds *)
(* the lifecycle event of the run that failed and still sends.             *)
(***************************************************************************)
ProcessedWasSent == webhook.processed => sent \/ suppressed

(***************************************************************************)
(* A recorded webhook ends processed or in the dead letter queue, unless a *)
(* worker was killed with its task: however the tasks of its deliveries    *)
(* overwrite each other's count, the last of them reaches the limit.       *)
(***************************************************************************)
WebhookSettles ==
    webhook.recorded ~>
        \/ webhook.processed \/ webhook.dead
        \/ \E d \in Deliveries : task[d].pc = "lost"
=============================================================================
