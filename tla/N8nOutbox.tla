------------------------------ MODULE N8nOutbox ------------------------------
(***************************************************************************)
(* Delivery of inbound messages to n8n (apps/webhooks/n8n_outbox.py):      *)
(* an outbox of events, claimed by Celery tasks one at a time per HubSpot  *)
(* thread, posted without any database lock, and concluded in a second     *)
(* transaction.  A claim holds its event and the lease of the thread by a  *)
(* timestamp, so both can be taken over when it is too old.                *)
(*                                                                         *)
(* Each database transaction and each HTTP request is one action.  Delivery *)
(* is enabled (N8N_BOT_DELIVERY_ENABLED) and every event has a thread.      *)
(***************************************************************************)
EXTENDS Naturals

CONSTANTS
    Events,          \* outbox events, one for each message
    Threads,         \* HubSpot threads
    ThreadOf,        \* the thread of each event
    NoEvent,         \* current_outbox of a free lease
    Deliverers,      \* Celery processes that run dispatch_n8n_outbox_event_task
    MaxAttempts,     \* OutboxEvent.max_attempts
    MaxFaults,       \* bound: processes that die, and missing configuration
    MaxSlow,         \* bound: claims that outlive the stale interval at work
    MaxReplays       \* bound: dead letters an operator sends again

ASSUME OutboxAssumption ==
    /\ ThreadOf \in [Events -> Threads]
    /\ NoEvent \notin Events
    /\ MaxAttempts \in Nat \ {0}
    /\ MaxFaults \in Nat /\ MaxSlow \in Nat /\ MaxReplays \in Nat

VARIABLES
    event,           \* OutboxEvent rows: status, attempt_count, age of locked_at
    lease,           \* N8nThreadDeliveryLock rows: current_outbox, age of locked_at
    deliverer,       \* what each process does, the claim it copied, and
                     \* whether it outlived the stale interval
    taken,           \* the events n8n has accepted
    spent            \* how much of each bound is used

vars == <<event, lease, deliverer, taken, spent>>

Statuses == {"pending", "processing", "retry", "delivered", "dead"}
Ages == {"none", "fresh", "stale"}
Free == [holder |-> NoEvent, lock |-> "none"]
Idle == [pc |-> "idle", event |-> NoEvent, attempt |-> 0, result |-> "none",
         late |-> FALSE]

(* What comes back from n8n, and how _classify_response and the exception   *)
(* handlers of deliver_outbox_event sort it: a 2xx with the acceptance of   *)
(* this event, any other 2xx, a transient error or no answer, another 4xx.  *)
(* With a bug: every 2xx is a success (_validate_success is not called).    *)
Answers == {"accepted", "malformed", "failed", "rejected"}
ClassifyByStatus(answer) ==
    [accepted |-> "success", malformed |-> "success",
     failed |-> "retryable", rejected |-> "terminal"][answer]
Classify(answer) ==
    [accepted |-> "success", malformed |-> "retryable",
     failed |-> "retryable", rejected |-> "terminal"][answer]

Init ==
    /\ event = [e \in Events |-> [status |-> "pending", attempts |-> 0, lock |-> "none"]]
    /\ lease = [t \in Threads |-> Free]
    /\ deliverer = [d \in Deliverers |-> Idle]
    /\ taken = {}
    /\ spent = [faults |-> 0, slow |-> 0, replays |-> 0]

WorksOn(d, e) == deliverer[d].pc # "idle" /\ deliverer[d].event = e

-----------------------------------------------------------------------------
(* claim_outbox_event.  A failed attempt becomes available again after a    *)
(* delay, which may be any.  With bugs: a stale claim is never recovered; a *)
(* claim is taken over whatever its age.                                    *)
ClaimableUnlessProcessing(e) == event[e].status \in {"pending", "retry"}
ClaimableAtAnyAge(e) == event[e].status \in {"pending", "retry", "processing"}
Claimable(e) ==
    \/ event[e].status \in {"pending", "retry"}
    \/ event[e].status = "processing" /\ event[e].lock # "fresh"

(* The lease of the thread is free, this event's own, or too old.           *)
LeaseAllows(e) ==
    LET l == lease[ThreadOf[e]]
    IN l.holder \in {NoEvent, e} \/ l.lock # "fresh"

Claim(d, e) ==
    /\ deliverer[d].pc = "idle"
    /\ Claimable(e) /\ LeaseAllows(e)
    /\ lease' = [lease EXCEPT ![ThreadOf[e]] = [holder |-> e, lock |-> "fresh"]]
    /\ event' = [event EXCEPT ![e] = [status |-> "processing", lock |-> "fresh",
                                      attempts |-> event[e].attempts + 1]]
    /\ deliverer' = [deliverer EXCEPT ![d] =
            [pc |-> "claimed", event |-> e, attempt |-> event[e].attempts + 1,
             result |-> "none", late |-> FALSE]]
    /\ UNCHANGED <<taken, spent>>

(* httpx.post.  n8n may have taken the event although the answer is lost or *)
(* cannot be read.                                                          *)
Post(d, answer) ==
    /\ deliverer[d].pc = "claimed"
    /\ deliverer' = [deliverer EXCEPT ![d].pc = "answered",
                                      ![d].result = Classify(answer)]
    /\ \/ answer # "rejected" /\ taken' = taken \cup {deliverer[d].event}
       \/ answer # "accepted" /\ UNCHANGED taken
    /\ UNCHANGED <<event, lease, spent>>

(* _release_thread_lease: the lease is given back when it still names the   *)
(* event of the claim.                                                      *)
Released(e) ==
    IF lease[ThreadOf[e]].holder = e THEN [lease EXCEPT ![ThreadOf[e]] = Free] ELSE lease

RecordSuccess(d) ==
    LET e == deliverer[d].event IN
    /\ deliverer[d].pc = "answered" /\ deliverer[d].result = "success"
    /\ event' = IF event[e].status = "delivered" THEN event
                ELSE [event EXCEPT ![e].status = "delivered", ![e].lock = "none"]
    /\ lease' = Released(e)
    /\ deliverer' = [deliverer EXCEPT ![d] = Idle]
    /\ UNCHANGED <<taken, spent>>

(* The transaction of _record_failure.  With a bug: a delivered event is    *)
(* overwritten.                                                             *)
Exhausted(d) == deliverer[d].attempt >= MaxAttempts

FailedAnyway(e, status, attempts) ==
    [event EXCEPT ![e] = [status |-> status, attempts |-> attempts, lock |-> "none"]]
Failed(e, status, attempts) ==
    IF event[e].status = "delivered" THEN event
    ELSE [event EXCEPT ![e] = [status |-> status, attempts |-> attempts, lock |-> "none"]]

RecordFailure(d) ==
    LET e == deliverer[d].event
        final == deliverer[d].result = "terminal" \/ Exhausted(d)
    IN
    /\ deliverer[d].pc = "answered" /\ deliverer[d].result # "success"
    /\ event' = Failed(e, IF final THEN "dead" ELSE "retry", event[e].attempts)
    /\ lease' = Released(e)
    /\ deliverer' = [deliverer EXCEPT ![d] = Idle]
    /\ UNCHANGED <<taken, spent>>

(* The URL or the secret of n8n is not configured: the attempt is refunded. *)
Refunded(e) == IF event[e].attempts = 0 THEN 0 ELSE event[e].attempts - 1

Unconfigured(d) ==
    LET e == deliverer[d].event IN
    /\ deliverer[d].pc = "claimed"
    /\ spent.faults < MaxFaults
    /\ event' = Failed(e, "retry", Refunded(e))
    /\ lease' = Released(e)
    /\ deliverer' = [deliverer EXCEPT ![d] = Idle]
    /\ spent' = [spent EXCEPT !.faults = @ + 1]
    /\ UNCHANGED taken

-----------------------------------------------------------------------------
(* The stale interval of the last claim of e passes.  It is longer than the *)
(* HTTP timeouts (_processing_stale_seconds), so a claim that is still at   *)
(* work by then is slow: its process is suspended, or its answer arrives    *)
(* in small pieces, each within the read timeout.                           *)
Expire(e) ==
    LET slow == \E d \in Deliverers : WorksOn(d, e) IN
    /\ event[e].lock = "fresh"
    /\ slow => spent.slow < MaxSlow
    /\ event' = [event EXCEPT ![e].lock = "stale"]
    /\ lease' = [t \in Threads |->
            IF lease[t].holder = e THEN [lease[t] EXCEPT !.lock = "stale"] ELSE lease[t]]
    /\ deliverer' = [d \in Deliverers |->
            IF WorksOn(d, e) THEN [deliverer[d] EXCEPT !.late = TRUE] ELSE deliverer[d]]
    /\ spent' = IF slow THEN [spent EXCEPT !.slow = @ + 1] ELSE spent
    /\ UNCHANGED taken

(* A process dies with its claim.                                           *)
Crash(d) ==
    /\ deliverer[d].pc # "idle"
    /\ spent.faults < MaxFaults
    /\ deliverer' = [deliverer EXCEPT ![d] = Idle]
    /\ spent' = [spent EXCEPT !.faults = @ + 1]
    /\ UNCHANGED <<event, lease, taken>>

(* An operator sends a dead letter again.                                   *)
Replay(e) ==
    /\ event[e].status = "dead"
    /\ spent.replays < MaxReplays
    /\ event' = [event EXCEPT ![e].status = "pending", ![e].lock = "none"]
    /\ spent' = [spent EXCEPT !.replays = @ + 1]
    /\ UNCHANGED <<lease, deliverer, taken>>

-----------------------------------------------------------------------------
Next ==
    \/ \E d \in Deliverers :
        \/ \E e \in Events : Claim(d, e)
        \/ \E answer \in Answers : Post(d, answer)
        \/ RecordSuccess(d)
        \/ RecordFailure(d)
        \/ Unconfigured(d)
        \/ Crash(d)
    \/ \E e \in Events :
        \/ Expire(e)
        \/ Replay(e)

Spec == Init /\ [][Next]_vars

(* Processes go on unless they die, requests end, the stale interval of an  *)
(* abandoned claim passes, and poll_n8n_outbox_task, once it is scheduled,  *)
(* offers every due event again and again.                                  *)
Deliver(d) ==
    \/ \E answer \in Answers : Post(d, answer)
    \/ RecordSuccess(d)
    \/ RecordFailure(d)

Abandoned(e) == \A d \in Deliverers : ~WorksOn(d, e)

Fairness ==
    /\ \A d \in Deliverers : WF_vars(Deliver(d))
    /\ \A e \in Events : WF_vars(Abandoned(e) /\ Expire(e))
    /\ \A e \in Events : WF_vars(\E d \in Deliverers : Claim(d, e))

FairSpec == Spec /\ Fairness

-----------------------------------------------------------------------------
(* The columns have the types that the models give them; in particular the  *)
(* refund of an attempt never makes attempt_count negative.                 *)
TypeOK ==
    /\ event \in [Events -> [status : Statuses, attempts : Nat, lock : Ages]]
    /\ lease \in [Threads -> [holder : Events \cup {NoEvent}, lock : Ages]]
    /\ deliverer \in [Deliverers ->
            [pc : {"idle", "claimed", "answered"}, event : Events \cup {NoEvent},
             attempt : Nat, result : {"none", "success", "retryable", "terminal"},
             late : BOOLEAN]]
    /\ \A d \in Deliverers : deliverer[d].pc # "idle" => deliverer[d].event \in Events
    /\ taken \subseteq Events
    /\ spent \in [faults : Nat, slow : Nat, replays : Nat]

(* An event is marked delivered only when n8n has accepted it.              *)
DeliveredWasTaken == \A e \in Events : event[e].status = "delivered" => e \in taken

(* A delivered event stays delivered, whatever a late, older claim of it    *)
(* reports afterwards.                                                      *)
DeliveredIsFinal == [][\A e \in Events :
    event[e].status = "delivered" => event'[e].status = "delivered"]_vars

(* The lease of a thread is held by an event only while that event is being *)
(* processed, and grows old with it; so a lease that nobody gives back      *)
(* blocks its thread no longer than its event.                              *)
LeaseFollowsEvent == \A t \in Threads : lease[t].holder # NoEvent =>
    LET e == lease[t].holder IN
    /\ ThreadOf[e] = t
    /\ event[e].status = "processing"
    /\ event[e].lock = lease[t].lock

(* As long as no delivery outlives the stale interval, the deliveries of a  *)
(* thread are made one at a time.                                           *)
Together(d, f) ==
    /\ d # f
    /\ deliverer[d].pc # "idle" /\ deliverer[f].pc # "idle"
    /\ ThreadOf[deliverer[d].event] = ThreadOf[deliverer[f].event]

OneDeliveryPerThread ==
    spent.slow = 0 => \A d, f \in Deliverers : ~Together(d, f)

(* Why it is so: as long as no delivery is slow, each claim at work has its *)
(* event, and its event has the lease of the thread.                        *)
ClaimsHold == spent.slow = 0 => \A d \in Deliverers : deliverer[d].pc # "idle" =>
    LET e == deliverer[d].event IN
    /\ event[e].status = "processing" /\ event[e].lock = "fresh"
    /\ lease[ThreadOf[e]].holder = e
    /\ \A f \in Deliverers : WorksOn(f, e) => f = d

(* A positive answer is only ever recorded for an event that n8n has taken. *)
SuccessesTaken == \A d \in Deliverers :
    deliverer[d].result = "success" => deliverer[d].event \in taken

(* The inductive invariant.                                                 *)
OutboxInv ==
    /\ TypeOK /\ DeliveredWasTaken /\ LeaseFollowsEvent
    /\ ClaimsHold /\ SuccessesTaken

(* As long as no delivery outlives the stale interval, the outbox is the    *)
(* serial delivery of SerialDelivery: each claim, answer, conclusion, crash *)
(* and replay is one of its steps, and the age of locks and leases none.    *)
Phase(e) ==
    IF \E d \in Deliverers : WorksOn(d, e) THEN "served"
    ELSE IF event[e].status \in {"delivered", "dead"} THEN event[e].status
    ELSE "waiting"

Serial == INSTANCE SerialDelivery WITH phase <- [e \in Events |-> Phase(e)]

DeliversSerially == Serial!Init /\ [][spent'.slow = 0 => Serial!Next]_(Serial!vars)

(* Every event is delivered in the end or becomes a dead letter.            *)
EventSettles == \A e \in Events :
    (event[e].status \notin {"delivered", "dead"}) ~> (event[e].status \in {"delivered", "dead"})

=============================================================================
