--------------------------- MODULE N8nOutbox_proofs ---------------------------
(***************************************************************************)
(* Proofs about N8nOutbox, for every set of events, threads and processes, *)
(* and every bound: OutboxInv is inductive, and from it deliveries are     *)
(* confirmed ones, final, and made one at a time.                          *)
(***************************************************************************)
EXTENDS N8nOutbox, TLAPS

(* The types of a row, a lease and a process.                               *)
Row == [status : Statuses, attempts : Nat, lock : Ages]
Lease == [holder : Events \cup {NoEvent}, lock : Ages]
Task == [pc : {"idle", "claimed", "answered"}, event : Events \cup {NoEvent},
         attempt : Nat, result : {"none", "success", "retryable", "terminal"},
         late : BOOLEAN]

(* Every answer of n8n has a class, and only an acceptance is a success     *)
(* (_classify_response).                                                    *)
LEMMA OnlyAcceptedSucceeds ==
    ASSUME NEW answer \in Answers
    PROVE  /\ Classify(answer) \in {"success", "retryable", "terminal"}
           /\ Classify(answer) = "success" <=> answer = "accepted"
BY DEF Answers, Classify

(* Writing an answer into a claim keeps its type.                           *)
LEMMA AnswerKeepsType ==
    ASSUME NEW task \in Task, NEW c \in {"success", "retryable", "terminal"}
    PROVE  [task EXCEPT !.pc = "answered", !.result = c] \in Task
BY DEF Task

(* Giving a lease back keeps the other leases, and leaves none with the     *)
(* event (_release_thread_lease).                                           *)
LEMMA ReleaseIsLocal ==
    ASSUME TypeOK, NEW e \in Events
    PROVE  /\ Released(e) \in [Threads -> Lease]
           /\ \A t \in Threads :
                \/ Released(e)[t] = lease[t]
                \/ lease[t].holder = e /\ Released(e)[t] = Free
           /\ Released(e)[ThreadOf[e]].holder # e
BY OutboxAssumption DEF TypeOK, Released, Free, Lease, Ages

LEMMA InitInvariant == Init => OutboxInv
BY OutboxAssumption
   DEF Init, OutboxInv, TypeOK, DeliveredWasTaken, LeaseFollowsEvent, ClaimsHold,
       SuccessesTaken, WorksOn, Free, Idle, Statuses, Ages

-----------------------------------------------------------------------------
(* A claim is made only on a thread that nobody works for.                  *)
LEMMA ClaimInvariant ==
    ASSUME OutboxInv, NEW d \in Deliverers, NEW e \in Events, Claim(d, e)
    PROVE  OutboxInv'
<1> USE DEF Claim
<1>t. TypeOK
  BY DEF OutboxInv
<1>e. /\ ThreadOf[e] \in Threads /\ e # NoEvent
      /\ event[e].attempts + 1 \in Nat
  BY <1>t, OutboxAssumption DEF TypeOK
<1>1. TypeOK'
  BY <1>t, <1>e DEF TypeOK, Statuses, Ages
<1>2. /\ event'[e].status = "processing" /\ event'[e].lock = "fresh"
      /\ lease'[ThreadOf[e]] = [holder |-> e, lock |-> "fresh"]
      /\ \A f \in Events \ {e} : event'[f] = event[f]
      /\ \A t \in Threads \ {ThreadOf[e]} : lease'[t] = lease[t]
      /\ deliverer'[d].pc = "claimed" /\ deliverer'[d].event = e
      /\ deliverer'[d].result = "none"
      /\ \A f \in Deliverers \ {d} : deliverer'[f] = deliverer[f]
  BY <1>t, <1>e DEF TypeOK
<1>3. DeliveredWasTaken' /\ SuccessesTaken'
  BY <1>2 DEF OutboxInv, DeliveredWasTaken, SuccessesTaken
<1>4. LeaseFollowsEvent'
  BY <1>t, <1>e, <1>2, OutboxAssumption DEF OutboxInv, LeaseFollowsEvent, TypeOK
<1>5. ClaimsHold'
  <2> SUFFICES ASSUME spent.slow = 0, NEW f \in Deliverers \ {d}, deliverer[f].pc # "idle"
               PROVE  ThreadOf[deliverer[f].event] # ThreadOf[e]
    BY <1>t, <1>e, <1>2, OutboxAssumption DEF OutboxInv, ClaimsHold, WorksOn, TypeOK
  <2> DEFINE g == deliverer[f].event
  <2>1. /\ g \in Events /\ event[g].status = "processing" /\ event[g].lock = "fresh"
        /\ lease[ThreadOf[g]].holder = g
    BY <1>t DEF OutboxInv, ClaimsHold, TypeOK
  <2>2. lease[ThreadOf[g]].lock = "fresh"
    BY <2>1, OutboxAssumption DEF OutboxInv, LeaseFollowsEvent
  <2>3. g # e
    BY <2>1 DEF Claimable
  <2> QED BY <2>1, <2>2, <2>3, OutboxAssumption DEF LeaseAllows
<1> QED BY <1>1, <1>3, <1>4, <1>5 DEF OutboxInv

(* Posting touches no row, and a success is an acceptance.                  *)
LEMMA PostInvariant ==
    ASSUME OutboxInv, NEW d \in Deliverers, NEW answer \in Answers, Post(d, answer)
    PROVE  OutboxInv'
<1> USE DEF Post
<1>t. TypeOK /\ deliverer[d].event \in Events
  BY DEF OutboxInv, TypeOK
<1>1. /\ \A f \in Deliverers \ {d} : deliverer'[f] = deliverer[f]
      /\ deliverer'[d] = [deliverer[d] EXCEPT !.pc = "answered", !.result = Classify(answer)]
      /\ deliverer'[d].event = deliverer[d].event
      /\ deliverer'[d].result = Classify(answer)
      /\ taken \subseteq taken' /\ taken' \subseteq Events
      /\ answer = "accepted" => deliverer[d].event \in taken'
  BY <1>t DEF TypeOK
<1>2. TypeOK'
  <2>1. deliverer \in [Deliverers -> Task]
    BY <1>t DEF TypeOK, Task
  <2>2. deliverer'[d] \in Task
    BY <2>1, <1>1, OnlyAcceptedSucceeds, AnswerKeepsType
  <2>3. deliverer' \in [Deliverers -> Task]
    BY <1>1, <2>1, <2>2
  <2> QED BY <1>t, <1>1, <2>3 DEF TypeOK, Task
<1>3. DeliveredWasTaken' /\ LeaseFollowsEvent'
  BY <1>1 DEF OutboxInv, DeliveredWasTaken, LeaseFollowsEvent
<1>4. SuccessesTaken'
  BY <1>1, OnlyAcceptedSucceeds DEF OutboxInv, SuccessesTaken
<1>5. ClaimsHold'
  <2>1. \A f \in Deliverers : /\ deliverer'[f].event = deliverer[f].event
                              /\ deliverer'[f].pc = "idle" <=> deliverer[f].pc = "idle"
    BY <1>t, <1>1 DEF TypeOK
  <2>2. \A f \in Deliverers : \A e : WorksOn(f, e)' <=> WorksOn(f, e)
    BY <2>1 DEF WorksOn
  <2> QED BY <2>1, <2>2 DEF OutboxInv, ClaimsHold
<1> QED BY <1>2, <1>3, <1>4, <1>5 DEF OutboxInv

-----------------------------------------------------------------------------
(* What the three conclusions of a claim have in common: its event changes, *)
(* its lease is given back, the process is idle.                            *)
LEMMA ConclusionInvariant ==
    ASSUME OutboxInv, NEW d \in Deliverers, deliverer[d].pc # "idle",
           NEW r \in Row,
           LET e == deliverer[d].event IN
               /\ event' = [event EXCEPT ![e] = r]
               /\ r.status = "delivered" => e \in taken
               /\ lease' = Released(e),
           deliverer' = [deliverer EXCEPT ![d] = Idle],
           taken' = taken,
           spent' \in [faults : Nat, slow : Nat, replays : Nat],
           spent'.slow = spent.slow
    PROVE  OutboxInv'
<1> DEFINE e == deliverer[d].event
<1>t. TypeOK /\ e \in Events
  BY DEF OutboxInv, TypeOK
<1>1. /\ event'[e] = r
      /\ \A f \in Events \ {e} : event'[f] = event[f]
      /\ deliverer'[d] = Idle
      /\ \A f \in Deliverers \ {d} : deliverer'[f] = deliverer[f]
  BY <1>t DEF TypeOK
<1>2. /\ lease' \in [Threads -> Lease]
      /\ \A t \in Threads : lease'[t] = lease[t] \/ (lease[t].holder = e /\ lease'[t] = Free)
      /\ lease'[ThreadOf[e]].holder # e
  BY <1>t, ReleaseIsLocal
<1>3. TypeOK'
  <2>1. deliverer' \in [Deliverers -> Task]
    BY <1>t DEF TypeOK, Task, Idle
  <2>2. \A f \in Deliverers : deliverer'[f].pc # "idle" => deliverer'[f].event \in Events
    BY <1>t, <1>1 DEF TypeOK, Idle
  <2> QED BY <1>t, <1>2, <2>1, <2>2 DEF TypeOK, Task, Row, Lease
<1>4. DeliveredWasTaken' /\ SuccessesTaken'
  BY <1>t, <1>1 DEF OutboxInv, DeliveredWasTaken, SuccessesTaken, Idle
<1>5. LeaseFollowsEvent'
  BY <1>t, <1>1, <1>2 DEF OutboxInv, LeaseFollowsEvent, TypeOK, Free
<1>6. ClaimsHold'
  <2> SUFFICES ASSUME spent.slow = 0, NEW f \in Deliverers \ {d}, deliverer[f].pc # "idle"
               PROVE  deliverer[f].event # e
    BY <1>t, <1>1, <1>2, OutboxAssumption DEF OutboxInv, ClaimsHold, WorksOn, TypeOK, Idle
  <2> QED BY DEF OutboxInv, ClaimsHold, WorksOn
<1> QED BY <1>3, <1>4, <1>5, <1>6 DEF OutboxInv

(* A failed event keeps its row when it is delivered, or gets a new one.    *)
LEMMA FailureWritesRow ==
    ASSUME TypeOK, NEW e \in Events, NEW status \in {"dead", "retry"}, NEW n \in Nat
    PROVE  \E r \in Row :
             /\ Failed(e, status, n) = [event EXCEPT ![e] = r]
             /\ r.status = "delivered" => event[e].status = "delivered"
<1>1. CASE event[e].status = "delivered"
  <2>1. event[e] \in Row /\ event = [event EXCEPT ![e] = event[e]]
    BY DEF TypeOK, Row
  <2> QED BY <1>1, <2>1 DEF Failed
<1>2. CASE event[e].status # "delivered"
  <2> DEFINE r == [status |-> status, attempts |-> n, lock |-> "none"]
  <2>1. r \in Row
    BY DEF Row, Statuses, Ages
  <2> QED BY <1>2, <2>1 DEF Failed
<1> QED BY <1>1, <1>2

LEMMA SuccessInvariant ==
    ASSUME OutboxInv, NEW d \in Deliverers, RecordSuccess(d)
    PROVE  OutboxInv'
<1> DEFINE e == deliverer[d].event
           r == IF event[e].status = "delivered" THEN event[e]
                ELSE [event[e] EXCEPT !.status = "delivered", !.lock = "none"]
<1>1. TypeOK /\ e \in Events /\ e \in taken
  BY DEF OutboxInv, TypeOK, RecordSuccess, SuccessesTaken
<1>2. r \in Row /\ event' = [event EXCEPT ![e] = r]
  <2>1. CASE event[e].status = "delivered"
    <3>1. r = event[e] /\ event' = event
      BY <2>1 DEF RecordSuccess
    <3>2. event[e] \in Row /\ event = [event EXCEPT ![e] = event[e]]
      BY <1>1 DEF TypeOK, Row
    <3>3. event' = [event EXCEPT ![e] = r]
      BY <3>1, <3>2
    <3> QED BY <3>1, <3>2, <3>3
  <2>2. CASE event[e].status # "delivered"
    <3>1. event[e] \in Row
      BY <1>1 DEF TypeOK, Row
    <3>2. r = [event[e] EXCEPT !.status = "delivered", !.lock = "none"]
      BY <2>2
    <3>3. r \in Row
      BY <3>1, <3>2 DEF Row, Statuses, Ages
    <3>4. event' = [event EXCEPT ![e] = r]
      BY <1>1, <2>2 DEF RecordSuccess, TypeOK
    <3> QED BY <3>3, <3>4
  <2> QED BY <2>1, <2>2
<1>3. spent' \in [faults : Nat, slow : Nat, replays : Nat] /\ spent'.slow = spent.slow
  BY <1>1 DEF RecordSuccess, TypeOK
<1> HIDE DEF r
<1> QED BY <1>1, <1>2, <1>3, ConclusionInvariant DEF RecordSuccess

LEMMA FailureInvariant ==
    ASSUME OutboxInv, NEW d \in Deliverers, RecordFailure(d) \/ Unconfigured(d)
    PROVE  OutboxInv'
<1> DEFINE e == deliverer[d].event
<1>1. TypeOK /\ e \in Events /\ deliverer[d].pc # "idle"
  BY DEF OutboxInv, TypeOK, RecordFailure, Unconfigured
<1>2. event[e].attempts \in Nat /\ Refunded(e) \in Nat
  BY <1>1 DEF TypeOK, Refunded
<1>3. \E status \in {"dead", "retry"}, n \in Nat : event' = Failed(e, status, n)
  BY <1>2 DEF RecordFailure, Unconfigured
<1>4. PICK r \in Row : /\ event' = [event EXCEPT ![e] = r]
                       /\ r.status = "delivered" => event[e].status = "delivered"
  <2>1. PICK status \in {"dead", "retry"}, n \in Nat : event' = Failed(e, status, n)
    BY <1>3
  <2> HIDE DEF e
  <2> QED BY <1>1, <2>1, FailureWritesRow
<1>5. r.status = "delivered" => e \in taken
  BY <1>1, <1>4 DEF OutboxInv, DeliveredWasTaken
<1>6. spent' \in [faults : Nat, slow : Nat, replays : Nat] /\ spent'.slow = spent.slow
  BY <1>1 DEF RecordFailure, Unconfigured, TypeOK
<1>7. /\ lease' = Released(e) /\ taken' = taken
      /\ deliverer' = [deliverer EXCEPT ![d] = Idle]
  BY DEF RecordFailure, Unconfigured
<1> QED BY <1>1, <1>4, <1>5, <1>6, <1>7, ConclusionInvariant

-----------------------------------------------------------------------------
(* An expiry during a delivery is counted; any other concerns an event that *)
(* nobody works on.                                                         *)
LEMMA ExpireInvariant ==
    ASSUME OutboxInv, NEW e \in Events, Expire(e)
    PROVE  OutboxInv'
<1> DEFINE slow == \E d \in Deliverers : WorksOn(d, e)
<1> USE DEF Expire
<1>t. TypeOK
  BY DEF OutboxInv
<1>1. /\ event'[e] = [event[e] EXCEPT !.lock = "stale"]
      /\ event'[e].status = event[e].status /\ event'[e].lock = "stale"
      /\ \A f \in Events : event'[f].status = event[f].status
      /\ \A f \in Events \ {e} : event'[f] = event[f]
  BY <1>t DEF TypeOK
<1>2. \A t \in Threads : /\ lease'[t].holder = lease[t].holder
                         /\ lease[t].holder = e => lease'[t].lock = "stale"
                         /\ lease[t].holder # e => lease'[t] = lease[t]
  BY <1>t DEF TypeOK
<1>3. \A d \in Deliverers : /\ deliverer'[d].pc = deliverer[d].pc
                            /\ deliverer'[d].event = deliverer[d].event
                            /\ deliverer'[d].result = deliverer[d].result
  BY <1>t DEF TypeOK
<1>4. /\ spent' \in [faults : Nat, slow : Nat, replays : Nat]
      /\ spent'.slow = 0 => spent.slow = 0 /\ ~slow
  BY <1>t DEF TypeOK
<1>5. TypeOK'
  <2>1. event' \in [Events -> Row]
    BY <1>t DEF TypeOK, Row, Ages
  <2>2. lease' \in [Threads -> Lease]
    BY <1>t DEF TypeOK, Lease, Ages
  <2>3. deliverer' \in [Deliverers -> Task]
    <3>1. deliverer \in [Deliverers -> Task]
      BY <1>t DEF TypeOK, Task
    <3>2. \A d \in Deliverers : [deliverer[d] EXCEPT !.late = TRUE] \in Task
      BY <3>1 DEF Task
    <3> QED BY <3>1, <3>2
  <2> QED BY <1>t, <1>3, <1>4, <2>1, <2>2, <2>3 DEF TypeOK, Row, Lease, Task
<1>6. DeliveredWasTaken' /\ SuccessesTaken'
  BY <1>1, <1>3 DEF OutboxInv, DeliveredWasTaken, SuccessesTaken
<1>7. LeaseFollowsEvent'
  BY <1>t, <1>1, <1>2 DEF OutboxInv, LeaseFollowsEvent, TypeOK
<1>8. ClaimsHold'
  <2> SUFFICES ASSUME spent'.slow = 0, NEW d \in Deliverers, deliverer[d].pc # "idle"
               PROVE  deliverer[d].event # e
    BY <1>t, <1>1, <1>2, <1>3, <1>4, OutboxAssumption
       DEF OutboxInv, ClaimsHold, WorksOn, TypeOK
  <2> QED BY <1>4 DEF WorksOn
<1> QED BY <1>5, <1>6, <1>7, <1>8 DEF OutboxInv

LEMMA CrashInvariant ==
    ASSUME OutboxInv, NEW d \in Deliverers, Crash(d)
    PROVE  OutboxInv'
<1> USE DEF Crash
<1>1. TypeOK
  BY DEF OutboxInv
<1>2. /\ deliverer'[d] = Idle
      /\ \A f \in Deliverers \ {d} : deliverer'[f] = deliverer[f]
      /\ spent'.slow = spent.slow
  BY <1>1 DEF TypeOK
<1>3. TypeOK'
  <2>1. deliverer' \in [Deliverers -> Task]
    BY <1>1 DEF TypeOK, Task, Idle
  <2>2. spent' \in [faults : Nat, slow : Nat, replays : Nat]
    BY <1>1 DEF TypeOK
  <2> QED BY <1>1, <1>2, <2>1, <2>2 DEF TypeOK, Task, Idle
<1>4. DeliveredWasTaken' /\ LeaseFollowsEvent' /\ SuccessesTaken' /\ ClaimsHold'
  BY <1>2 DEF OutboxInv, DeliveredWasTaken, LeaseFollowsEvent, SuccessesTaken, ClaimsHold,
             WorksOn, Idle
<1> QED BY <1>3, <1>4 DEF OutboxInv

(* A dead letter holds no lease, and nobody works on it in time.            *)
LEMMA ReplayInvariant ==
    ASSUME OutboxInv, NEW e \in Events, Replay(e)
    PROVE  OutboxInv'
<1> USE DEF Replay
<1>1. TypeOK
  BY DEF OutboxInv
<1>2. /\ event'[e].status = "pending"
      /\ \A f \in Events \ {e} : event'[f] = event[f]
      /\ spent'.slow = spent.slow
  BY <1>1 DEF TypeOK
<1>3. TypeOK'
  <2>1. event[e] \in Row
    BY <1>1 DEF TypeOK, Row
  <2>2. [event[e] EXCEPT !.status = "pending", !.lock = "none"] \in Row
    BY <2>1 DEF Row, Statuses, Ages
  <2>3. event' \in [Events -> Row]
    BY <1>1, <2>2 DEF TypeOK, Row
  <2>4. spent' \in [faults : Nat, slow : Nat, replays : Nat]
    BY <1>1 DEF TypeOK
  <2> QED BY <1>1, <2>3, <2>4 DEF TypeOK, Row
<1>4. DeliveredWasTaken' /\ SuccessesTaken'
  BY <1>2 DEF OutboxInv, DeliveredWasTaken, SuccessesTaken
<1>5. LeaseFollowsEvent'
  BY <1>1, <1>2 DEF OutboxInv, LeaseFollowsEvent, TypeOK
<1>6. ClaimsHold'
  BY <1>1, <1>2 DEF OutboxInv, ClaimsHold, WorksOn, TypeOK
<1> QED BY <1>3, <1>4, <1>5, <1>6 DEF OutboxInv

-----------------------------------------------------------------------------
LEMMA StepInvariant == OutboxInv /\ [Next]_vars => OutboxInv'
<1> SUFFICES ASSUME OutboxInv, [Next]_vars PROVE OutboxInv'
  OBVIOUS
<1>1. CASE UNCHANGED vars
  BY <1>1 DEF vars, OutboxInv, TypeOK, DeliveredWasTaken, LeaseFollowsEvent, ClaimsHold,
              SuccessesTaken, WorksOn
<1>2. CASE Next
  BY <1>2, ClaimInvariant, PostInvariant, SuccessInvariant, FailureInvariant,
     CrashInvariant, ExpireInvariant, ReplayInvariant DEF Next
<1> QED BY <1>1, <1>2

(* The invariant holds whatever deliveries, time, failures, operators do.   *)
THEOREM OutboxInvariance == Spec => []OutboxInv
BY InitInvariant, StepInvariant, PTL DEF Spec

(* Rows, leases and claims keep their types, and the refund never makes     *)
(* attempt_count negative.                                                  *)
THEOREM OutboxTypes == Spec => []TypeOK
<1>1. OutboxInv => TypeOK
  BY DEF OutboxInv
<1> QED BY <1>1, OutboxInvariance, PTL

(* No event is marked delivered that n8n did not accept (_record_success is *)
(* reached only by way of _validate_success).                               *)
THEOREM DeliveryIsConfirmed == Spec => []DeliveredWasTaken
<1>1. OutboxInv => DeliveredWasTaken
  BY DEF OutboxInv
<1> QED BY <1>1, OutboxInvariance, PTL

(* A lease names an event of its thread that is being processed, and is as  *)
(* old as the event's claim.                                                *)
THEOREM LeaseIsInUse == Spec => []LeaseFollowsEvent
<1>1. OutboxInv => LeaseFollowsEvent
  BY DEF OutboxInv
<1> QED BY <1>1, OutboxInvariance, PTL

(* Deliveries of a thread are made one at a time, as long as none of them   *)
(* outlives the stale interval.                                             *)
THEOREM DeliveriesAreSerial == Spec => []OneDeliveryPerThread
<1>1. OutboxInv => OneDeliveryPerThread
  <2> SUFFICES ASSUME OutboxInv, spent.slow = 0, NEW d \in Deliverers, NEW f \in Deliverers,
                      Together(d, f)
               PROVE  FALSE
    BY DEF OneDeliveryPerThread
  <2>1. /\ lease[ThreadOf[deliverer[d].event]].holder = deliverer[d].event
        /\ lease[ThreadOf[deliverer[f].event]].holder = deliverer[f].event
    BY DEF OutboxInv, ClaimsHold, Together
  <2>2. deliverer[d].event = deliverer[f].event
    BY <2>1 DEF Together
  <2> QED BY <2>2 DEF OutboxInv, ClaimsHold, Together, WorksOn
<1> QED BY <1>1, OutboxInvariance, PTL

(* Nothing takes a delivered event back: no late failure of an older claim, *)
(* no expiry, no replay (the early return of _record_failure).              *)
THEOREM DeliveryIsFinal == Spec => DeliveredIsFinal
<1>1. OutboxInv /\ [Next]_vars =>
          [\A e \in Events : event[e].status = "delivered" => event'[e].status = "delivered"]_vars
  <2> SUFFICES ASSUME OutboxInv, Next, NEW e \in Events, event[e].status = "delivered"
               PROVE  event'[e].status = "delivered"
    OBVIOUS
  <2> USE DEF OutboxInv, TypeOK
  <2>1. ASSUME NEW d \in Deliverers, NEW f \in Events, Claim(d, f)
        PROVE  event'[e].status = "delivered"
    BY <2>1 DEF Claim, Claimable
  <2>2. ASSUME NEW d \in Deliverers, RecordSuccess(d)
        PROVE  event'[e].status = "delivered"
    BY <2>2 DEF RecordSuccess
  <2>3. ASSUME NEW d \in Deliverers, RecordFailure(d) \/ Unconfigured(d)
        PROVE  event'[e].status = "delivered"
    BY <2>3 DEF RecordFailure, Unconfigured, Failed
  <2>4. ASSUME NEW f \in Events, Expire(f) \/ Replay(f)
        PROVE  event'[e].status = "delivered"
    BY <2>4 DEF Expire, Replay
  <2>5. ASSUME NEW d \in Deliverers, Crash(d) \/ \E answer \in Answers : Post(d, answer)
        PROVE  event'[e].status = "delivered"
    BY <2>5 DEF Crash, Post
  <2> QED BY <2>1, <2>2, <2>3, <2>4, <2>5 DEF Next
<1> QED BY <1>1, OutboxInvariance, PTL DEF Spec, DeliveredIsFinal

-----------------------------------------------------------------------------
(***************************************************************************)
(* The refinement of SerialDelivery, while nothing is slow.  A process at  *)
(* work is the only one with its event, which is being processed.          *)
(***************************************************************************)
LEMMA ServedAlone ==
    ASSUME OutboxInv, spent.slow = 0, NEW d \in Deliverers, deliverer[d].pc # "idle"
    PROVE  /\ deliverer[d].event \in Events
           /\ event[deliverer[d].event].status = "processing"
           /\ \A f \in Deliverers : WorksOn(f, deliverer[d].event) => f = d
           /\ Phase(deliverer[d].event) = "served"
BY DEF OutboxInv, TypeOK, ClaimsHold, WorksOn, Phase

(* An event that nobody touches, and whose status stays, keeps its phase.   *)
LEMMA PhaseKept ==
    ASSUME NEW e \in Events, event'[e].status = event[e].status,
           \A d \in Deliverers : WorksOn(d, e)' <=> WorksOn(d, e)
    PROVE  Phase(e)' = Phase(e)
BY DEF Phase

(* A step that changes the phase of one event.                              *)
LEMMA PhaseMoves ==
    ASSUME NEW e \in Events, \A f \in Events \ {e} : Phase(f)' = Phase(f), NEW p, Phase(e)' = p
    PROVE  [f \in Events |-> Phase(f)]' = [[f \in Events |-> Phase(f)] EXCEPT ![e] = p]
OBVIOUS

LEMMA ClaimServes ==
    ASSUME OutboxInv, spent.slow = 0, NEW d \in Deliverers, NEW e \in Events, Claim(d, e)
    PROVE  Serial!Serve(e)
<1>1. TypeOK /\ ClaimsHold /\ LeaseFollowsEvent
  BY DEF OutboxInv
<1>2. \A f \in Deliverers : ~WorksOn(f, e)
  BY <1>1 DEF Claim, Claimable, ClaimsHold, WorksOn
<1>3. Phase(e) = "waiting"
  BY <1>2 DEF Phase, Claim, Claimable
<1>4. ASSUME NEW f \in Events, ThreadOf[f] = ThreadOf[e], Phase(f) = "served"
      PROVE  FALSE
  <2>1. PICK g \in Deliverers : WorksOn(g, f)
    BY <1>4 DEF Phase
  <2>2. lease[ThreadOf[e]].holder = f /\ event[f].lock = "fresh"
    BY <1>1, <1>4, <2>1 DEF ClaimsHold, WorksOn
  <2>3. lease[ThreadOf[e]].lock = "fresh" /\ f # NoEvent
    BY <1>1, <2>2, OutboxAssumption DEF LeaseFollowsEvent
  <2>4. f # e
    BY <1>2, <2>1
  <2> QED
    BY <2>2, <2>3, <2>4 DEF Claim, LeaseAllows
<1>5. /\ \A f \in Events \ {e} : event'[f] = event[f]
      /\ deliverer'[d].pc = "claimed" /\ deliverer'[d].event = e /\ deliverer[d].pc = "idle"
      /\ \A f \in Deliverers \ {d} : deliverer'[f] = deliverer[f]
  BY <1>1 DEF Claim, TypeOK
<1>6. Phase(e)' = "served"
  BY <1>5 DEF Phase, WorksOn
<1>7. ASSUME NEW f \in Events \ {e} PROVE Phase(f)' = Phase(f)
  <2>1. \A g \in Deliverers : WorksOn(g, f)' <=> WorksOn(g, f)
    BY <1>5 DEF WorksOn
  <2> QED
    BY <1>5, <2>1, PhaseKept
<1>8. [f \in Events |-> Phase(f)]' = [[f \in Events |-> Phase(f)] EXCEPT ![e] = "served"]
  BY <1>6, <1>7, PhaseMoves
<1> QED
  BY <1>3, <1>4, <1>8 DEF Serial!Serve, Claim

(* Posting is the taking of the event, or is not seen.                      *)
LEMMA PostTakes ==
    ASSUME OutboxInv, spent.slow = 0, NEW d \in Deliverers, NEW answer \in Answers,
           Post(d, answer)
    PROVE  Serial!Take(deliverer[d].event) \/ UNCHANGED Serial!vars
<1> DEFINE e == deliverer[d].event
<1>1. deliverer \in [Deliverers -> Task]
  BY DEF OutboxInv, TypeOK, Task
<1>2. \A f \in Deliverers : /\ deliverer'[f].event = deliverer[f].event
                            /\ deliverer'[f].pc = "idle" <=> deliverer[f].pc = "idle"
  BY <1>1 DEF Post, Task
<1>3. ASSUME NEW f \in Events PROVE Phase(f)' = Phase(f)
  <2>1. ASSUME NEW g \in Deliverers PROVE WorksOn(g, f)' <=> WorksOn(g, f)
    BY <1>2 DEF WorksOn
  <2>2. event'[f].status = event[f].status
    BY DEF Post
  <2> QED
    BY <2>1, <2>2, PhaseKept
<1>4. [f \in Events |-> Phase(f)]' = [f \in Events |-> Phase(f)]
  BY <1>3
<1>5. e \in Events /\ Phase(e) = "served"
  BY ServedAlone DEF Post
<1>6. taken' = taken \cup {e} \/ taken' = taken
  BY DEF Post
<1> QED
  BY <1>4, <1>5, <1>6 DEF Serial!Take, Serial!vars

(* Every way to end a service: the phase follows the status that it leaves. *)
LEMMA ServiceEnds ==
    ASSUME OutboxInv, spent.slow = 0, NEW d \in Deliverers, deliverer[d].pc # "idle",
           deliverer' = [deliverer EXCEPT ![d] = Idle],
           NEW e, e = deliverer[d].event,
           \A f \in Events \ {e} : event'[f] = event[f],
           NEW p \in {"delivered", "dead", "waiting"},
           IF p = "waiting" THEN event'[e].status \notin {"delivered", "dead"}
                            ELSE event'[e].status = p
    PROVE  [f \in Events |-> Phase(f)]' = [[f \in Events |-> Phase(f)] EXCEPT ![e] = p]
<1>1. e \in Events /\ \A f \in Deliverers : WorksOn(f, e) => f = d
  BY ServedAlone
<1>2. deliverer'[d] = Idle /\ \A f \in Deliverers \ {d} : deliverer'[f] = deliverer[f]
  BY DEF OutboxInv, TypeOK
<1>3. \A f \in Deliverers : ~WorksOn(f, e)'
  BY <1>1, <1>2 DEF WorksOn, Idle
<1>4. Phase(e)' = p
  BY <1>3 DEF Phase
<1>5. ASSUME NEW f \in Events \ {e} PROVE Phase(f)' = Phase(f)
  <2>1. \A g \in Deliverers : WorksOn(g, f)' <=> WorksOn(g, f)
    BY <1>2, <1>5 DEF WorksOn, Idle
  <2> QED
    BY <2>1, <1>5, PhaseKept
<1> QED
  BY <1>1, <1>4, <1>5, PhaseMoves

LEMMA SuccessConfirms ==
    ASSUME OutboxInv, spent.slow = 0, NEW d \in Deliverers, RecordSuccess(d)
    PROVE  Serial!Confirm(deliverer[d].event)
<1> DEFINE e == deliverer[d].event
<1>1. /\ e \in Events /\ event[e].status = "processing" /\ Phase(e) = "served"
      /\ deliverer[d].pc # "idle" /\ e \in taken
  BY ServedAlone DEF RecordSuccess, OutboxInv, SuccessesTaken
<1>2. event' = [event EXCEPT ![e].status = "delivered", ![e].lock = "none"]
  BY <1>1 DEF RecordSuccess
<1>3. event'[e].status = "delivered" /\ \A f \in Events \ {e} : event'[f] = event[f]
  BY <1>1, <1>2 DEF OutboxInv, TypeOK
<1>4. [f \in Events |-> Phase(f)]' = [[f \in Events |-> Phase(f)] EXCEPT ![e] = "delivered"]
  BY <1>1, <1>3, ServiceEnds DEF RecordSuccess
<1> QED
  BY <1>1, <1>4 DEF Serial!Confirm, RecordSuccess

LEMMA FailureFails ==
    ASSUME OutboxInv, spent.slow = 0, NEW d \in Deliverers,
           RecordFailure(d) \/ Unconfigured(d) \/ Crash(d)
    PROVE  Serial!Fail(deliverer[d].event)
<1> DEFINE e == deliverer[d].event
<1>1. deliverer[d].pc # "idle"
  BY DEF RecordFailure, Unconfigured, Crash
<1>2. /\ e \in Events /\ event[e].status = "processing" /\ Phase(e) = "served"
  BY <1>1, ServedAlone
<1>3. /\ event'[e].status \notin {"delivered"}
      /\ \A f \in Events \ {e} : event'[f] = event[f]
  <2>1. CASE RecordFailure(d) \/ Unconfigured(d)
    BY <1>2, <2>1 DEF RecordFailure, Unconfigured, Failed, OutboxInv, TypeOK
  <2>2. CASE Crash(d)
    BY <1>2, <2>2 DEF Crash
  <2> QED
    BY <2>1, <2>2
<1>4. deliverer' = [deliverer EXCEPT ![d] = Idle] /\ UNCHANGED taken
  BY DEF RecordFailure, Unconfigured, Crash
<1>5. \E p \in {"dead", "waiting"} :
        [f \in Events |-> Phase(f)]' = [[f \in Events |-> Phase(f)] EXCEPT ![e] = p]
  <2>1. CASE event'[e].status = "dead"
    BY <1>1, <1>3, <1>4, <2>1, ServiceEnds
  <2>2. CASE event'[e].status # "dead"
    BY <1>1, <1>3, <1>4, <2>2, ServiceEnds
  <2> QED
    BY <2>1, <2>2
<1> QED
  BY <1>2, <1>4, <1>5 DEF Serial!Fail

(* In time, an expiry concerns an event that nobody works on.               *)
LEMMA ExpiryUnseen ==
    ASSUME OutboxInv, spent'.slow = 0, NEW e \in Events, Expire(e)
    PROVE  UNCHANGED Serial!vars
<1>1. \A f \in Events : event'[f].status = event[f].status
  BY DEF Expire, OutboxInv, TypeOK
<1>2. \A d \in Deliverers : /\ deliverer'[d].pc = deliverer[d].pc
                            /\ deliverer'[d].event = deliverer[d].event
  BY DEF Expire, OutboxInv, TypeOK
<1>3. \A f \in Events : Phase(f)' = Phase(f)
  BY <1>1, <1>2, PhaseKept DEF WorksOn
<1>4. [f \in Events |-> Phase(f)]' = [f \in Events |-> Phase(f)]
  BY <1>3
<1> QED
  BY <1>4 DEF Serial!vars, Expire

LEMMA ReplayReplays ==
    ASSUME OutboxInv, spent.slow = 0, NEW e \in Events, Replay(e)
    PROVE  Serial!Replay(e)
<1>1. \A d \in Deliverers : ~WorksOn(d, e)
  BY DEF Replay, OutboxInv, ClaimsHold, WorksOn
<1>2. /\ event'[e].status = "pending" /\ \A f \in Events \ {e} : event'[f] = event[f]
      /\ deliverer' = deliverer
  BY DEF Replay, OutboxInv, TypeOK
<1>3. Phase(e) = "dead" /\ Phase(e)' = "waiting"
  BY <1>1, <1>2 DEF Phase, Replay, WorksOn
<1>4. \A f \in Events \ {e} : Phase(f)' = Phase(f)
  BY <1>2, PhaseKept DEF WorksOn
<1>5. [f \in Events |-> Phase(f)]' = [[f \in Events |-> Phase(f)] EXCEPT ![e] = "waiting"]
  BY <1>3, <1>4, PhaseMoves
<1> QED
  BY <1>3, <1>5 DEF Serial!Replay, Replay

(* As long as no delivery outlives the stale interval, the outbox serves    *)
(* the messages of a thread one at a time, delivers only what n8n has       *)
(* taken, for good, and brings no dead letter back by itself: every step of *)
(* claim_outbox_event and deliver_outbox_event is one of SerialDelivery or  *)
(* is not seen there.                                                       *)
THEOREM OutboxIsSerial == Spec => DeliversSerially
<1>1. Init => Serial!Init
  <2> SUFFICES ASSUME Init PROVE \A e \in Events : Phase(e) = "waiting"
    BY DEF Init, Serial!Init
  <2> QED
    BY DEF Init, Phase, WorksOn, Idle
<1>2. OutboxInv /\ [Next]_vars => [spent'.slow = 0 => Serial!Next]_(Serial!vars)
  <2> SUFFICES ASSUME OutboxInv, [Next]_vars, spent'.slow = 0
               PROVE  Serial!Next \/ UNCHANGED Serial!vars
    OBVIOUS
  <2>1. CASE UNCHANGED vars
    <3>1. ASSUME NEW f \in Events PROVE Phase(f)' = Phase(f)
      <4>1. UNCHANGED deliverer /\ UNCHANGED event
        BY <2>1 DEF vars
      <4>2. \A g \in Deliverers : WorksOn(g, f)' <=> WorksOn(g, f)
        BY <4>1 DEF WorksOn
      <4> QED
        BY <4>1, <4>2, PhaseKept
    <3>2. UNCHANGED [f \in Events |-> Phase(f)] /\ UNCHANGED taken
      BY <2>1, <3>1 DEF vars
    <3> QED
      BY <3>2 DEF Serial!vars
  <2>2. CASE \E e \in Events : Expire(e)
    BY SMTT(30), <2>2, ExpiryUnseen
  <2>3. ASSUME Next, ~\E e \in Events : Expire(e) PROVE spent.slow = 0
    <3>1. CASE UNCHANGED spent
      BY <3>1
    <3>2. CASE \E d \in Deliverers : Unconfigured(d) \/ Crash(d)
      BY <3>2 DEF Unconfigured, Crash, OutboxInv, TypeOK
    <3>3. CASE \E e \in Events : Replay(e)
      BY <3>3 DEF Replay, OutboxInv, TypeOK
    <3> QED
      BY <2>3, <3>1, <3>2, <3>3 DEF Next, Claim, Post, RecordSuccess, RecordFailure
  <2>4. ASSUME spent.slow = 0, NEW d \in Deliverers, NEW e \in Events, Claim(d, e)
        PROVE  Serial!Next
    BY <2>4, ClaimServes DEF Serial!Next
  <2>5. ASSUME spent.slow = 0, NEW d \in Deliverers, NEW answer \in Answers, Post(d, answer)
        PROVE  Serial!Next \/ UNCHANGED Serial!vars
    BY <2>5, PostTakes, ServedAlone DEF Serial!Next, Post
  <2>6. ASSUME spent.slow = 0, NEW d \in Deliverers, RecordSuccess(d)
        PROVE  Serial!Next
    BY <2>6, SuccessConfirms, ServedAlone DEF Serial!Next, RecordSuccess
  <2>7. ASSUME spent.slow = 0, NEW d \in Deliverers,
               RecordFailure(d) \/ Unconfigured(d) \/ Crash(d)
        PROVE  Serial!Next
    BY <2>7, FailureFails, ServedAlone DEF Serial!Next, RecordFailure, Unconfigured, Crash
  <2>8. ASSUME spent.slow = 0, NEW e \in Events, Replay(e)
        PROVE  Serial!Next
    BY <2>8, ReplayReplays DEF Serial!Next
  <2> QED
    BY <2>1, <2>2, <2>3, <2>4, <2>5, <2>6, <2>7, <2>8 DEF Next
<1> QED
  BY <1>1, <1>2, OutboxInvariance, PTL DEF Spec, DeliversSerially
=============================================================================
