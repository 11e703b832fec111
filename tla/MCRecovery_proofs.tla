-------------------------- MODULE MCRecovery_proofs --------------------------
(***************************************************************************)
(* Proofs about three of the components that MCRecovery puts together.     *)
(* A webhook is marked processed only after its effect, for any number of  *)
(* deliveries, any retry limit and any number of faults.  No row is        *)
(* assigned while the opening cohort holds it back, and nobody prolongs    *)
(* the barrier, for any agents, rows and drains.  Evidence of entries and  *)
(* closures that counts as processed had its effect, and the cycles live   *)
(* as CycleAssignment says, for any workers, events and failures.          *)
(***************************************************************************)
EXTENDS MCRecovery, FiniteSetTheorems, TLAPS

(***************************************************************************)
(* The inductive invariant.  The mark of the lifecycle event belongs to    *)
(* it: a later delivery takes a PROCESSED event for done and sends         *)
(* nothing, so the mark itself must not precede the effect.                *)
(***************************************************************************)
Effected == sent \/ suppressed

LedgerTyped ==
    /\ webhook \in [recorded : BOOLEAN, processed : BOOLEAN, dead : BOOLEAN, retries : Nat]
    /\ lifecycle \in {"none", "PENDING", "PROCESSED", "FAILED"}
    /\ task \in [Deliveries -> [pc : Places, run : Nat, count : Nat,
                                tracked : BOOLEAN, dispatch : BOOLEAN]]

LedgerInv ==
    /\ LedgerTyped
    /\ webhook.processed => Effected
    /\ lifecycle = "PROCESSED" => Effected
    /\ \A d \in Deliveries : task[d].pc \in {"save", "mark"} => Effected

(***************************************************************************)
(* Steps that only move a task: to a place other than those behind the     *)
(* effect, or to one of them when the effect is there.                     *)
(***************************************************************************)
LEMMA TaskMoved ==
  ASSUME LedgerInv, NEW d \in Deliveries, NEW t,
         t \in [pc : Places, run : Nat, count : Nat, tracked : BOOLEAN, dispatch : BOOLEAN],
         t.pc \in {"save", "mark"} => Effected',
         task' = [task EXCEPT ![d] = t],
         Effected => Effected'
  PROVE  /\ task' \in [Deliveries -> [pc : Places, run : Nat, count : Nat,
                                      tracked : BOOLEAN, dispatch : BOOLEAN]]
         /\ \A e \in Deliveries : task'[e].pc \in {"save", "mark"} => Effected'
<1>1. task \in [Deliveries -> [pc : Places, run : Nat, count : Nat,
                               tracked : BOOLEAN, dispatch : BOOLEAN]]
  BY DEF LedgerInv, LedgerTyped
<1>2. task'[d] = t /\ \A e \in Deliveries \ {d} : task'[e] = task[e]
  BY <1>1
<1>3. \A e \in Deliveries : task'[e].pc \in {"save", "mark"} => Effected'
  BY <1>2 DEF LedgerInv
<1> QED
  BY <1>1, <1>3

LEMMA PlaceTyped ==
  ASSUME LedgerInv, NEW d \in Deliveries, NEW pc \in Places
  PROVE  /\ [task[d] EXCEPT !.pc = pc]
              \in [pc : Places, run : Nat, count : Nat, tracked : BOOLEAN, dispatch : BOOLEAN]
         /\ [task[d] EXCEPT !.pc = pc].pc = pc
  BY DEF LedgerInv, LedgerTyped

LEMMA Moved ==
  ASSUME LedgerInv, NEW d \in Deliveries, NEW pc \in Places, Goes(d, pc),
         pc \in {"save", "mark"} => Effected', Effected => Effected'
  PROVE  /\ task' \in [Deliveries -> [pc : Places, run : Nat, count : Nat,
                                      tracked : BOOLEAN, dispatch : BOOLEAN]]
         /\ \A e \in Deliveries : task'[e].pc \in {"save", "mark"} => Effected'
<1>1. task' = [task EXCEPT ![d] = [task[d] EXCEPT !.pc = pc]]
  BY DEF Goes
<1> QED
  BY <1>1, PlaceTyped, TaskMoved

(***************************************************************************)
(* The invariant holds at first.                                           *)
(***************************************************************************)
LEMMA LedgerInitially == Init => LedgerInv
<1> SUFFICES ASSUME Init PROVE LedgerInv
  OBVIOUS
<1>1. Unsent \in [pc : Places, run : Nat, count : Nat, tracked : BOOLEAN, dispatch : BOOLEAN]
      /\ Unsent.pc = "none"
  BY DEF Unsent, Places
<1>2. LedgerTyped
  BY <1>1 DEF Init, LedgerTyped
<1>3. \A d \in Deliveries : task[d].pc = "none"
  BY <1>1 DEF Init
<1> QED
  BY <1>2, <1>3 DEF Init, LedgerInv

(***************************************************************************)
(* One lemma per action.                                                   *)
(***************************************************************************)
LEMMA Received == ASSUME LedgerInv, NEW d \in Deliveries, Receive(d) PROVE LedgerInv'
<1>1. webhook' = [webhook EXCEPT !.recorded = TRUE] /\ lifecycle' = lifecycle
      /\ sent' = sent /\ suppressed' = suppressed
  BY DEF Receive, RowRecorded
<1>2. Effected' = Effected
  BY <1>1 DEF Effected
<1>3. PICK pc \in {"queued", "owed"} : Goes(d, pc)
  BY DEF Receive, RowRecorded
<1>4. pc \in Places /\ pc \notin {"save", "mark"}
  BY <1>3 DEF Places
<1>5. /\ task' \in [Deliveries -> [pc : Places, run : Nat, count : Nat,
                                   tracked : BOOLEAN, dispatch : BOOLEAN]]
      /\ \A e \in Deliveries : task'[e].pc \in {"save", "mark"} => Effected'
  BY <1>2, <1>3, <1>4, Moved
<1>6. webhook' \in [recorded : BOOLEAN, processed : BOOLEAN, dead : BOOLEAN, retries : Nat]
      /\ webhook'.processed = webhook.processed
  BY <1>1 DEF LedgerInv, LedgerTyped
<1> QED
  BY <1>1, <1>2, <1>5, <1>6 DEF LedgerInv, LedgerTyped

LEMMA Lost == ASSUME LedgerInv, NEW d \in Deliveries, Lose(d) PROVE LedgerInv'
<1>1. Goes(d, "lost") /\ UNCHANGED <<webhook, lifecycle, sent, suppressed>> /\ "lost" \in Places
  BY DEF Lose, Places
<1>2. Effected' = Effected
  BY <1>1 DEF Effected
<1>3. /\ task' \in [Deliveries -> [pc : Places, run : Nat, count : Nat,
                                   tracked : BOOLEAN, dispatch : BOOLEAN]]
      /\ \A e \in Deliveries : task'[e].pc \in {"save", "mark"} => Effected'
  BY <1>1, <1>2, Moved
<1> QED
  BY <1>1, <1>2, <1>3 DEF LedgerInv, LedgerTyped

LEMMA Started == ASSUME LedgerInv, NEW d \in Deliveries, Start(d) PROVE LedgerInv'
<1> DEFINE T == [pc : Places, run : Nat, count : Nat, tracked : BOOLEAN, dispatch : BOOLEAN]
           t == IF webhook.processed THEN [task[d] EXCEPT !.pc = "done"]
                ELSE [pc |-> "record", run |-> task[d].run + 1, count |-> webhook.retries,
                      tracked |-> FALSE, dispatch |-> FALSE]
<1>1. task' = [task EXCEPT ![d] = t] /\ UNCHANGED <<webhook, lifecycle, sent, suppressed>>
  BY DEF Start
<1>2. task[d] \in T /\ webhook.retries \in Nat
  BY DEF LedgerInv, LedgerTyped
<1>3. t \in T /\ t.pc \in {"done", "record"}
  BY <1>2 DEF Places
<1>4. Effected' = Effected
  BY <1>1 DEF Effected
<1> HIDE DEF t
<1>5. task' \in [Deliveries -> T]
      /\ \A e \in Deliveries : task'[e].pc \in {"save", "mark"} => Effected'
  BY <1>1, <1>3, <1>4, TaskMoved
<1> QED
  BY <1>1, <1>4, <1>5 DEF LedgerInv, LedgerTyped

(***************************************************************************)
(* A run that skips the effect has a reason: its event is stale, or        *)
(* somebody marked it processed.                                           *)
(***************************************************************************)
LEMMA Recorded == ASSUME LedgerInv, NEW d \in Deliveries, Record(d) PROVE LedgerInv'
<1> DEFINE T == [pc : Places, run : Nat, count : Nat, tracked : BOOLEAN, dispatch : BOOLEAN]
<1>1. task[d] \in T /\ task \in [Deliveries -> T] /\ d \in Deliveries
  BY DEF LedgerInv, LedgerTyped
<1>2. webhook' = webhook /\ sent' = sent
  BY DEF Record
<1>3. ASSUME NEW stale \in BOOLEAN,
             task' = [task EXCEPT ![d].tracked = TRUE,
                                  ![d].dispatch = ~stale /\ Dispatches,
                                  ![d].pc = IF ~stale /\ Dispatches THEN "effects" ELSE "save"],
             suppressed' = (suppressed \/ stale),
             lifecycle' = IF lifecycle = "none" THEN "PENDING" ELSE lifecycle
      PROVE  LedgerInv'
  <2> DEFINE t == [task[d] EXCEPT !.tracked = TRUE,
                                  !.dispatch = ~stale /\ Dispatches,
                                  !.pc = IF ~stale /\ Dispatches THEN "effects" ELSE "save"]
  <2>1. task' = [task EXCEPT ![d] = t]
    BY <1>1, <1>3
  <2>2. t \in T
    BY <1>1, <1>3 DEF Places, Dispatches
  <2>3. t.pc = IF ~stale /\ Dispatches THEN "effects" ELSE "save"
    BY <1>1, <1>3
  <2>4. Effected => Effected'
    BY <1>2, <1>3 DEF Effected
  <2>5. ~Dispatches => lifecycle = "PROCESSED"
    BY DEF LedgerInv, LedgerTyped, Dispatches
  <2>6. ~(~stale /\ Dispatches) => Effected'
    BY <1>2, <1>3, <2>4, <2>5 DEF LedgerInv, Effected
  <2>7. t.pc \in {"save", "mark"} => Effected'
    BY <2>3, <2>6
  <2> HIDE DEF t
  <2>8. task' \in [Deliveries -> T]
        /\ \A e \in Deliveries : task'[e].pc \in {"save", "mark"} => Effected'
    BY <2>1, <2>2, <2>4, <2>7, TaskMoved
  <2>9. lifecycle' \in {"none", "PENDING", "PROCESSED", "FAILED"}
        /\ (lifecycle' = "PROCESSED" => lifecycle = "PROCESSED")
    BY <1>3 DEF LedgerInv, LedgerTyped
  <2> QED
    BY <1>2, <2>4, <2>8, <2>9 DEF LedgerInv, LedgerTyped
<1>4. ASSUME task' = [task EXCEPT ![d].dispatch = TRUE, ![d].pc = "effects"],
             UNCHANGED <<suppressed, lifecycle>>
      PROVE  LedgerInv'
  <2> DEFINE t == [task[d] EXCEPT !.dispatch = TRUE, !.pc = "effects"]
  <2>1. task' = [task EXCEPT ![d] = t]
    BY <1>1, <1>4
  <2>2. t \in T /\ t.pc = "effects"
    BY <1>1 DEF Places
  <2>3. Effected' = Effected
    BY <1>2, <1>4 DEF Effected
  <2> HIDE DEF t
  <2>4. task' \in [Deliveries -> T]
        /\ \A e \in Deliveries : task'[e].pc \in {"save", "mark"} => Effected'
    BY <2>1, <2>2, <2>3, TaskMoved
  <2> QED
    BY <1>2, <1>4, <2>3, <2>4 DEF LedgerInv, LedgerTyped
<1> QED
  BY <1>3, <1>4 DEF Record

LEMMA EffectSent == ASSUME LedgerInv, NEW d \in Deliveries, Effects(d) PROVE LedgerInv'
<1>1. UNCHANGED <<webhook, lifecycle, suppressed>>
  BY DEF Effects
<1>2. Effected => Effected'
  BY <1>1 DEF Effects, Effected
<1>3. PICK pc \in {"save", "untrack"} : Goes(d, pc) /\ (pc = "save" => Effected')
  BY DEF Effects, Effected
<1>4. pc \in Places /\ (pc \in {"save", "mark"} => Effected')
  BY <1>3 DEF Places
<1>5. /\ task' \in [Deliveries -> [pc : Places, run : Nat, count : Nat,
                                   tracked : BOOLEAN, dispatch : BOOLEAN]]
      /\ \A e \in Deliveries : task'[e].pc \in {"save", "mark"} => Effected'
  BY <1>2, <1>3, <1>4, Moved
<1> QED
  BY <1>1, <1>2, <1>5 DEF LedgerInv, LedgerTyped

LEMMA Saved == ASSUME LedgerInv, NEW d \in Deliveries, Save(d) PROVE LedgerInv'
<1>1. UNCHANGED <<lifecycle, sent, suppressed>> /\ Effected
  BY DEF Save, LedgerInv
<1>2. Effected'
  BY <1>1 DEF Effected
<1>3. PICK pc \in {"mark", "done", "untrack"} : Goes(d, pc)
  BY DEF Save
<1>4. pc \in Places
  BY DEF Places
<1>5. /\ task' \in [Deliveries -> [pc : Places, run : Nat, count : Nat,
                                   tracked : BOOLEAN, dispatch : BOOLEAN]]
      /\ \A e \in Deliveries : task'[e].pc \in {"save", "mark"} => Effected'
  BY <1>2, <1>3, <1>4, Moved
<1>6. webhook' \in [recorded : BOOLEAN, processed : BOOLEAN, dead : BOOLEAN, retries : Nat]
  BY DEF Save, LedgerInv, LedgerTyped
<1> QED
  BY <1>1, <1>2, <1>5, <1>6 DEF LedgerInv, LedgerTyped

LEMMA Marked == ASSUME LedgerInv, NEW d \in Deliveries, Mark(d) PROVE LedgerInv'
<1>1. UNCHANGED <<webhook, sent, suppressed>> /\ Effected
  BY DEF Mark, LedgerInv
<1>2. Effected'
  BY <1>1 DEF Effected
<1>3. PICK pc \in {"done", "untrack"} : Goes(d, pc)
  BY DEF Mark
<1>4. pc \in Places
  BY DEF Places
<1>5. /\ task' \in [Deliveries -> [pc : Places, run : Nat, count : Nat,
                                   tracked : BOOLEAN, dispatch : BOOLEAN]]
      /\ \A e \in Deliveries : task'[e].pc \in {"save", "mark"} => Effected'
  BY <1>2, <1>3, <1>4, Moved
<1>6. lifecycle' \in {"none", "PENDING", "PROCESSED", "FAILED"}
  BY DEF Mark, LedgerInv, LedgerTyped
<1> QED
  BY <1>1, <1>2, <1>5, <1>6 DEF LedgerInv, LedgerTyped

LEMMA Untracked == ASSUME LedgerInv, NEW d \in Deliveries, Untrack(d) PROVE LedgerInv'
<1>1. Goes(d, "fail") /\ UNCHANGED <<webhook, sent, suppressed>> /\ "fail" \in Places
  BY DEF Untrack, Places
<1>2. Effected' = Effected
  BY <1>1 DEF Effected
<1>3. /\ task' \in [Deliveries -> [pc : Places, run : Nat, count : Nat,
                                   tracked : BOOLEAN, dispatch : BOOLEAN]]
      /\ \A e \in Deliveries : task'[e].pc \in {"save", "mark"} => Effected'
  BY <1>1, <1>2, Moved
<1>4. lifecycle' \in {"none", "PENDING", "PROCESSED", "FAILED"}
      /\ (lifecycle' = "PROCESSED" => lifecycle = "PROCESSED")
  BY DEF Untrack, LedgerInv, LedgerTyped
<1> QED
  BY <1>1, <1>2, <1>3, <1>4 DEF LedgerInv, LedgerTyped

LEMMA Failed == ASSUME LedgerInv, NEW d \in Deliveries, Fail(d) PROVE LedgerInv'
<1>1. Goes(d, "again") /\ UNCHANGED <<lifecycle, sent, suppressed>> /\ "again" \in Places
  BY DEF Fail, Places
<1>2. Effected' = Effected
  BY <1>1 DEF Effected
<1>3. /\ task' \in [Deliveries -> [pc : Places, run : Nat, count : Nat,
                                   tracked : BOOLEAN, dispatch : BOOLEAN]]
      /\ \A e \in Deliveries : task'[e].pc \in {"save", "mark"} => Effected'
  BY <1>1, <1>2, Moved
<1>4. task[d].count + 1 \in Nat
  BY DEF LedgerInv, LedgerTyped
<1>5. PICK b \in BOOLEAN :
        webhook' = [webhook EXCEPT !.retries = task[d].count + 1, !.dead = b]
  <2>1. webhook.dead \in BOOLEAN
    BY DEF LedgerInv, LedgerTyped
  <2> QED
    BY <2>1 DEF Fail
<1>6. webhook' \in [recorded : BOOLEAN, processed : BOOLEAN, dead : BOOLEAN, retries : Nat]
      /\ webhook'.processed = webhook.processed
  BY <1>4, <1>5 DEF LedgerInv, LedgerTyped
<1> QED
  BY <1>1, <1>2, <1>3, <1>6 DEF LedgerInv, LedgerTyped

LEMMA TriedAgain == ASSUME LedgerInv, NEW d \in Deliveries, Again(d) PROVE LedgerInv'
<1>1. UNCHANGED <<webhook, lifecycle, sent, suppressed>>
  BY DEF Again
<1>2. Effected' = Effected
  BY <1>1 DEF Effected
<1>3. PICK pc \in {"queued", "done"} : Goes(d, pc)
  BY DEF Again
<1>4. pc \in Places /\ pc \notin {"save", "mark"}
  BY DEF Places
<1>5. /\ task' \in [Deliveries -> [pc : Places, run : Nat, count : Nat,
                                   tracked : BOOLEAN, dispatch : BOOLEAN]]
      /\ \A e \in Deliveries : task'[e].pc \in {"save", "mark"} => Effected'
  BY <1>2, <1>3, <1>4, Moved
<1> QED
  BY <1>1, <1>2, <1>5 DEF LedgerInv, LedgerTyped

LEMMA LedgerStep == LedgerInv /\ [Next]_vars => LedgerInv'
<1> SUFFICES ASSUME LedgerInv, [Next]_vars PROVE LedgerInv'
  OBVIOUS
<1>1. ASSUME NEW d \in Deliveries, Receive(d) \/ Lose(d) PROVE LedgerInv'
  BY <1>1, Received, Lost
<1>2. ASSUME NEW d \in Deliveries, Run(d) PROVE LedgerInv'
  BY <1>2, Started, Recorded, EffectSent, Saved, Marked, Untracked, Failed, TriedAgain DEF Run
<1>3. CASE UNCHANGED vars
  BY <1>3 DEF vars, LedgerInv, LedgerTyped, Effected
<1> QED
  BY <1>1, <1>2, <1>3 DEF Next

(***************************************************************************)
(* A webhook that is marked processed has had its effect, whatever fails   *)
(* in between and however its deliveries overlap.                          *)
(***************************************************************************)
THEOREM ProcessedOnlyAfterSent == Spec => []ProcessedWasSent
<1>1. LedgerInv => ProcessedWasSent
  BY DEF LedgerInv, ProcessedWasSent, Effected
<1> QED
  BY <1>1, LedgerInitially, LedgerStep, PTL DEF Spec

-----------------------------------------------------------------------------
(***************************************************************************)
(* The opening cohort.  A drain looks at the barrier twice, and the cohort *)
(* may form in between: it is the second look, at the state in which the   *)
(* row is assigned, that counts.  Rows and the cohort keep their columns;  *)
(* nothing else is needed.                                                 *)
(***************************************************************************)
RowsAreRows ==
    /\ DOMAIN queue = Waiting
    /\ \A r \in Waiting : DOMAIN queue[r] = {"assigned", "next"}

CohortIsOne == DOMAIN cohort = {"state", "members", "recheck", "deadline"}

BarrierInv == RowsAreRows /\ CohortIsOne

NothingAssigned == \A r \in Waiting : queue'[r].assigned => queue[r].assigned

LEMMA ReleasedIsOver ==
  ASSUME NEW c, DOMAIN c = {"state", "members", "recheck", "deadline"}
  PROVE  /\ Cohort!Released(c).state = "released"
         /\ DOMAIN Cohort!Released(c) = {"state", "members", "recheck", "deadline"}
BY DEF Cohort!Released

LEMMA CurrentIsOne ==
  ASSUME CohortIsOne
  PROVE  DOMAIN Cohort!Current = {"state", "members", "recheck", "deadline"}
BY DEF CohortIsOne, Cohort!Current

LEMMA EvaluatedCohort ==
  ASSUME CohortIsOne
  PROVE  /\ DOMAIN Cohort!Evaluated = {"state", "members", "recheck", "deadline"}
         /\ ~Cohort!Defers => Cohort!Evaluated.state # "active"
<1>1. DOMAIN Cohort!Current = {"state", "members", "recheck", "deadline"}
  BY CurrentIsOne
<1>2. /\ Cohort!Released(Cohort!Current).state = "released"
      /\ DOMAIN Cohort!Released(Cohort!Current) = {"state", "members", "recheck", "deadline"}
  BY <1>1, ReleasedIsOver
<1> QED BY <1>1, <1>2 DEF Cohort!Evaluated, Cohort!Defers

LEMMA FinalizedCohort ==
  ASSUME CohortIsOne
  PROVE  DOMAIN Cohort!Finalized = {"state", "members", "recheck", "deadline"}
BY ReleasedIsOver DEF Cohort!Finalized, CohortIsOne

LEMMA RowDeferred ==
  ASSUME RowsAreRows, NEW s, queue' = Cohort!Deferred(s)
  PROVE  RowsAreRows' /\ NothingAssigned
<1>1. CASE queue' = queue
  BY <1>1 DEF RowsAreRows, NothingAssigned
<1>2. CASE queue' = [queue EXCEPT ![s].next = Cohort!Current.recheck]
  <2>1. DOMAIN queue' = Waiting
    BY <1>2 DEF RowsAreRows
  <2>2. ASSUME NEW r \in Waiting
        PROVE  DOMAIN queue'[r] = {"assigned", "next"} /\ queue'[r].assigned = queue[r].assigned
    <3>1. CASE r = s
      <4>1. queue'[r] = [queue[r] EXCEPT !.next = Cohort!Current.recheck]
        BY <1>2, <3>1 DEF RowsAreRows
      <4> QED BY <4>1 DEF RowsAreRows
    <3>2. CASE r # s
      <4>1. queue'[r] = queue[r]
        BY <1>2, <3>2 DEF RowsAreRows
      <4> QED BY <4>1 DEF RowsAreRows
    <3> QED BY <3>1, <3>2
  <2> QED BY <2>1, <2>2 DEF RowsAreRows, NothingAssigned
<1> QED BY <1>1, <1>2 DEF Cohort!Deferred

LEMMA RowAssigned ==
  ASSUME RowsAreRows, NEW s, queue' = [queue EXCEPT ![s].assigned = TRUE]
  PROVE  RowsAreRows'
<1>1. DOMAIN queue' = Waiting
  BY DEF RowsAreRows
<1>2. ASSUME NEW r \in Waiting
      PROVE  DOMAIN queue'[r] = {"assigned", "next"}
  <2>1. CASE r = s
    <3>1. queue'[r] = [queue[r] EXCEPT !.assigned = TRUE]
      BY <2>1 DEF RowsAreRows
    <3> QED BY <3>1 DEF RowsAreRows
  <2>2. CASE r # s
    <3>1. queue'[r] = queue[r]
      BY <2>2 DEF RowsAreRows
    <3> QED BY <3>1 DEF RowsAreRows
  <2> QED BY <2>1, <2>2
<1> QED BY <1>1, <1>2 DEF RowsAreRows

(* A step assigns nothing, or leaves the cohort released or absent.         *)
Holds == BarrierInv' /\ (NothingAssigned \/ cohort'.state # "active")

LEMMA BarrierReserve ==
  ASSUME BarrierInv, NEW d, Cohort!Reserve(d)
  PROVE  Holds
<1> DEFINE r == drain[d].row
<1>1. CASE UNCHANGED <<cohort, callback, queue>>
  BY <1>1 DEF Holds, BarrierInv, RowsAreRows, CohortIsOne, NothingAssigned
<1>2. CASE /\ cohort' = Cohort!Evaluated
           /\ queue' = IF Cohort!Passes THEN [queue EXCEPT ![r].assigned = TRUE] ELSE Cohort!Deferred(r)
  <2>1. CohortIsOne'
    BY <1>2, EvaluatedCohort DEF BarrierInv, CohortIsOne
  <2>2. CASE Cohort!Passes
    <3>1. cohort'.state # "active"
      BY <1>2, <2>2, EvaluatedCohort DEF BarrierInv, Cohort!Passes
    <3>2. RowsAreRows'
      BY <1>2, <2>2, RowAssigned DEF BarrierInv
    <3> QED BY <2>1, <3>1, <3>2 DEF Holds, BarrierInv
  <2>3. CASE ~Cohort!Passes
    <3>1. RowsAreRows' /\ NothingAssigned
      BY <1>2, <2>3, RowDeferred DEF BarrierInv
    <3> QED BY <2>1, <3>1 DEF Holds, BarrierInv
  <2> QED BY <2>2, <2>3
<1> QED BY <1>1, <1>2 DEF Cohort!Reserve

LEMMA BarrierPrecheck ==
  ASSUME BarrierInv, NEW d, NEW r, Cohort!Precheck(d, r)
  PROVE  Holds
<1>1. cohort' = Cohort!Evaluated /\ queue' = Cohort!Deferred(r)
  BY DEF Cohort!Precheck
<1>2. CohortIsOne'
  BY <1>1, EvaluatedCohort DEF BarrierInv, CohortIsOne
<1>3. RowsAreRows' /\ NothingAssigned
  BY <1>1, RowDeferred DEF BarrierInv
<1> QED BY <1>2, <1>3 DEF Holds, BarrierInv

LEMMA BarrierElse ==
  ASSUME BarrierInv, UNCHANGED queue, cohort' \in {cohort, Cohort!Finalized}
  PROVE  Holds
<1>1. CohortIsOne'
  BY FinalizedCohort DEF BarrierInv, CohortIsOne
<1>2. RowsAreRows' /\ NothingAssigned
  BY DEF BarrierInv, RowsAreRows, NothingAssigned
<1> QED BY <1>1, <1>2 DEF Holds, BarrierInv

LEMMA BarrierStep ==
  ASSUME BarrierInv, [Cohort!Next]_(Cohort!vars)
  PROVE  Holds
<1>1. ASSUME NEW d \in Drains, Cohort!Reserve(d) PROVE Holds
  BY <1>1, BarrierReserve
<1>2. ASSUME NEW d \in Drains, NEW r \in Waiting, Cohort!Precheck(d, r) PROVE Holds
  BY <1>2, BarrierPrecheck
<1>3. CASE Cohort!Tick \/ Cohort!Beat \/ Cohort!Recheck
  BY <1>3, BarrierElse DEF Cohort!Tick, Cohort!Beat, Cohort!Recheck
<1>4. CASE \E a \in Members : Cohort!Come(a) \/ Cohort!Settle(a) \/ Cohort!Go(a)
  BY <1>4, BarrierElse DEF Cohort!Come, Cohort!Settle, Cohort!Go
<1>5. CASE UNCHANGED Cohort!vars
  BY <1>5, BarrierElse DEF Cohort!vars
<1> QED BY <1>1, <1>2, <1>3, <1>4, <1>5 DEF Cohort!Next

(* No row that waited for the window is assigned while the cohort holds it  *)
(* back, however the drains interleave with agents that come and go         *)
(* (reserve_next_assignment and evaluate_opening_cohort_barrier).           *)
THEOREM NobodyJumpsTheBarrier == Cohort!Spec => NoEarlyAssignment
<1>1. Cohort!Init => BarrierInv
  BY DEF Cohort!Init, BarrierInv, RowsAreRows, CohortIsOne, Cohort!NoCohort
<1>2. BarrierInv /\ [Cohort!Next]_(Cohort!vars) => BarrierInv'
  BY BarrierStep DEF Holds
<1>3. BarrierInv /\ [Cohort!Next]_(Cohort!vars) =>
        [\A r \in Waiting :
            queue'[r].assigned /\ ~queue[r].assigned => cohort'.state # "active"]_(Cohort!vars)
  BY BarrierStep DEF Holds, NothingAssigned
<1> QED BY <1>1, <1>2, <1>3, PTL DEF Cohort!Spec, NoEarlyAssignment, Cohort!NoEarlyAssignment

-----------------------------------------------------------------------------
(***************************************************************************)
(* The last of finitely many times.                                        *)
(***************************************************************************)
LEMMA LastOf ==
  ASSUME NEW S, IsFiniteSet(S), S \subseteq Int, S # {}
  PROVE  \E x \in S : \A y \in S : y <= x
<1> DEFINE From(x) == {y \in S : x <= y}
           T == {From(x) : x \in S}
<1>1. IsWellFoundedOn(StrictSubsetOrdering(S), FiniteSubsetsOf(S))
  BY FS_StrictSubsetOrderingWellFounded
<1>2. FiniteSubsetsOf(S) = SUBSET S
  BY FS_FiniteSubsetsOfFinite
<1>3. T \subseteq FiniteSubsetsOf(S)
  BY <1>2
<1>4. T # {}
  <2>1. PICK x \in S : TRUE
    OBVIOUS
  <2>2. From(x) \in T
    BY <2>1
  <2> QED
    BY <2>2
<1>5. PICK f \in T : \A g \in T : ~(<<g, f>> \in StrictSubsetOrdering(S))
  <2> HIDE DEF T
  <2> QED
    BY <1>1, <1>3, <1>4, WFMin
<1>6. PICK x \in S : f = From(x)
  OBVIOUS
<1>7. ASSUME NEW y \in S PROVE y <= x
  <2> SUFFICES ASSUME x < y PROVE FALSE
    OBVIOUS
  <2>1. From(y) \subseteq From(x)
    <3>1. x \in Int /\ y \in Int /\ \A z \in S : z \in Int
      OBVIOUS
    <3>2. \A z \in S : y <= z => x <= z
      BY <3>1
    <3> QED
      BY <3>2
  <2>2. x \in From(x) /\ x \notin From(y)
    OBVIOUS
  <2>3. <<From(y), From(x)>> \in StrictSubsetOrdering(S)
    BY <2>1, <2>2 DEF StrictSubsetOrdering
  <2> QED
    BY <1>5, <1>6, <2>3
<1> QED
  BY <1>7

-----------------------------------------------------------------------------
(***************************************************************************)
(* Lifecycle occurrences.  What is proven stays proven with its time, and  *)
(* cycles only move on; so what a process found out about either stays     *)
(* true until it acts on it.                                               *)
(***************************************************************************)
Key == Occurrences!Keys
Opening == Occurrences!Entries
Ran == Occurrences!OccurrenceWorkers

RowType == [evidence : {"none", "pending", "proven", "ambiguous", "rejected"},
            at : Nat,
            status : {"none", "pending", "processed", "repair_required"},
            retries : Nat, due : BOOLEAN]

RowsTyped(rows) ==
    /\ rows \in [Key -> RowType]
    /\ \A k \in Key :
        /\ rows[k].evidence = "proven" <=> rows[k].at # 0
        /\ rows[k].at \in Occurrences!Times \cup {0}
        /\ k[1] = "timed" => rows[k].at \in {0, k[2]}

WorkType == [pc : {"idle", "closing", "read", "later", "done", "unproven", "claimed"},
             key : Key \cup {Occurrences!NoKey}, origin : Key \cup {Occurrences!NoKey},
             snap : Nat]

OccurrencesTyped ==
    /\ MaxTime \in Nat
    /\ now \in 0..MaxTime
    /\ RowsTyped(row)
    /\ cycle \in [Opening -> {"none", "open", "closed"}]
    /\ worker \in [Ran -> WorkType]

(* A pending closure is seen after a closure.                               *)
Noted(r) == r.status # "none" \/ r.evidence = "pending"
ClosureSeen == \A k \in Key : Noted(row[k]) /\ row[k].at = 0 => now >= 2

Effect(t, cycles) ==
    IF Occurrences!IsEntry(t) THEN cycles[t] # "none"
    ELSE \E c \in Opening : c < t /\ cycles[c] = "closed"

(* What a process at x knows of the row that it has in hand.                *)
Knows(x, rows, cycles) ==
    /\ x.pc \in {"claimed", "closing", "read", "done"} => rows[x.key].evidence = "proven"
    /\ x.pc \in {"closing", "read", "done"} => ~Occurrences!IsEntry(rows[x.key].at)
    /\ x.pc = "done" => Effect(rows[x.key].at, cycles)

Fine(x, rows, cycles, time) ==
    /\ x \in WorkType
    /\ x.pc # "idle" => x.key \in Key
    /\ x.pc = "unproven" => x.origin \in Key /\ time >= 2
    /\ Knows(x, rows, cycles)

ProcessedRows ==
    \A k \in Key : row[k].status = "processed" /\ row[k].evidence = "proven"
        => Effect(row[k].at, cycle)

OccurrencesInv ==
    /\ OccurrencesTyped
    /\ ClosureSeen
    /\ \A w \in Ran : Fine(worker[w], row, cycle, now)
    /\ ProcessedRows

(***************************************************************************)
(* What every step keeps.                                                  *)
(***************************************************************************)
CyclesGrow ==
    /\ cycle' \in [Opening -> {"none", "open", "closed"}]
    /\ \A c \in Opening :
        /\ cycle[c] # "none" => cycle'[c] # "none"
        /\ cycle[c] = "closed" => cycle'[c] = "closed"

RowsKept(old, new) ==
    \A k \in Key : old[k].evidence = "proven" =>
        new[k].evidence = "proven" /\ new[k].at = old[k].at

LEMMA EffectStays ==
  ASSUME CyclesGrow, NEW t \in Occurrences!Times, Effect(t, cycle)
  PROVE  Effect(t, cycle')
<1>1. CASE Occurrences!IsEntry(t)
  <2>1. t \in Opening
    BY <1>1 DEF Opening, Occurrences!Entries
  <2> QED
    BY <1>1, <2>1 DEF Effect, CyclesGrow
<1>2. CASE ~Occurrences!IsEntry(t)
  BY <1>2 DEF Effect, CyclesGrow
<1> QED
  BY <1>1, <1>2

(***************************************************************************)
(* Rows as a step leaves them: well formed, with their evidence, and       *)
(* processed only if they were or have their effect.                       *)
(***************************************************************************)
RowsStep(old, new, cycles) ==
    /\ RowsTyped(new)
    /\ RowsKept(old, new)
    /\ \A k \in Key :
        /\ new[k].at = 0 /\ Noted(new[k]) =>
            now >= 2 \/ (old[k].at = 0 /\ Noted(old[k]))
        /\ new[k].status = "processed" /\ new[k].evidence = "proven" =>
            \/ old[k].status = "processed" /\ old[k].evidence = "proven"
            \/ Effect(new[k].at, cycles)

LEMMA NothingWritten == RowsTyped(row) => RowsStep(row, row, cycle')
  BY DEF RowsStep, RowsKept

LEMMA NothingOpened == OccurrencesTyped /\ cycle' = cycle => CyclesGrow
  BY DEF OccurrencesTyped, CyclesGrow

LEMMA FineStays ==
  ASSUME NEW x, Fine(x, row, cycle, now), RowsTyped(row), RowsKept(row, row'), CyclesGrow,
         MaxTime \in Nat, now \in 0..MaxTime, now' \in now..MaxTime
  PROVE  Fine(x, row', cycle', now')
<1>1. x \in WorkType /\ (x.pc # "idle" => x.key \in Key)
      /\ (x.pc = "unproven" => x.origin \in Key /\ now' >= 2)
  BY DEF Fine
<1>2. CASE x.pc \notin {"claimed", "closing", "read", "done"}
  BY <1>1, <1>2 DEF Fine, Knows
<1>3. CASE x.pc \in {"claimed", "closing", "read", "done"}
  <2>1. x.key \in Key
    BY <1>1, <1>3
  <2>2. row[x.key].evidence = "proven"
    BY <1>3 DEF Fine, Knows
  <2>3. row'[x.key].evidence = "proven" /\ row'[x.key].at = row[x.key].at
    BY <2>1, <2>2 DEF RowsKept
  <2>4. row[x.key].at \in Occurrences!Times
    BY <2>1, <2>2 DEF RowsTyped
  <2>5. x.pc \in {"closing", "read", "done"} => ~Occurrences!IsEntry(row'[x.key].at)
    BY <2>3 DEF Fine, Knows
  <2>6. x.pc = "done" => Effect(row'[x.key].at, cycle')
    BY <2>3, <2>4, EffectStays DEF Fine, Knows
  <2> QED
    BY <1>1, <2>3, <2>5, <2>6 DEF Fine, Knows
<1> QED
  BY <1>2, <1>3

LEMMA StepKeeps ==
  ASSUME OccurrencesInv, RowsStep(row, row', cycle'), CyclesGrow, now' \in now..MaxTime,
         DOMAIN worker' = Ran, worker' = [w \in Ran |-> worker'[w]],
         \A w \in Ran : worker'[w] = worker[w] \/ Fine(worker'[w], row', cycle', now')
  PROVE  OccurrencesInv'
<1>1. MaxTime \in Nat /\ now \in 0..MaxTime /\ RowsTyped(row) /\ RowsKept(row, row')
  BY DEF OccurrencesInv, OccurrencesTyped, RowsStep
<1>2. \A w \in Ran : Fine(worker'[w], row', cycle', now')
  BY <1>1, FineStays DEF OccurrencesInv
<1>3. \A w \in Ran : worker'[w] \in WorkType
  BY <1>2 DEF Fine
<1>4. worker' \in [Ran -> WorkType]
  BY <1>3
<1>5. now' \in 0..MaxTime
  BY <1>1
<1>6. OccurrencesTyped'
  BY <1>1, <1>4, <1>5 DEF OccurrencesTyped, RowsStep, CyclesGrow, RowsTyped
<1>7. ClosureSeen'
  BY <1>1 DEF OccurrencesInv, ClosureSeen, RowsStep
<1>8. ProcessedRows'
  <2> SUFFICES ASSUME NEW k \in Key, row'[k].status = "processed", row'[k].evidence = "proven"
               PROVE  Effect(row'[k].at, cycle')
    BY DEF ProcessedRows
  <2>1. CASE Effect(row'[k].at, cycle')
    BY <2>1
  <2>2. CASE row[k].status = "processed" /\ row[k].evidence = "proven"
    <3>1. Effect(row[k].at, cycle) /\ row'[k].at = row[k].at
      BY <1>1, <2>2 DEF OccurrencesInv, ProcessedRows, RowsKept
    <3>2. row[k].at \in Occurrences!Times
      BY <1>1, <2>2 DEF RowsTyped
    <3> QED
      BY <3>1, <3>2, EffectStays
  <2> QED
    BY <2>1, <2>2 DEF RowsStep
<1> QED
  BY <1>2, <1>6, <1>7, <1>8 DEF OccurrencesInv

(***************************************************************************)
(* The cycle that a closure is for, and what opening does.                 *)
(***************************************************************************)
LEMMA TargetFound ==
  ASSUME OccurrencesTyped, NEW t \in Occurrences!Times
  PROVE  \/ Occurrences!TargetOf(t) = 0
         \/ /\ Occurrences!TargetOf(t) \in Opening
            /\ cycle[Occurrences!TargetOf(t)] # "none"
            /\ Occurrences!TargetOf(t) <= t
<1> DEFINE S == {c \in Occurrences!Known : c <= t}
<1>1. CASE S = {}
  BY <1>1 DEF Occurrences!TargetOf
<1>2. CASE S # {}
  <2>1. S \subseteq 1..MaxTime /\ S \subseteq Int
    BY DEF Occurrences!Known, Occurrences!Entries, Occurrences!Times
  <2>2. IsFiniteSet(1..MaxTime)
    BY FS_Interval DEF OccurrencesTyped
  <2>3. IsFiniteSet(S)
    BY <2>1, <2>2, FS_Subset
  <2>4. \E c \in S : \A d \in S : d <= c
    BY <1>2, <2>1, <2>3, LastOf
  <2>5. \E c \in S : Occurrences!IsNewest(c, S)
    BY <2>4 DEF Occurrences!IsNewest
  <2>6. Occurrences!TargetOf(t) = CHOOSE c \in S : Occurrences!IsNewest(c, S)
    BY <1>2 DEF Occurrences!TargetOf
  <2>7. Occurrences!TargetOf(t) \in S
    BY <2>5, <2>6
  <2> QED
    BY <2>7 DEF Occurrences!Known, Opening
<1> QED
  BY <1>1, <1>2

LEMMA OpenedGrows ==
  ASSUME OccurrencesTyped, NEW t \in Opening, cycle' = Occurrences!Opened(t)
  PROVE  CyclesGrow
<1>1. CASE cycle' = cycle
  BY <1>1, NothingOpened
<1>2. CASE cycle[t] = "none" /\ cycle' = [cycle EXCEPT ![t] = "open"]
  BY <1>2 DEF OccurrencesTyped, CyclesGrow
<1> QED
  BY <1>1, <1>2 DEF Occurrences!Opened

(***************************************************************************)
(* One row is rewritten.                                                   *)
(***************************************************************************)
LEMMA OneRow ==
  ASSUME NEW rows, RowsTyped(rows), NEW k \in Key, NEW r \in RowType, NEW cycles,
         r.evidence = "proven" <=> r.at # 0,
         r.at \in Occurrences!Times \cup {0},
         k[1] = "timed" => r.at \in {0, k[2]},
         rows[k].evidence = "proven" => r.evidence = "proven" /\ r.at = rows[k].at,
         r.at = 0 /\ Noted(r) =>
             now >= 2 \/ (rows[k].at = 0 /\ Noted(rows[k])),
         r.status = "processed" /\ r.evidence = "proven" =>
             \/ rows[k].status = "processed" /\ rows[k].evidence = "proven"
             \/ Effect(r.at, cycles)
  PROVE  RowsStep(rows, [rows EXCEPT ![k] = r], cycles)
<1> DEFINE new == [rows EXCEPT ![k] = r]
<1>1. rows \in [Key -> RowType]
  BY DEF RowsTyped
<1>2. new \in [Key -> RowType] /\ new[k] = r /\ \A j \in Key : j # k => new[j] = rows[j]
  BY <1>1
<1> HIDE DEF new
<1>3. RowsTyped(new)
  BY <1>2 DEF RowsTyped
<1>4. RowsKept(rows, new)
  BY <1>2 DEF RowsKept
<1>5. RowsStep(rows, new, cycles)
  BY <1>2, <1>3, <1>4 DEF RowsStep
<1> QED
  BY <1>5 DEF new

LEMMA RowsStepTwice ==
  ASSUME NEW rows, NEW some, NEW more, NEW cycles,
         RowsStep(rows, some, cycles), RowsStep(some, more, cycles)
  PROVE  RowsStep(rows, more, cycles)
<1>1. RowsKept(rows, more)
  BY DEF RowsStep, RowsKept
<1>2. ASSUME NEW k \in Key, more[k].status = "processed", more[k].evidence = "proven",
             ~Effect(more[k].at, cycles)
      PROVE  rows[k].status = "processed" /\ rows[k].evidence = "proven"
  <2>1. some[k].status = "processed" /\ some[k].evidence = "proven"
    BY <1>2 DEF RowsStep
  <2>2. more[k].at = some[k].at
    BY <2>1 DEF RowsStep, RowsKept
  <2> QED
    BY <1>2, <2>1, <2>2 DEF RowsStep
<1> QED
  BY <1>1, <1>2 DEF RowsStep

LEMMA RecordedRows ==
  ASSUME OccurrencesTyped, NEW t \in Occurrences!Times, NEW cycles
  PROVE  /\ RowsStep(row, Occurrences!Recorded(t), cycles)
         /\ Occurrences!KeyFor(t) \in Key
         /\ Occurrences!Recorded(t)[Occurrences!KeyFor(t)].evidence = "proven"
         /\ Occurrences!Recorded(t)[Occurrences!KeyFor(t)].at = t
<1> DEFINE same == {k \in Occurrences!Keys : row[k].evidence = "proven" /\ row[k].at = t}
           k == Occurrences!KeyFor(t)
           pending == <<"pending", Occurrences!TargetOf(t)>>
<1>1. RowsTyped(row) /\ t \in Nat /\ t # 0
  BY DEF OccurrencesTyped, Occurrences!Times
<1>2. /\ k \in Key
      /\ row[k].evidence = "proven" => row[k].at = t
      /\ k[1] = "timed" /\ row[k].evidence # "proven" => k[2] = t
  <2>1. CASE same # {}
    <3>1. k \in same
      BY <2>1 DEF Occurrences!KeyFor
    <3> QED
      BY <3>1 DEF Key
  <2>2. CASE same = {} /\ ~Occurrences!IsEntry(t) /\ row[pending].evidence = "pending"
    <3>1. k = pending
      BY <2>2 DEF Occurrences!KeyFor
    <3>2. pending \in Key
      BY TargetFound DEF Key, Opening, Occurrences!Keys
    <3>3. pending[1] = "pending"
      OBVIOUS
    <3> QED
      BY <2>2, <3>1, <3>2, <3>3
  <2>3. CASE same = {} /\ ~(~Occurrences!IsEntry(t) /\ row[pending].evidence = "pending")
    <3>1. k = <<"timed", t>>
      BY <2>3 DEF Occurrences!KeyFor
    <3>2. <<"timed", t>> \in Key
      BY DEF Key, Occurrences!Keys
    <3>3. <<"timed", t>>[1] = "timed" /\ <<"timed", t>>[2] = t
      OBVIOUS
    <3>4. row[k].at \in {0, t} /\ (row[k].evidence = "proven" <=> row[k].at # 0)
      BY <1>1, <3>1, <3>2, <3>3 DEF RowsTyped
    <3> QED
      BY <3>1, <3>2, <3>3, <3>4
  <2> QED
    BY <2>1, <2>2, <2>3
<1> HIDE DEF k
<1>3. CASE row[k].evidence = "proven"
  <2>1. Occurrences!Recorded(t) = row
    BY <1>3 DEF Occurrences!Recorded, k
  <2>2. RowsStep(row, row, cycles)
    BY <1>1 DEF RowsStep, RowsKept
  <2> QED
    BY <1>2, <1>3, <2>1, <2>2 DEF k
<1>4. CASE row[k].evidence # "proven"
  <2> DEFINE r == [row[k] EXCEPT !.evidence = "proven", !.at = t, !.status = "pending", !.due = TRUE]
  <2>1. Occurrences!Recorded(t) = [row EXCEPT ![k] = r]
    BY <1>4 DEF Occurrences!Recorded, k
  <2>2. row[k] \in RowType
    BY <1>1, <1>2 DEF RowsTyped
  <2>3. r \in RowType /\ r.evidence = "proven" /\ r.at = t /\ r.status = "pending"
    BY <1>1, <2>2 DEF RowType
  <2> HIDE DEF r
  <2>4. RowsStep(row, [row EXCEPT ![k] = r], cycles)
    BY <1>1, <1>2, <1>4, <2>3, OneRow
  <2>5. [row EXCEPT ![k] = r][k] = r
    BY <1>1, <1>2 DEF RowsTyped
  <2> QED
    BY <1>2, <2>1, <2>3, <2>4, <2>5 DEF k
<1> QED
  BY <1>3, <1>4

LEMMA RowProcessed ==
  ASSUME NEW rows, RowsTyped(rows), NEW k \in Key, NEW cycles,
         rows[k].evidence = "proven" => Effect(rows[k].at, cycles)
  PROVE  RowsStep(rows, Occurrences!Processed(rows, k), cycles)
<1>1. CASE rows[k].evidence = "proven" /\ rows[k].status = "pending"
  <2> DEFINE r == [rows[k] EXCEPT !.status = "processed", !.due = FALSE]
  <2>1. Occurrences!Processed(rows, k) = [rows EXCEPT ![k] = r]
    BY <1>1 DEF Occurrences!Processed
  <2>2. rows[k] \in RowType
    BY DEF RowsTyped
  <2>3. r \in RowType /\ r.evidence = rows[k].evidence /\ r.at = rows[k].at
        /\ r.status = "processed"
    BY <2>2 DEF RowType
  <2>4. /\ rows[k].evidence = "proven" <=> rows[k].at # 0
        /\ rows[k].at \in Occurrences!Times \cup {0}
        /\ k[1] = "timed" => rows[k].at \in {0, k[2]}
    BY DEF RowsTyped
  <2> HIDE DEF r
  <2> QED
    <3>1. /\ r.evidence = "proven" <=> r.at # 0
          /\ r.at \in Occurrences!Times \cup {0}
          /\ k[1] = "timed" => r.at \in {0, k[2]}
      BY <2>3, <2>4
    <3>2. /\ r.evidence = "proven" /\ r.at = rows[k].at /\ r.at # 0
          /\ Effect(r.at, cycles)
      BY <1>1, <2>3, <2>4
    <3>3. RowsStep(rows, [rows EXCEPT ![k] = r], cycles)
      BY <2>3, <3>1, <3>2, OneRow
    <3> QED
      BY <2>1, <3>3
<1>2. CASE ~(rows[k].evidence = "proven" /\ rows[k].status = "pending")
  BY <1>2 DEF Occurrences!Processed, RowsStep, RowsKept
<1> QED
  BY <1>1, <1>2

LEMMA RowExhausted ==
  ASSUME RowsTyped(row), NEW k \in Key, NEW cycles,
         row[k].at = 0 => now >= 2 \/ Noted(row[k]),
         row' = [row EXCEPT ![k] = Occurrences!Exhausted(k)]
  PROVE  RowsStep(row, row', cycles)
<1> DEFINE r == Occurrences!Exhausted(k)
<1>1. row[k] \in RowType
  BY DEF RowsTyped
<1>2. /\ r \in RowType /\ r.at = row[k].at /\ r.status = "repair_required"
      /\ r.evidence = IF row[k].evidence = "proven" THEN "proven" ELSE "ambiguous"
  BY <1>1 DEF RowType, Occurrences!Exhausted
<1>3. /\ row[k].evidence = "proven" <=> row[k].at # 0
      /\ row[k].at \in Occurrences!Times \cup {0}
      /\ k[1] = "timed" => row[k].at \in {0, k[2]}
  BY DEF RowsTyped
<1> HIDE DEF r
<1>4. row' = [row EXCEPT ![k] = r]
  BY DEF r
<1> QED
  <2>1. /\ r.evidence = "proven" <=> r.at # 0
        /\ r.at \in Occurrences!Times \cup {0}
        /\ k[1] = "timed" => r.at \in {0, k[2]}
    BY <1>2, <1>3
  <2>2. /\ row[k].evidence = "proven" => r.evidence = "proven" /\ r.at = row[k].at
        /\ r.at = 0 /\ Noted(r) => now >= 2 \/ (row[k].at = 0 /\ Noted(row[k]))
        /\ r.status # "processed"
    BY <1>2
  <2>3. RowsStep(row, [row EXCEPT ![k] = r], cycles)
    BY <1>2, <2>1, <2>2, OneRow
  <2> QED
    BY <1>4, <2>3

(***************************************************************************)
(* Steps in which one process moves, or none.                              *)
(***************************************************************************)
LEMMA OneMoves ==
  ASSUME OccurrencesInv, RowsStep(row, row', cycle'), CyclesGrow, now' = now,
         NEW w \in Ran, NEW x, worker' = [worker EXCEPT ![w] = x],
         Fine(x, row', cycle', now)
  PROVE  OccurrencesInv'
<1>1. worker \in [Ran -> WorkType] /\ MaxTime \in Nat /\ now \in 0..MaxTime
  BY DEF OccurrencesInv, OccurrencesTyped
<1>2. DOMAIN worker' = Ran /\ worker' = [v \in Ran |-> worker'[v]]
  BY <1>1
<1>3. \A v \in Ran : worker'[v] = worker[v] \/ worker'[v] = x
  BY <1>1
<1>4. now' \in now..MaxTime
  BY <1>1
<1>5. \A v \in Ran : worker'[v] = worker[v] \/ Fine(worker'[v], row', cycle', now')
  BY <1>3
<1> QED
  BY <1>2, <1>4, <1>5, StepKeeps

LEMMA NobodyMoves ==
  ASSUME OccurrencesInv, RowsStep(row, row', cycle'), CyclesGrow, now' \in now..MaxTime,
         worker' = worker
  PROVE  OccurrencesInv'
<1>1. DOMAIN worker' = Ran /\ worker' = [v \in Ran |-> worker'[v]]
  BY DEF OccurrencesInv, OccurrencesTyped
<1> QED
  BY <1>1, StepKeeps

LEMMA KnownAt ==
  ASSUME OccurrencesInv
  PROVE  /\ OccurrencesTyped /\ RowsTyped(row) /\ MaxTime \in Nat /\ now \in 0..MaxTime
         /\ now \in now..MaxTime
         /\ RowsStep(row, row, cycle')
         /\ \A w \in Ran : worker[w] \in WorkType /\ Fine(worker[w], row, cycle, now)
         /\ cycle' = cycle => CyclesGrow
<1>1. OccurrencesTyped /\ RowsTyped(row) /\ MaxTime \in Nat /\ now \in 0..MaxTime
  BY DEF OccurrencesInv, OccurrencesTyped
<1>2. now \in now..MaxTime
  BY <1>1
<1> QED
  BY <1>1, <1>2, NothingWritten, NothingOpened DEF OccurrencesInv, OccurrencesTyped

LEMMA IdleIsFine ==
  ASSUME NEW rows, NEW cycles, NEW time
  PROVE  Fine(Occurrences!Idle, rows, cycles, time)
  BY DEF Occurrences!Idle, Fine, Knows, WorkType

(* Going nowhere special: to a place where nothing need be known.           *)
LEMMA PlaceIsFine ==
  ASSUME NEW x \in WorkType, x.key \in Key, NEW pc \in {"idle", "later"},
         NEW rows, NEW cycles, NEW time
  PROVE  Fine([x EXCEPT !.pc = pc], rows, cycles, time)
<1>1. [x EXCEPT !.pc = pc] \in WorkType
      /\ [x EXCEPT !.pc = pc].pc = pc /\ [x EXCEPT !.pc = pc].key = x.key
  BY DEF WorkType
<1> QED
  BY <1>1 DEF Fine, Knows

(***************************************************************************)
(* The lemmas of the actions.                                              *)
(***************************************************************************)
LEMMA EntryProjected ==
  ASSUME OccurrencesInv, NEW t \in Occurrences!Times, Occurrences!IsEntry(t),
         Occurrences!OpenFromProven(t)
  PROVE  RowsStep(row, row', cycle') /\ CyclesGrow
<1> DEFINE some == Occurrences!Recorded(t)
           k == Occurrences!KeyFor(t)
<1>1. cycle' = Occurrences!Opened(t) /\ row' = Occurrences!EntryDone(some, cycle', t)
  BY DEF Occurrences!OpenFromProven
<1>2. t \in Opening
  BY DEF Opening, Occurrences!Entries
<1>3. CyclesGrow
  BY <1>1, <1>2, KnownAt, OpenedGrows
<1>4. /\ RowsStep(row, some, cycle') /\ k \in Key
      /\ some[k].evidence = "proven" /\ some[k].at = t
  BY KnownAt, RecordedRows
<1> HIDE DEF some, k
<1>5. CASE cycle'[t] = "none"
  BY <1>1, <1>3, <1>4, <1>5 DEF Occurrences!EntryDone
<1>6. CASE cycle'[t] # "none"
  <2>1. row' = Occurrences!Processed(some, k)
    BY <1>1, <1>6 DEF Occurrences!EntryDone, k
  <2>2. Effect(some[k].at, cycle')
    BY <1>4, <1>6 DEF Effect
  <2>3. RowsTyped(some)
    BY <1>4 DEF RowsStep
  <2>4. RowsStep(some, row', cycle')
    BY <1>4, <2>1, <2>2, <2>3, RowProcessed
  <2> QED
    BY <1>3, <1>4, <2>4, RowsStepTwice
<1> QED
  BY <1>5, <1>6

LEMMA EntryArrives ==
  ASSUME OccurrencesInv, NEW t \in Occurrences!Times, Occurrences!EntryWebhook(t)
  PROVE  OccurrencesInv'
<1>1. RowsStep(row, row', cycle') /\ CyclesGrow /\ UNCHANGED <<now, worker>>
  BY EntryProjected DEF Occurrences!EntryWebhook
<1> QED
  BY <1>1, KnownAt, NobodyMoves

(* A process takes up a recorded closure.                                   *)
LEMMA ClosureTaken ==
  ASSUME OccurrencesInv, NEW t \in Occurrences!Times, ~Occurrences!IsEntry(t),
         row' = Occurrences!Recorded(t), NEW x \in WorkType
  PROVE  Fine([x EXCEPT !.pc = "closing", !.key = Occurrences!KeyFor(t)], row', cycle', now)
<1> DEFINE k == Occurrences!KeyFor(t)
           y == [x EXCEPT !.pc = "closing", !.key = k]
<1>1. k \in Key /\ row'[k].evidence = "proven" /\ row'[k].at = t
  BY KnownAt, RecordedRows
<1> HIDE DEF k
<1>2. y \in WorkType /\ y.pc = "closing" /\ y.key = k
  BY <1>1 DEF WorkType
<1> HIDE DEF y
<1>3. Fine(y, row', cycle', now)
  BY <1>1, <1>2 DEF Fine, Knows
<1> QED
  BY <1>3 DEF y, k

LEMMA ClosureArrives ==
  ASSUME OccurrencesInv, NEW w \in Ran, NEW t \in Occurrences!Times,
         Occurrences!CloseWebhook(w, t)
  PROVE  OccurrencesInv'
<1> DEFINE x == [Occurrences!Idle EXCEPT !.pc = "closing", !.key = Occurrences!KeyFor(t)]
<1>1. /\ row' = Occurrences!Recorded(t) /\ ~Occurrences!IsEntry(t)
      /\ worker' = [worker EXCEPT ![w] = x] /\ now' = now /\ cycle' = cycle
  BY DEF Occurrences!CloseWebhook
<1>2. Occurrences!Idle \in WorkType
  BY IdleIsFine DEF Fine
<1>3. Fine(x, row', cycle', now)
  BY <1>1, <1>2, ClosureTaken
<1>4. RowsStep(row, row', cycle') /\ CyclesGrow
  BY <1>1, KnownAt, RecordedRows
<1> HIDE DEF x
<1> QED
  BY <1>1, <1>3, <1>4, OneMoves

LEMMA HappenKeeps == ASSUME OccurrencesInv, Occurrences!Happen PROVE OccurrencesInv'
<1>1. now' \in now..MaxTime
  BY KnownAt DEF Occurrences!Happen
<1> QED
  BY <1>1, KnownAt, NobodyMoves DEF Occurrences!Happen

LEMMA ClosureObserved == ASSUME OccurrencesInv, Occurrences!ObserveClosed PROVE OccurrencesInv'
<1> DEFINE k == Occurrences!PendingKey
           r == [row[k] EXCEPT !.evidence = "pending", !.status = "pending", !.due = TRUE]
<1>1. /\ row[k].evidence = "none" /\ row' = [row EXCEPT ![k] = r]
      /\ now > 0 /\ ~Occurrences!IsEntry(now)
      /\ UNCHANGED <<now, cycle, worker>>
  BY DEF Occurrences!ObserveClosed
<1>2. k \in Key /\ k[1] # "timed"
  BY DEF Occurrences!PendingKey, Key, Occurrences!Keys, Occurrences!Active
<1>3. now >= 2
  BY <1>1, KnownAt DEF Occurrences!IsEntry
<1>4. row[k] \in RowType /\ row[k].at = 0
  BY <1>1, <1>2, KnownAt DEF RowsTyped
<1>5. r \in RowType /\ r.evidence = "pending" /\ r.status = "pending" /\ r.at = 0
  BY <1>4 DEF RowType
<1> HIDE DEF r, k
<1>6. RowsStep(row, [row EXCEPT ![k] = r], cycle')
  <2>1. /\ r.evidence = "proven" <=> r.at # 0
        /\ r.at \in Occurrences!Times \cup {0}
        /\ k[1] = "timed" => r.at \in {0, k[2]}
    BY <1>2, <1>5
  <2>2. /\ row[k].evidence = "proven" => r.evidence = "proven" /\ r.at = row[k].at
        /\ r.at = 0 /\ Noted(r) => now >= 2 \/ (row[k].at = 0 /\ Noted(row[k]))
        /\ r.status # "processed"
    BY <1>1, <1>3, <1>5
  <2> QED
    BY <1>2, <1>5, <2>1, <2>2, KnownAt, OneRow
<1> QED
  BY <1>1, <1>6, KnownAt, NobodyMoves

LEMMA ClosureRead ==
  ASSUME OccurrencesInv, NEW w \in Ran, Occurrences!CloseRead(w)
  PROVE  OccurrencesInv'
<1> DEFINE x == [worker[w] EXCEPT !.pc = "read", !.snap = now]
<1>1. /\ worker[w].pc = "closing" /\ worker' = [worker EXCEPT ![w] = x]
      /\ UNCHANGED <<now, row, cycle>>
  BY DEF Occurrences!CloseRead
<1>2. worker[w] \in WorkType /\ Fine(worker[w], row, cycle, now) /\ now \in Nat
  BY KnownAt
<1>3. x \in WorkType /\ x.pc = "read" /\ x.key = worker[w].key
  BY <1>2 DEF WorkType
<1>4. Fine(x, row', cycle', now)
  BY <1>1, <1>2, <1>3 DEF Fine, Knows
<1> HIDE DEF x
<1> QED
  BY <1>1, <1>4, KnownAt, OneMoves

(* What is reported done has closed a cycle, now or before.                 *)
LEMMA ClosureApplied ==
  ASSUME OccurrencesInv, NEW w \in Ran, Occurrences!CloseApply(w)
  PROVE  OccurrencesInv'
<1> DEFINE k == worker[w].key
           t == row[k].at
           c == Occurrences!TargetOf(t)
           result == Occurrences!Classification(t, worker[w].snap)
           pc == IF Occurrences!Projects(result) THEN "done" ELSE "later"
           x == [worker[w] EXCEPT !.pc = pc]
<1>1. /\ worker[w].pc = "read" /\ worker' = [worker EXCEPT ![w] = x]
      /\ cycle' = IF result = "applied" THEN [cycle EXCEPT ![c] = "closed"] ELSE cycle
      /\ UNCHANGED <<now, row>>
  BY DEF Occurrences!CloseApply
<1>2. /\ worker[w] \in WorkType /\ k \in Key
      /\ row[k].evidence = "proven" /\ ~Occurrences!IsEntry(t)
  BY <1>1, KnownAt DEF Fine, Knows
<1>3. t \in Occurrences!Times
  BY <1>2, KnownAt DEF RowsTyped
<1>4. result \in {"applied", "duplicate"} => c \in Opening /\ cycle[c] # "none" /\ c <= t
  BY <1>3, KnownAt, TargetFound DEF Occurrences!Classification
<1>5. result = "duplicate" => cycle[c] = "closed"
  BY DEF Occurrences!Classification
<1>6. cycle \in [Opening -> {"none", "open", "closed"}]
  BY KnownAt DEF OccurrencesTyped
<1> HIDE DEF c, result
<1>7. CyclesGrow
  BY <1>1, <1>4, <1>6 DEF CyclesGrow
<1>8. result \in {"applied", "duplicate"} => cycle'[c] = "closed"
  BY <1>1, <1>4, <1>5, <1>6
<1>9. result \in {"applied", "duplicate"} => c < t
  <2>1. c \in Opening => Occurrences!IsEntry(c) /\ c \in Nat
    BY DEF Opening, Occurrences!Entries, Occurrences!Times
  <2>2. c \in Opening => c # t
    BY <1>2, <2>1
  <2>3. t \in Nat
    BY <1>3 DEF Occurrences!Times
  <2> HIDE DEF t
  <2> QED
    BY <1>4, <2>1, <2>2, <2>3
<1>10. x \in WorkType /\ x.pc = pc /\ x.key = k
  BY <1>2 DEF WorkType
<1>11. pc = "done" => Effect(row'[k].at, cycle')
  BY <1>1, <1>2, <1>4, <1>8, <1>9 DEF Effect, Occurrences!Projects
<1>12. pc \in {"done", "later"}
  OBVIOUS
<1> HIDE DEF pc, x
<1>13. Fine(x, row', cycle', now)
  BY <1>1, <1>2, <1>10, <1>11, <1>12 DEF Fine, Knows
<1> QED
  BY <1>1, <1>7, <1>13, KnownAt, OneMoves

LEMMA ClosureDone ==
  ASSUME OccurrencesInv, NEW w \in Ran, Occurrences!CloseDone(w)
  PROVE  OccurrencesInv'
<1> DEFINE k == worker[w].key
           o == worker[w].origin
           rows == Occurrences!Processed(row, k)
           r == [rows[o] EXCEPT !.evidence = "rejected", !.status = "processed", !.due = FALSE]
<1>1. /\ worker[w].pc = "done" /\ worker' = [worker EXCEPT ![w] = Occurrences!Idle]
      /\ row' = IF o \notin {Occurrences!NoKey, k} /\ row[o].evidence = "pending"
                THEN [rows EXCEPT ![o] = r] ELSE rows
      /\ UNCHANGED <<now, cycle>>
  BY DEF Occurrences!CloseDone
<1>2. /\ worker[w] \in WorkType /\ k \in Key
      /\ row[k].evidence = "proven" /\ Effect(row[k].at, cycle')
  BY <1>1, KnownAt DEF Fine, Knows
<1>3. RowsStep(row, rows, cycle')
  BY <1>2, KnownAt, RowProcessed
<1>4. RowsStep(row, row', cycle')
  <2>1. CASE o \notin {Occurrences!NoKey, k} /\ row[o].evidence = "pending"
    <3>1. o \in Key
      BY <1>2, <2>1 DEF WorkType
    <3>2. rows[o] = row[o]
      BY <1>2, <2>1, <3>1, KnownAt DEF Occurrences!Processed, RowsTyped
    <3>3. RowsTyped(rows) /\ rows[o] \in RowType
      BY <1>3, <3>1 DEF RowsStep, RowsTyped
    <3>4. rows[o].at = 0 /\ rows[o].evidence = "pending" /\ Noted(rows[o])
      BY <2>1, <3>1, <3>2, KnownAt DEF RowsTyped, Noted
    <3> HIDE DEF rows, o
    <3>5. r \in RowType /\ r.evidence = "rejected" /\ r.at = 0
      BY <3>3, <3>4 DEF RowType
    <3> HIDE DEF r
    <3>6. /\ r.evidence = "proven" <=> r.at # 0
          /\ r.at \in Occurrences!Times \cup {0}
          /\ o[1] = "timed" => r.at \in {0, o[2]}
      BY <3>5
    <3>7. RowsStep(rows, [rows EXCEPT ![o] = r], cycle')
      BY <3>1, <3>3, <3>4, <3>5, <3>6, OneRow
    <3> QED
      BY <1>1, <1>3, <2>1, <3>7, RowsStepTwice
  <2>2. CASE ~(o \notin {Occurrences!NoKey, k} /\ row[o].evidence = "pending")
    BY <1>1, <1>3, <2>2
  <2> QED
    BY <2>1, <2>2
<1> QED
  BY <1>1, <1>4, KnownAt, IdleIsFine, OneMoves

LEMMA ReconcileStarts ==
  ASSUME OccurrencesInv, NEW w \in Ran, NEW k \in Key, Occurrences!ReconcileStart(w, k)
  PROVE  OccurrencesInv'
<1>1. row[k].status = "pending" /\ UNCHANGED <<now, cycle>>
  BY DEF Occurrences!ReconcileStart
<1>2. row[k] \in RowType /\ RowsTyped(row) /\ Noted(row[k])
  BY <1>1, KnownAt DEF RowsTyped, Noted
<1>3. CASE row' = [row EXCEPT ![k] = Occurrences!Exhausted(k)] /\ UNCHANGED worker
  <2>1. RowsStep(row, row', cycle')
    BY <1>2, <1>3, RowExhausted
  <2> QED
    BY <1>1, <1>3, <2>1, KnownAt, NobodyMoves
<1> DEFINE r == [row[k] EXCEPT !.retries = @ + 1]
           pc == IF row[k].at = 0 THEN "unproven" ELSE "claimed"
           x == [Occurrences!Idle EXCEPT !.pc = pc, !.key = k, !.origin = k]
<1>4. CASE row' = [row EXCEPT ![k] = r] /\ worker' = [worker EXCEPT ![w] = x]
  <2>1. /\ r \in RowType /\ r.evidence = row[k].evidence
        /\ r.at = row[k].at /\ r.status = "pending"
    BY <1>1, <1>2 DEF RowType
  <2>2. /\ row[k].evidence = "proven" <=> row[k].at # 0
        /\ row[k].at \in Occurrences!Times \cup {0}
        /\ k[1] = "timed" => row[k].at \in {0, k[2]}
    BY <1>2 DEF RowsTyped
  <2> HIDE DEF r
  <2>3. /\ r.evidence = "proven" <=> r.at # 0
        /\ r.at \in Occurrences!Times \cup {0}
        /\ k[1] = "timed" => r.at \in {0, k[2]}
    BY <2>1, <2>2
  <2>4. RowsStep(row, [row EXCEPT ![k] = r], cycle')
    BY <1>2, <2>1, <2>3, OneRow
  <2>5. row'[k] = r
    BY <1>2, <1>4 DEF RowsTyped
  <2>6. x \in WorkType /\ x.pc = pc /\ x.key = k /\ x.origin = k
    BY DEF Occurrences!Idle, WorkType
  <2>7. pc = "unproven" => now >= 2
    BY <1>2, KnownAt DEF OccurrencesInv, ClosureSeen
  <2>8. pc = "claimed" => row'[k].evidence = "proven"
    BY <2>1, <2>2, <2>5
  <2>9. pc \in {"claimed", "unproven"}
    OBVIOUS
  <2> HIDE DEF x, pc
  <2>10. Fine(x, row', cycle', now)
    BY <2>6, <2>7, <2>8, <2>9 DEF Fine, Knows
  <2> QED
    BY <1>1, <1>4, <2>4, <2>10, KnownAt, OneMoves
<1>5. \/ row' = [row EXCEPT ![k] = Occurrences!Exhausted(k)] /\ UNCHANGED worker
      \/ row' = [row EXCEPT ![k] = r] /\ worker' = [worker EXCEPT ![w] = x]
  <2>1. CASE row[k].retries >= MaxAttempts
    BY <2>1 DEF Occurrences!ReconcileStart
  <2>2. CASE ~(row[k].retries >= MaxAttempts)
    <3>1. row' = [row EXCEPT ![k] = r]
      BY <2>2 DEF Occurrences!ReconcileStart
    <3>2. worker' = [worker EXCEPT ![w] = x]
      BY <2>2 DEF Occurrences!ReconcileStart
    <3> QED
      BY <3>1, <3>2
  <2> QED
    BY <2>1, <2>2
<1> HIDE DEF r, x
<1> QED
  BY <1>3, <1>4, <1>5

LEMMA EntryReconciled ==
  ASSUME OccurrencesInv, NEW w \in Ran, Occurrences!ReconcileEntry(w)
  PROVE  OccurrencesInv'
<1> DEFINE k == worker[w].key
           t == row[k].at
           x == IF row'[k].status = "pending" THEN [worker[w] EXCEPT !.pc = "later"]
                ELSE Occurrences!Idle
<1>1. /\ worker[w].pc = "claimed" /\ Occurrences!IsEntry(t)
      /\ worker' = [worker EXCEPT ![w] = x] /\ now' = now
  BY DEF Occurrences!ReconcileEntry
<1>2. worker[w] \in WorkType /\ k \in Key /\ row[k].evidence = "proven"
  BY <1>1, KnownAt DEF Fine, Knows
<1>3. t \in Occurrences!Times
  BY <1>2, KnownAt DEF RowsTyped
<1>4. Fine(x, row', cycle', now)
  BY <1>2, PlaceIsFine, IdleIsFine
<1>5. RowsStep(row, row', cycle') /\ CyclesGrow
  <2>1. CASE row' = row /\ cycle' = cycle
    BY <2>1, KnownAt
  <2>2. CASE Occurrences!OpenFromProven(t)
    BY <1>1, <1>3, <2>2, EntryProjected
  <2> QED
    BY <2>1, <2>2 DEF Occurrences!ReconcileEntry
<1> HIDE DEF x
<1> QED
  BY <1>1, <1>4, <1>5, OneMoves

LEMMA ClosureReconciled ==
  ASSUME OccurrencesInv, NEW w \in Ran, Occurrences!ReconcileProven(w)
  PROVE  OccurrencesInv'
<1> DEFINE x == [worker[w] EXCEPT !.pc = "closing"]
<1>1. /\ worker[w].pc = "claimed" /\ ~Occurrences!IsEntry(row[worker[w].key].at)
      /\ worker' = [worker EXCEPT ![w] = x] /\ UNCHANGED <<now, row, cycle>>
  BY DEF Occurrences!ReconcileProven
<1>2. worker[w] \in WorkType /\ Fine(worker[w], row, cycle, now)
  BY KnownAt
<1>3. x \in WorkType /\ x.pc = "closing" /\ x.key = worker[w].key
  BY <1>2 DEF WorkType
<1> HIDE DEF x
<1>4. Fine(x, row', cycle', now)
  BY <1>1, <1>2, <1>3 DEF Fine, Knows
<1> QED
  BY <1>1, <1>4, KnownAt, OneMoves

(* The last closure was at the last even time, which has passed.            *)
LEMMA PendingReconciled ==
  ASSUME OccurrencesInv, NEW w \in Ran, Occurrences!ReconcilePending(w)
  PROVE  OccurrencesInv'
<1> DEFINE t == IF Occurrences!IsEntry(now) THEN now - 1 ELSE now
           x == [worker[w] EXCEPT !.pc = "closing", !.key = Occurrences!KeyFor(t)]
<1>1. worker[w].pc = "unproven" /\ UNCHANGED <<now, cycle>>
  BY DEF Occurrences!ReconcilePending
<1>2. worker[w] \in WorkType /\ worker[w].key \in Key /\ now >= 2
  BY <1>1, KnownAt DEF Fine
<1>3. CASE worker' = [worker EXCEPT ![w] = [worker[w] EXCEPT !.pc = "later"]] /\ row' = row
  <2>1. Fine([worker[w] EXCEPT !.pc = "later"], row', cycle', now)
    BY <1>2, PlaceIsFine
  <2> QED
    BY <1>1, <1>3, <2>1, KnownAt, OneMoves
<1>4. CASE worker' = [worker EXCEPT ![w] = x] /\ row' = Occurrences!Recorded(t)
  <2>1. now \in Nat /\ now <= MaxTime /\ MaxTime \in Nat
    BY KnownAt
  <2>2. t \in Occurrences!Times /\ ~Occurrences!IsEntry(t)
    <3>1. CASE now % 2 = 1
      <4>1. now # 2 /\ now - 1 \in 1..MaxTime /\ (now - 1) % 2 # 1
        BY <1>2, <2>1, <3>1
      <4>2. t = now - 1
        BY <3>1 DEF Occurrences!IsEntry
      <4> QED
        BY <4>1, <4>2 DEF Occurrences!IsEntry, Occurrences!Times
    <3>2. CASE now % 2 # 1
      <4>1. t = now /\ now \in 1..MaxTime
        BY <1>2, <2>1, <3>2 DEF Occurrences!IsEntry
      <4> QED
        BY <3>2, <4>1 DEF Occurrences!IsEntry, Occurrences!Times
    <3> QED
      BY <3>1, <3>2
  <2> HIDE DEF t
  <2>3. Fine(x, row', cycle', now)
    BY <1>2, <1>4, <2>2, ClosureTaken
  <2>4. RowsStep(row, row', cycle')
    BY <1>4, <2>2, KnownAt, RecordedRows
  <2> HIDE DEF x
  <2> QED
    BY <1>1, <1>4, <2>3, <2>4, KnownAt, OneMoves
<1> QED
  BY <1>3, <1>4 DEF Occurrences!ReconcilePending, Occurrences!Later

LEMMA RetriedLater ==
  ASSUME OccurrencesInv, NEW w \in Ran, Occurrences!RetryLater(w)
  PROVE  OccurrencesInv'
<1> DEFINE o == worker[w].origin
<1>1. /\ worker' = [worker EXCEPT ![w] = Occurrences!Idle] /\ UNCHANGED <<now, cycle>>
      /\ \/ row' = row
         \/ /\ o # Occurrences!NoKey /\ row[o].status = "pending"
            /\ row' = [row EXCEPT ![o] = Occurrences!Exhausted(o)]
  BY DEF Occurrences!RetryLater
<1>2. o # Occurrences!NoKey => o \in Key
  BY KnownAt DEF WorkType
<1> HIDE DEF o
<1>3. RowsStep(row, row', cycle')
  <2>1. CASE row' = row
    BY <2>1, KnownAt
  <2>2. CASE /\ o # Occurrences!NoKey /\ row[o].status = "pending"
             /\ row' = [row EXCEPT ![o] = Occurrences!Exhausted(o)]
    <3>1. Noted(row[o])
      BY <2>2 DEF Noted
    <3> QED
      BY <1>2, <2>2, <3>1, KnownAt, RowExhausted
  <2> QED
    BY <1>1, <2>1, <2>2
<1> QED
  BY <1>1, <1>3, KnownAt, IdleIsFine, OneMoves

LEMMA OccurrenceFails ==
  ASSUME OccurrencesInv, NEW w \in Ran,
         Occurrences!RequestFails(w) \/ Occurrences!CapabilityFails(w) \/ Occurrences!Crash(w)
  PROVE  OccurrencesInv'
<1>1. CASE Occurrences!RequestFails(w)
  <2>1. /\ worker[w].pc # "idle" /\ UNCHANGED <<now, row, cycle>>
        /\ worker' = [worker EXCEPT ![w] = [worker[w] EXCEPT !.pc = "later"]]
    BY <1>1 DEF Occurrences!RequestFails, Occurrences!Later
  <2>2. worker[w] \in WorkType /\ worker[w].key \in Key
    BY <2>1, KnownAt DEF Fine
  <2>3. Fine([worker[w] EXCEPT !.pc = "later"], row', cycle', now)
    BY <2>2, PlaceIsFine
  <2> QED
    BY <2>1, <2>3, KnownAt, OneMoves
<1>2. CASE Occurrences!CapabilityFails(w)
  <2> DEFINE o == worker[w].origin
  <2>1. /\ worker[w].pc = "unproven" /\ UNCHANGED <<now, cycle>>
        /\ worker' = [worker EXCEPT ![w] = Occurrences!Idle]
        /\ row' = [row EXCEPT ![o] = Occurrences!Exhausted(o)]
    BY <1>2 DEF Occurrences!CapabilityFails
  <2>2. o \in Key /\ now >= 2
    BY <2>1, KnownAt DEF Fine
  <2> HIDE DEF o
  <2>3. RowsStep(row, row', cycle')
    BY <2>1, <2>2, KnownAt, RowExhausted
  <2> QED
    BY <2>1, <2>3, KnownAt, IdleIsFine, OneMoves
<1>3. CASE Occurrences!Crash(w)
  BY <1>3, KnownAt, IdleIsFine, OneMoves DEF Occurrences!Crash
<1> QED
  BY <1>1, <1>2, <1>3

(***************************************************************************)
(* Every step of the component keeps the invariant.                        *)
(***************************************************************************)
LEMMA OccurrencesInitially ==
  ASSUME RecoveryAssumption, Occurrences!Init
  PROVE  OccurrencesInv
<1>1. MaxTime \in Nat
  BY DEF RecoveryAssumption, Occurrences!OccurrencesAssumption
<1>2. Occurrences!NoRow \in RowType /\ Occurrences!NoRow.at = 0
      /\ Occurrences!NoRow.evidence = "none" /\ Occurrences!NoRow.status = "none"
  BY DEF Occurrences!NoRow, RowType
<1>3. row \in [Key -> RowType] /\ \A k \in Key : row[k] = Occurrences!NoRow
  BY <1>2 DEF Occurrences!Init, Key
<1>4. RowsTyped(row)
  BY <1>2, <1>3 DEF RowsTyped
<1>5. \A w \in Ran : worker[w] = Occurrences!Idle
  BY DEF Occurrences!Init, Ran
<1>6. \A w \in Ran : Fine(worker[w], row, cycle, now)
  BY <1>5, IdleIsFine
<1>7. worker \in [Ran -> WorkType]
  BY IdleIsFine DEF Occurrences!Init, Ran, Fine
<1>8. OccurrencesTyped
  BY <1>1, <1>4, <1>7 DEF OccurrencesTyped, Occurrences!Init, Opening
<1> QED
  BY <1>2, <1>3, <1>6, <1>8 DEF OccurrencesInv, ClosureSeen, Noted, ProcessedRows

LEMMA OccurrencesStep ==
  ASSUME OccurrencesInv, [Occurrences!Next]_(Occurrences!vars)
  PROVE  OccurrencesInv'
<1>1. CASE UNCHANGED Occurrences!vars
  BY <1>1, KnownAt, NobodyMoves DEF Occurrences!vars
<1>2. CASE Occurrences!Happen \/ Occurrences!ObserveClosed
  BY <1>2, HappenKeeps, ClosureObserved
<1>3. ASSUME NEW t \in Occurrences!Times, Occurrences!EntryWebhook(t) PROVE OccurrencesInv'
  BY <1>3, EntryArrives
<1>4. ASSUME NEW w \in Ran, NEW t \in Occurrences!Times, Occurrences!CloseWebhook(w, t)
      PROVE  OccurrencesInv'
  BY <1>4, ClosureArrives
<1>5. ASSUME NEW w \in Ran, NEW k \in Key, Occurrences!ReconcileStart(w, k)
      PROVE  OccurrencesInv'
  BY <1>5, ReconcileStarts
<1>6. ASSUME NEW w \in Ran, Occurrences!Reconcile(w) PROVE OccurrencesInv'
  BY <1>6, ClosureRead, ClosureApplied, ClosureDone, EntryReconciled, ClosureReconciled,
     PendingReconciled, RetriedLater DEF Occurrences!Reconcile
<1>7. ASSUME NEW w \in Ran,
             Occurrences!RequestFails(w) \/ Occurrences!CapabilityFails(w) \/ Occurrences!Crash(w)
      PROVE  OccurrencesInv'
  BY <1>7, OccurrenceFails
<1> QED
  BY <1>1, <1>2, <1>3, <1>4, <1>5, <1>6, <1>7 DEF Occurrences!Next, Ran, Key

LEMMA OccurrencesInvariance == Occurrences!Spec => []OccurrencesInv
<1>1. Occurrences!Init => OccurrencesInv
  BY OccurrencesInitially, RecoveryAssumption
<1> QED
  BY <1>1, OccurrencesStep, PTL DEF Occurrences!Spec

(* An entry or a closure is processed only when it has changed the cycles,  *)
(* for any workers, times, retry budget and number of failures              *)
(* (mark_processed, and who calls it).                                      *)
THEOREM ProcessedIsProjected == Occurrences!Spec => []ProcessedHasEffect
<1>1. OccurrencesInv => ProcessedHasEffect
  BY DEF OccurrencesInv, ProcessedRows, Effect, Key, Opening, ProcessedHasEffect,
         Occurrences!ProcessedHasEffect
<1> QED
  BY <1>1, OccurrencesInvariance, PTL

(***************************************************************************)
(* The refinement of CycleAssignment: what a step may do to the cycles.    *)
(***************************************************************************)
Opens(t) ==
    /\ cycle[t] = "none" /\ \A c \in Opening : cycle[c] # "none" => c < t /\ cycle[c] # "open"
    /\ cycle' = [cycle EXCEPT ![t] = "open"]

Closes(c) == cycle[c] = "open" /\ cycle' = [cycle EXCEPT ![c] = "closed"]

CycleStep == \/ cycle' = cycle
             \/ \E t \in Opening : Opens(t) \/ Closes(t)

LEMMA EntryOpens ==
  ASSUME NEW t \in Occurrences!Times, Occurrences!IsEntry(t), Occurrences!OpenFromProven(t)
  PROVE  CycleStep
<1>1. t \in Opening
  BY DEF Opening, Occurrences!Entries
<1>2. cycle' = Occurrences!Opened(t)
  BY DEF Occurrences!OpenFromProven
<1>3. CASE /\ cycle[t] = "none" /\ Occurrences!Active = {}
           /\ \A c \in Occurrences!Known : c < t
  <2>1. cycle' = [cycle EXCEPT ![t] = "open"]
    BY <1>2, <1>3 DEF Occurrences!Opened
  <2>2. \A c \in Opening : cycle[c] # "none" => c < t /\ cycle[c] # "open"
    BY <1>3 DEF Occurrences!Known, Occurrences!Active, Opening
  <2> QED
    BY <1>1, <1>3, <2>1, <2>2 DEF CycleStep, Opens
<1>4. CASE ~(/\ cycle[t] = "none" /\ Occurrences!Active = {}
             /\ \A c \in Occurrences!Known : c < t)
  BY <1>2, <1>4 DEF Occurrences!Opened, CycleStep
<1> QED
  BY <1>3, <1>4

LEMMA ClosureCloses ==
  ASSUME OccurrencesInv, NEW w \in Ran, Occurrences!CloseApply(w)
  PROVE  CycleStep
<1> DEFINE t == row[worker[w].key].at
           c == Occurrences!TargetOf(t)
           result == Occurrences!Classification(t, worker[w].snap)
<1>1. /\ worker[w].pc = "read"
      /\ cycle' = IF result = "applied" THEN [cycle EXCEPT ![c] = "closed"] ELSE cycle
  BY DEF Occurrences!CloseApply
<1>2. worker[w].key \in Key /\ row[worker[w].key].evidence = "proven"
  BY <1>1, KnownAt DEF Fine, Knows
<1>3. t \in Occurrences!Times
  BY <1>2, KnownAt DEF RowsTyped
<1>4. result = "applied" => c \in Opening /\ cycle[c] # "none" /\ cycle[c] # "closed"
  BY <1>3, KnownAt, TargetFound DEF Occurrences!Classification
<1>5. c \in Opening => cycle[c] \in {"none", "open", "closed"}
  BY KnownAt DEF OccurrencesTyped
<1> HIDE DEF c, result
<1> QED
  BY <1>1, <1>4, <1>5 DEF CycleStep, Closes

LEMMA CyclesStep ==
  ASSUME OccurrencesInv, [Occurrences!Next]_(Occurrences!vars)
  PROVE  CycleStep
<1>1. CASE UNCHANGED cycle
  BY <1>1 DEF CycleStep
<1>2. ASSUME NEW t \in Occurrences!Times, Occurrences!EntryWebhook(t) PROVE CycleStep
  BY <1>2, EntryOpens DEF Occurrences!EntryWebhook
<1>3. ASSUME NEW w \in Ran, Occurrences!ReconcileEntry(w) PROVE CycleStep
  <2> DEFINE t == row[worker[w].key].at
  <2>1. worker[w].pc = "claimed" /\ Occurrences!IsEntry(t)
        /\ (cycle' = cycle \/ Occurrences!OpenFromProven(t))
    BY <1>3 DEF Occurrences!ReconcileEntry
  <2>2. worker[w].key \in Key /\ row[worker[w].key].evidence = "proven"
    BY <2>1, KnownAt DEF Fine, Knows
  <2>3. t \in Occurrences!Times
    BY <2>2, KnownAt DEF RowsTyped
  <2> HIDE DEF t
  <2>4. CASE cycle' = cycle
    BY <2>4 DEF CycleStep
  <2>5. CASE Occurrences!OpenFromProven(t)
    BY <2>1, <2>3, <2>5, EntryOpens
  <2> QED
    BY <2>1, <2>4, <2>5
<1>4. ASSUME NEW w \in Ran, Occurrences!CloseApply(w) PROVE CycleStep
  BY SMTT(30), <1>4, ClosureCloses
<1>5. CASE \/ Occurrences!Happen \/ Occurrences!ObserveClosed
           \/ \E t \in Occurrences!Times, w \in Ran : Occurrences!CloseWebhook(w, t)
           \/ \E k \in Key, w \in Ran : Occurrences!ReconcileStart(w, k)
           \/ \E w \in Ran : Occurrences!RequestFails(w) \/ Occurrences!CapabilityFails(w)
                             \/ Occurrences!Crash(w)
  BY <1>1, <1>5 DEF Occurrences!Happen, Occurrences!ObserveClosed, Occurrences!CloseWebhook,
     Occurrences!ReconcileStart, Occurrences!RequestFails, Occurrences!CapabilityFails,
     Occurrences!Crash
<1>6. ASSUME NEW w \in Ran, Occurrences!Reconcile(w) PROVE CycleStep
  <2>1. CASE \/ Occurrences!CloseRead(w) \/ Occurrences!CloseDone(w)
             \/ Occurrences!ReconcileProven(w) \/ Occurrences!ReconcilePending(w)
             \/ Occurrences!RetryLater(w)
    BY <1>1, <2>1 DEF Occurrences!CloseRead, Occurrences!CloseDone,
       Occurrences!ReconcileProven, Occurrences!ReconcilePending, Occurrences!RetryLater
  <2> QED
    BY <1>3, <1>4, <1>6, <2>1 DEF Occurrences!Reconcile
<1>7. CASE UNCHANGED Occurrences!vars
  BY <1>1, <1>7 DEF Occurrences!vars
<1> QED
  BY <1>2, <1>5, <1>6, <1>7 DEF Occurrences!Next, Ran, Key

LEMMA CycleStepIsLife ==
  ASSUME OccurrencesTyped, CycleStep
  PROVE  [Occurrences!Life!Next]_(Occurrences!Life!vars)
<1> DEFINE at(cycles) ==
        [t \in Occurrences!Entries |-> IF cycles[t] = "open" THEN "queued" ELSE cycles[t]]
<1>1. cycle \in [Opening -> {"none", "open", "closed"}]
  BY DEF OccurrencesTyped
<1>2. CASE cycle' = cycle
  <2>1. at(cycle') = at(cycle)
    BY <1>2
  <2> QED
    BY <2>1 DEF Occurrences!Life!vars
<1>3. ASSUME NEW t \in Opening, Opens(t) PROVE Occurrences!Life!Next
  <2>1. at(cycle') = [at(cycle) EXCEPT ![t] = "queued"]
    BY <1>1, <1>3 DEF Opens, Opening
  <2>2. at(cycle)[t] = "none"
    BY <1>3 DEF Opens, Opening
  <2>3. \A c \in Occurrences!Entries : at(cycle)[c] # "none" =>
            c < t /\ at(cycle)[c] \notin {"queued", "assigned"}
    BY <1>1, <1>3 DEF Opens, Opening
  <2>4. Occurrences!Life!Open(t)
    BY <1>3, <2>1, <2>2, <2>3 DEF Opening, Occurrences!Life!Open,
       Occurrences!Life!SameTicket, Occurrences!Life!Active
  <2> QED
    BY <1>3, <2>4 DEF Occurrences!Life!Next, Opening
<1>4. ASSUME NEW c \in Opening, Closes(c) PROVE Occurrences!Life!Next
  <2>1. at(cycle') = [at(cycle) EXCEPT ![c] = "closed"]
    BY <1>1, <1>4 DEF Closes, Opening
  <2>2. at(cycle)[c] = "queued"
    BY <1>4 DEF Closes, Opening
  <2>3. [t \in Occurrences!Entries |-> 0]
            = [[t \in Occurrences!Entries |-> 0] EXCEPT ![c] = 0]
    BY <1>4 DEF Opening
  <2>4. Occurrences!Life!Close(c)
    BY <2>1, <2>2, <2>3 DEF Occurrences!Life!Close, Occurrences!Life!Active
  <2> QED
    BY <1>4, <2>4 DEF Occurrences!Life!Next, Opening
<1> QED
  BY <1>2, <1>3, <1>4 DEF CycleStep

(* However their evidence comes, the cycles of a ticket are opened in the   *)
(* order of the entries, one at a time, and closed for good (open_or_get_   *)
(* cycle and apply_close_occurrence, under lifecycle occurrences).          *)
THEOREM EvidenceKeepsOrder == Occurrences!Spec => CyclesFollowEvidence
<1>1. Occurrences!Init => Occurrences!Life!Init
  <2> SUFFICES ASSUME Occurrences!Init PROVE Occurrences!Life!Init
    OBVIOUS
  <2>1. \A t \in Occurrences!Entries : cycle[t] = "none"
    BY DEF Occurrences!Init
  <2> QED
    BY <2>1 DEF Occurrences!Life!Init
<1>2. OccurrencesInv /\ [Occurrences!Next]_(Occurrences!vars)
        => [Occurrences!Life!Next]_(Occurrences!Life!vars)
  BY CyclesStep, CycleStepIsLife DEF OccurrencesInv
<1> QED
  BY <1>1, <1>2, OccurrencesInvariance, PTL DEF Occurrences!Spec, Occurrences!Life!Spec,
     CyclesFollowEvidence, Occurrences!CyclesFollowEvidence

-----------------------------------------------------------------------------
(***************************************************************************)
(* The opening cohort again: its times.  A cohort is formed at a deadline  *)
(* that is not before its recheck, and nobody changes either.              *)
(***************************************************************************)
MembersTyped ==
    member \in [Members -> [state : {"off", "stabilizing", "eligible"}, since : Nat]]

CohortTimes ==
    /\ clock \in Nat
    /\ MembersTyped
    /\ cohort.state = "active" =>
        cohort.deadline \in Int /\ cohort.recheck \in Int /\ cohort.recheck <= cohort.deadline

BoundedInv == BarrierInv /\ CohortTimes

LEMMA FiniteImage ==
  ASSUME NEW S, IsFiniteSet(S), NEW f
  PROVE  IsFiniteSet({f[x] : x \in S})
<1> DEFINE T == {f[x] : x \in S}
           g == [x \in S |-> f[x]]
<1>1. g \in [S -> T] /\ \A y \in T : \E x \in S : g[x] = y
  OBVIOUS
<1>2. g \in Surjection(S, T)
  BY <1>1 DEF Surjection
<1> QED
  BY <1>2, FS_Surjection

LEMMA FirstOf ==
  ASSUME NEW S, IsFiniteSet(S), S \subseteq Int, S # {}
  PROVE  \E x \in S : \A y \in S : x <= y
<1> DEFINE T == {-x : x \in S}
<1>1. IsFiniteSet(T)
  <2> DEFINE f == [x \in S |-> -x]
  <2>1. IsFiniteSet({f[x] : x \in S})
    BY FiniteImage
  <2>2. T = {f[x] : x \in S}
    OBVIOUS
  <2> QED
    BY <2>1, <2>2
<1>2. T \subseteq Int /\ T # {}
  <2>1. \A x \in S : x \in Int
    OBVIOUS
  <2>2. \A x \in S : -x \in Int
    BY <2>1
  <2>3. T \subseteq Int
    BY <2>2
  <2>4. PICK x \in S : TRUE
    OBVIOUS
  <2>5. -x \in T
    BY <2>4
  <2> QED
    BY <2>3, <2>5
<1> HIDE DEF T
<1>3. PICK m \in T : \A y \in T : y <= m
  BY <1>1, <1>2, LastOf
<1>4. PICK x \in S : m = -x
  BY DEF T
<1>5. ASSUME NEW y \in S PROVE x <= y
  <2>1. -y \in T
    BY DEF T
  <2>2. -y <= -x /\ x \in Int /\ y \in Int
    BY <1>3, <1>4, <2>1
  <2> QED
    BY <2>2
<1> QED
  BY <1>5

LEMMA SinceImage ==
  ASSUME RecoveryAssumption, MembersTyped, NEW A, A \subseteq Members, NEW n \in Nat
  PROVE  /\ IsFiniteSet({member[a].since + n : a \in A})
         /\ {member[a].since + n : a \in A} \subseteq Int
         /\ IsFiniteSet({member[a].since : a \in A})
         /\ {member[a].since : a \in A} \subseteq Int
<1>1. IsFiniteSet(Members)
  BY DEF RecoveryAssumption, Cohort!CohortAssumption, Cohort!IsFiniteSet, IsFiniteSet
<1>2. IsFiniteSet(A)
  BY <1>1, FS_Subset
<1>3. \A a \in A : member[a].since \in Nat
  BY DEF MembersTyped
<1>4. IsFiniteSet({member[a].since : a \in A})
  <2> DEFINE f == [a \in A |-> member[a].since]
  <2>1. IsFiniteSet({f[a] : a \in A})
    BY <1>2, FiniteImage
  <2>2. {member[a].since : a \in A} = {f[a] : a \in A}
    OBVIOUS
  <2> QED
    BY <2>1, <2>2
<1>5. IsFiniteSet({member[a].since + n : a \in A})
  <2> DEFINE f == [a \in A |-> member[a].since + n]
  <2>1. IsFiniteSet({f[a] : a \in A})
    BY <1>2, FiniteImage
  <2>2. {member[a].since + n : a \in A} = {f[a] : a \in A}
    OBVIOUS
  <2> QED
    BY <2>1, <2>2
<1> QED
  BY <1>3, <1>4, <1>5

(* A cohort that forms has a recheck that is not after its deadline.        *)
LEMMA FormedInTime ==
  ASSUME RecoveryAssumption, CohortTimes, Cohort!CohortForms
  PROVE  /\ Cohort!DeadlineAt \in Int /\ Cohort!RecheckAt \in Int
         /\ Cohort!RecheckAt <= Cohort!DeadlineAt
<1> DEFINE A == Cohort!Eligible \cup Cohort!Stabilizing
           S == {member[a].since : a \in A}
           E == {member[a].since + Stable : a \in Cohort!Stabilizing} \cup {clock}
           eta == Cohort!Max(E)
           D == Cohort!DeadlineAt
<1>1. A \subseteq Members /\ A # {} /\ Cohort!Stabilizing \subseteq Members
  BY DEF Cohort!CohortForms, Cohort!Eligible, Cohort!Stabilizing
<1>2. Stable \in Nat /\ Heartbeat \in Nat /\ Jitter \in Nat
  BY DEF RecoveryAssumption, Cohort!CohortAssumption
<1>3. MembersTyped /\ clock \in Int
  BY DEF CohortTimes
<1>4. IsFiniteSet(S) /\ S \subseteq Int /\ S # {}
  <2>1. IsFiniteSet(S) /\ S \subseteq Int
    BY <1>1, <1>2, <1>3, SinceImage
  <2> QED
    BY <1>1, <2>1
<1>5. IsFiniteSet(E) /\ E \subseteq Int /\ E # {}
  <2>1. /\ IsFiniteSet({member[a].since + Stable : a \in Cohort!Stabilizing})
        /\ {member[a].since + Stable : a \in Cohort!Stabilizing} \subseteq Int
    BY <1>1, <1>2, <1>3, SinceImage
  <2> QED
    BY <1>3, <2>1, FS_AddElement
<1>6. Cohort!Min(S) \in Int
  <2> HIDE DEF S
  <2>1. \E x \in S : \A y \in S : x <= y
    BY <1>4, FirstOf
  <2> QED
    BY <1>4, <2>1 DEF Cohort!Min
<1>7. eta \in Int
  <2> HIDE DEF E
  <2>1. \E x \in E : \A y \in E : x >= y
    BY <1>5, LastOf
  <2> QED
    BY <1>5, <2>1 DEF Cohort!Max
<1>8. D \in Int
  BY <1>2, <1>6 DEF Cohort!DeadlineAt, Cohort!ObservedAt
<1>9. Cohort!RecheckAt = Cohort!Min({D, eta + Jitter})
  BY DEF Cohort!RecheckAt
<1> HIDE DEF D, eta
<1>10. eta + Jitter \in Int
  BY <1>2, <1>7
<1>11. ASSUME NEW x \in Int, NEW y \in Int
       PROVE  Cohort!Min({x, y}) \in Int /\ Cohort!Min({x, y}) <= x
  <2>1. \E m \in {x, y} : \A z \in {x, y} : m <= z
    BY <1>11
  <2>2. Cohort!Min({x, y}) \in {x, y} /\ \A z \in {x, y} : Cohort!Min({x, y}) <= z
    BY <2>1 DEF Cohort!Min
  <2> QED
    BY <1>11, <2>2
<1> QED
  BY <1>8, <1>9, <1>10, <1>11 DEF D

LEMMA CurrentInTime ==
  ASSUME RecoveryAssumption, CohortTimes
  PROVE  /\ Cohort!Current.state = "active" =>
              /\ Cohort!Current.deadline \in Int /\ Cohort!Current.recheck \in Int
              /\ Cohort!Current.recheck <= Cohort!Current.deadline
         /\ cohort.state # "none" => Cohort!Current = cohort
<1>1. CASE Cohort!CohortForms
  BY <1>1, FormedInTime DEF Cohort!Current, Cohort!CohortForms
<1>2. CASE ~Cohort!CohortForms
  BY <1>2 DEF Cohort!Current, CohortTimes
<1>3. cohort.state # "none" => ~Cohort!CohortForms
  BY DEF Cohort!CohortForms
<1> QED
  BY <1>1, <1>2, <1>3 DEF Cohort!Current

(* What evaluating the barrier leaves: the cohort in time, and any row that *)
(* is put off, put off in time.                                             *)
InTime(c) == c.state = "active" =>
    c.deadline \in Int /\ c.recheck \in Int /\ c.recheck <= c.deadline

Prolongs ==
    \/ cohort.state # "none" /\ cohort' \notin {cohort, Cohort!Released(cohort)}
    \/ \E r \in Waiting : queue'[r].next # queue[r].next /\ ~(queue'[r].next <= cohort'.deadline)

LEMMA ReleasedInTime ==
  ASSUME NEW c, DOMAIN c = {"state", "members", "recheck", "deadline"}
  PROVE  InTime(Cohort!Released(c))
  BY ReleasedIsOver DEF InTime

LEMMA BarrierEvaluated ==
  ASSUME RecoveryAssumption, BoundedInv, cohort' = Cohort!Evaluated, NEW s,
         queue' \in {Cohort!Deferred(s), [queue EXCEPT ![s].assigned = TRUE]}
  PROVE  InTime(cohort') /\ ~Prolongs
<1>1. /\ InTime(Cohort!Current) /\ (cohort.state # "none" => Cohort!Current = cohort)
      /\ DOMAIN Cohort!Current = {"state", "members", "recheck", "deadline"}
      /\ RowsAreRows
  BY CurrentInTime, CurrentIsOne DEF BoundedInv, BarrierInv, InTime
<1>2. InTime(cohort')
  BY <1>1, ReleasedInTime DEF Cohort!Evaluated
<1>3. cohort.state # "none" => cohort' \in {cohort, Cohort!Released(cohort)}
  BY <1>1 DEF Cohort!Evaluated
<1>4. ASSUME NEW r \in Waiting, queue'[r].next # queue[r].next
      PROVE  queue'[r].next <= cohort'.deadline
  <2>1. CASE queue' = [queue EXCEPT ![s].assigned = TRUE]
    <3>1. CASE r = s
      <4>1. queue'[r] = [queue[r] EXCEPT !.assigned = TRUE]
        BY <1>1, <2>1, <3>1 DEF RowsAreRows
      <4>2. queue'[r].next = queue[r].next
        BY <1>1, <4>1 DEF RowsAreRows
      <4> QED BY <1>4, <4>2
    <3>2. CASE r # s
      <4>1. queue'[r] = queue[r]
        BY <1>1, <2>1, <3>2 DEF RowsAreRows
      <4> QED BY <1>4, <4>1
    <3> QED BY <3>1, <3>2
  <2>2. CASE queue' = Cohort!Deferred(s)
    <3>1. Cohort!Defers /\ queue' = [queue EXCEPT ![s].next = Cohort!Current.recheck]
      BY <1>4, <2>2 DEF Cohort!Deferred
    <3>2. r = s
      <4>1. r # s => queue'[r] = queue[r]
        BY <1>1, <3>1 DEF RowsAreRows
      <4> QED BY <1>4, <4>1
    <3>3. queue'[r] = [queue[r] EXCEPT !.next = Cohort!Current.recheck]
      BY <1>1, <3>1, <3>2 DEF RowsAreRows
    <3>4. queue'[r].next = Cohort!Current.recheck
      BY <1>1, <3>3 DEF RowsAreRows
    <3>5. cohort' = Cohort!Current /\ Cohort!Current.state = "active"
      BY <3>1 DEF Cohort!Defers, Cohort!Evaluated
    <3> QED
      BY <1>1, <3>4, <3>5 DEF InTime
  <2> QED
    BY <2>1, <2>2
<1> QED
  BY <1>2, <1>3, <1>4 DEF Prolongs

LEMMA BarrierLeft ==
  ASSUME BoundedInv, queue' = queue, cohort' \in {cohort, Cohort!Finalized}
  PROVE  InTime(cohort') /\ ~Prolongs
<1>1. CASE cohort' = cohort
  BY <1>1 DEF BoundedInv, CohortTimes, InTime, Prolongs
<1>2. CASE cohort' = Cohort!Released(cohort)
  BY <1>2, ReleasedInTime DEF BoundedInv, BarrierInv, CohortIsOne, Prolongs
<1> QED
  BY <1>1, <1>2 DEF Cohort!Finalized

LEMMA MembersStay ==
  ASSUME CohortTimes, NEW a \in Members,
         Cohort!Come(a) \/ Cohort!Settle(a) \/ Cohort!Go(a)
  PROVE  MembersTyped' /\ UNCHANGED <<clock, cohort, queue>>
<1>1. MembersTyped /\ clock \in Nat
  BY DEF CohortTimes
<1>2. PICK m \in [state : {"off", "stabilizing", "eligible"}, since : Nat] :
        member' = [member EXCEPT ![a] = m]
  <2>1. CASE Cohort!Come(a)
    BY <1>1, <2>1 DEF Cohort!Come
  <2>2. CASE Cohort!Settle(a)
    BY <1>1, <2>2 DEF Cohort!Settle, MembersTyped
  <2>3. CASE Cohort!Go(a)
    <3>1. member' = [member EXCEPT ![a] = [member[a] EXCEPT !.state = "off"]]
      BY <2>3 DEF Cohort!Go
    <3>2. [member[a] EXCEPT !.state = "off"] \in
              [state : {"off", "stabilizing", "eligible"}, since : Nat]
      BY <1>1 DEF MembersTyped
    <3> QED
      BY <3>1, <3>2
  <2> QED
    BY <2>1, <2>2, <2>3
<1>3. MembersTyped'
  BY <1>1, <1>2 DEF MembersTyped
<1> QED
  BY <1>3 DEF Cohort!Come, Cohort!Settle, Cohort!Go

LEMMA BoundedStep ==
  ASSUME RecoveryAssumption, BoundedInv, [Cohort!Next]_(Cohort!vars)
  PROVE  BoundedInv' /\ ~Prolongs
<1>1. BarrierInv'
  BY BarrierStep DEF BoundedInv, Holds
<1>2. InTime(cohort') /\ ~Prolongs
  <2>1. ASSUME NEW d \in Drains, Cohort!Reserve(d) PROVE InTime(cohort') /\ ~Prolongs
    <3> DEFINE r == drain[d].row
    <3>1. CASE UNCHANGED <<cohort, queue>>
      BY <3>1, BarrierLeft
    <3>2. CASE /\ ~(~Cohort!Ready(r) \/ Cohort!Eligible = {})
               /\ cohort' = Cohort!Evaluated
               /\ queue' = IF Cohort!Passes THEN [queue EXCEPT ![r].assigned = TRUE]
                           ELSE Cohort!Deferred(r)
      <4>1. queue' \in {Cohort!Deferred(r), [queue EXCEPT ![r].assigned = TRUE]}
        BY <3>2
      <4>2. cohort' = Cohort!Evaluated
        BY <3>2
      <4> HIDE DEF r
      <4> QED BY <4>1, <4>2, BarrierEvaluated
    <3> QED BY <2>1, <3>1, <3>2 DEF Cohort!Reserve
  <2>2. ASSUME NEW d \in Drains, NEW r \in Waiting, Cohort!Precheck(d, r)
        PROVE  InTime(cohort') /\ ~Prolongs
    BY <2>2, BarrierEvaluated DEF Cohort!Precheck
  <2>3. CASE Cohort!Tick \/ Cohort!Beat \/ Cohort!Recheck
    BY <2>3, BarrierLeft DEF Cohort!Tick, Cohort!Beat, Cohort!Recheck
  <2>4. CASE \E a \in Members : Cohort!Come(a) \/ Cohort!Settle(a) \/ Cohort!Go(a)
    BY <2>4, BarrierLeft DEF Cohort!Come, Cohort!Settle, Cohort!Go
  <2>5. CASE UNCHANGED Cohort!vars
    BY <2>5, BarrierLeft DEF Cohort!vars
  <2> QED BY <2>1, <2>2, <2>3, <2>4, <2>5 DEF Cohort!Next
<1>3. clock' \in Nat /\ MembersTyped'
  <2>1. CASE Cohort!Tick
    BY <2>1 DEF Cohort!Tick, BoundedInv, CohortTimes, MembersTyped
  <2>2. ASSUME NEW a \in Members, Cohort!Come(a) \/ Cohort!Settle(a) \/ Cohort!Go(a)
        PROVE  clock' \in Nat /\ MembersTyped'
    BY <2>2, MembersStay DEF BoundedInv, CohortTimes
  <2>3. CASE UNCHANGED <<clock, member>>
    BY <2>3 DEF BoundedInv, CohortTimes, MembersTyped
  <2> QED
    BY <2>1, <2>2, <2>3 DEF Cohort!Next, Cohort!vars, Cohort!Beat, Cohort!Recheck,
       Cohort!Reserve, Cohort!Precheck
<1>4. CohortTimes'
  BY <1>2, <1>3 DEF CohortTimes, InTime
<1> QED
  BY <1>1, <1>2, <1>4 DEF BoundedInv

(* The barrier is formed once, keeps its members and its deadline, and puts *)
(* no row off beyond it, for any agents, rows, drains and times             *)
(* (_locked_get_or_create, _cohort_defaults).                               *)
THEOREM BarrierIsBounded == Cohort!Spec => NobodyProlongs
<1>1. Cohort!Init => BoundedInv
  BY DEF Cohort!Init, BoundedInv, BarrierInv, RowsAreRows, CohortIsOne, Cohort!NoCohort,
     CohortTimes, MembersTyped
<1>2. BoundedInv /\ [Cohort!Next]_(Cohort!vars) => BoundedInv'
  BY BoundedStep, RecoveryAssumption
<1>3. BoundedInv /\ [Cohort!Next]_(Cohort!vars) =>
        [/\ cohort.state # "none" => cohort' \in {cohort, Cohort!Released(cohort)}
         /\ \A r \in Waiting :
                queue'[r].next # queue[r].next => queue'[r].next <= cohort'.deadline
        ]_(Cohort!vars)
  BY BoundedStep, RecoveryAssumption DEF Prolongs
<1> QED BY <1>1, <1>2, <1>3, PTL DEF Cohort!Spec, NobodyProlongs, Cohort!NobodyProlongs
=============================================================================
