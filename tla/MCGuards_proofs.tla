-------------------------- MODULE MCGuards_proofs --------------------------
(***************************************************************************)
(* Proofs about the components of MCGuards, one section for each, under    *)
(* the assumption GuardsAssumption on their constants:                     *)
(*   - the owned cache lock keeps its holders apart (HoldersAreInTime);    *)
(*   - one row of a ticket is up for assignment (OneRowIsArmed);           *)
(*   - a heartbeat's reservation rests on settled readings                 *)
(*     (ReservationsRest);                                                 *)
(*   - attendances follow the states of conversations, a closed ticket is  *)
(*     quiet and only news reopens a conversation (AttendancesFollow,      *)
(*     ClosureQuiets, NewsAloneReopens);                                   *)
(*   - the audit tells the truth, no edit is lost and an absence closes    *)
(*     the day (AuditIsTrue, EditsAreKept, AbsencesClose), carried over    *)
(*     from CalendarRules_proofs.                                          *)
(***************************************************************************)
EXTENDS Sequences, MCGuards, FiniteSetTheorems, TLAPS

-----------------------------------------------------------------------------
(***************************************************************************)
(* OwnedCacheLock: a worker that is in time holds the stored token, and no *)
(* token is drawn twice.                                                   *)
(***************************************************************************)

(***************************************************************************)
(* The inductive invariant: types; the stored token and every token in use *)
(* have been drawn; a worker in time holds the stored token; two workers   *)
(* never use one token.                                                    *)
(***************************************************************************)
LockTyped ==
    /\ drawn \in Nat /\ key \in 0..drawn
    /\ worker \in [Workers -> [token : 0..drawn, overrun : BOOLEAN]]

LockInv ==
    /\ LockTyped
    /\ \A w \in Workers : InTime(w) => worker[w].token = key
    /\ \A v, w \in Workers :
        worker[v].token # 0 /\ worker[v].token = worker[w].token => v = w

(***************************************************************************)
(* The invariant holds at first, and every step of the workers keeps it.   *)
(***************************************************************************)
LEMMA LockInitially == Init => LockInv
  BY DEF Init, LockInv, LockTyped, Outside, InTime

LEMMA LockAcquired == ASSUME LockInv, NEW w \in Workers, Acquire(w) PROVE LockInv'
<1>1. drawn' = drawn + 1 /\ key' = drawn + 1 /\ key = 0
  BY DEF Acquire
<1>2. worker' = [worker EXCEPT ![w].token = drawn + 1] /\ worker[w] = Outside
  BY <1>1 DEF Acquire
<1>3. drawn \in Nat /\ worker \in [Workers -> [token : 0..drawn, overrun : BOOLEAN]]
  BY DEF LockInv, LockTyped
<1>4. LockTyped'
  BY <1>1, <1>2, <1>3 DEF LockTyped
<1>5. \A v \in Workers \ {w} : worker'[v] = worker[v] /\ worker[v].token \in 0..drawn
  BY <1>2, <1>3
<1>6. worker'[w].token = drawn + 1
  BY <1>2, <1>3
<1>7. \A v \in Workers \ {w} : ~InTime(v)
  BY <1>1, <1>3 DEF LockInv, InTime
<1>8. \A v \in Workers : InTime(v)' => worker'[v].token = key'
  BY <1>1, <1>5, <1>6, <1>7 DEF InTime
<1>9. \A u, v \in Workers : worker'[u].token # 0 /\ worker'[u].token = worker'[v].token => u = v
  BY <1>3, <1>5, <1>6 DEF LockInv
<1> QED
  BY <1>4, <1>8, <1>9 DEF LockInv

LEMMA LockExpired == ASSUME LockInv, Expire PROVE LockInv'
<1>1. worker' = [w \in Workers |->
          IF worker[w].token = key THEN [worker[w] EXCEPT !.overrun = TRUE] ELSE worker[w]]
      /\ key' = 0 /\ drawn' = drawn
  BY DEF Expire
<1>2. drawn \in Nat /\ worker \in [Workers -> [token : 0..drawn, overrun : BOOLEAN]]
  BY DEF LockInv, LockTyped
<1>3. \A w \in Workers : worker'[w].token = worker[w].token
        /\ (worker[w].token = key => worker'[w].overrun = TRUE)
        /\ (worker[w].token # key => worker'[w] = worker[w])
  BY <1>1, <1>2
<1>4. \A w \in Workers : worker'[w] \in [token : 0..drawn, overrun : BOOLEAN]
  BY <1>1, <1>2
<1>5. LockTyped'
  BY <1>1, <1>2, <1>4 DEF LockTyped
<1>6. \A w \in Workers : ~InTime(w)'
  BY <1>3 DEF LockInv, InTime
<1> QED
  BY <1>3, <1>5, <1>6 DEF LockInv

(***************************************************************************)
(* A worker that leaves takes nobody's key but its own: the deletion       *)
(* compares the token.                                                     *)
(***************************************************************************)
LEMMA LockLeft ==
  ASSUME LockInv, NEW w \in Workers, worker[w].token # 0,
         worker' = [worker EXCEPT ![w] = Outside], drawn' = drawn,
         key' = key \/ (key' = 0 /\ key = worker[w].token)
  PROVE  LockInv'
<1>1. drawn \in Nat /\ key \in 0..drawn
      /\ worker \in [Workers -> [token : 0..drawn, overrun : BOOLEAN]]
  BY DEF LockInv, LockTyped
<1>2. Outside \in [token : 0..drawn, overrun : BOOLEAN]
  BY <1>1 DEF Outside
<1>3. LockTyped'
  BY <1>1, <1>2 DEF LockTyped
<1>4. worker'[w] = Outside /\ \A v \in Workers \ {w} : worker'[v] = worker[v]
  BY <1>1
<1>5. \A v \in Workers : InTime(v)' => v # w /\ InTime(v)
  BY <1>4 DEF InTime, Outside
<1>6. \A v \in Workers : InTime(v)' => worker'[v].token = key'
  BY <1>4, <1>5 DEF LockInv, InTime
<1>7. \A u, v \in Workers : worker'[u].token # 0 /\ worker'[u].token = worker'[v].token => u = v
  BY <1>4 DEF LockInv, Outside
<1> QED
  BY <1>3, <1>6, <1>7 DEF LockInv

LEMMA LockStep == LockInv /\ [Next]_vars => LockInv'
<1> SUFFICES ASSUME LockInv, [Next]_vars PROVE LockInv'
  OBVIOUS
<1>1. CASE Expire
  BY <1>1, LockExpired
<1>2. ASSUME NEW w \in Workers, Acquire(w) PROVE LockInv'
  BY <1>2, LockAcquired
<1>3. ASSUME NEW w \in Workers, Release(w) PROVE LockInv'
  BY <1>3, LockLeft DEF Release, ComparedDelete
<1>4. ASSUME NEW w \in Workers, Die(w) PROVE LockInv'
  BY <1>4, LockLeft DEF Die
<1>5. CASE UNCHANGED vars
  BY <1>5 DEF vars, LockInv, LockTyped, InTime
<1> QED
  BY <1>1, <1>2, <1>3, <1>4, <1>5 DEF Next

(***************************************************************************)
(* Of two workers that hold the lock at once, one has outlived its lock,   *)
(* for any workers and any number of uses.                                 *)
(***************************************************************************)
THEOREM HoldersAreInTime == Spec => []OneInTime
<1>1. LockInv => OneInTime
  BY DEF LockInv, OneInTime, InTime
<1> QED
  BY <1>1, LockInitially, LockStep, PTL DEF Spec

-----------------------------------------------------------------------------
(***************************************************************************)
(* QueueIntake: one row of a ticket is armed.                              *)
(***************************************************************************)
IntakeRow == [id : Nat, cycle : Nat, status : {"pending", "stale", "not_found"}, armed : BOOLEAN]
IntakeTask ==
    [pc : {"idle", "again", "read", "open", "get", "insert", "revive", "attach"},
     entry : Nat, run : Nat, cycle : Nat, row : Nat]
IntakeSync ==
    [pc : {"idle", "rows", "assigned", "revive", "open", "insert"}, entry : Nat, row : Nat,
     failed : BOOLEAN, assigned : BOOLEAN, cycle : Nat]

IntakeTyped ==
    /\ ticket \in [entry : Nat, novo : BOOLEAN, owned : BOOLEAN]
    /\ inbox \subseteq Nat /\ lock \in Tasks \cup {"free"} /\ lapsed \in BOOLEAN
    /\ queued \subseteq IntakeRow /\ \A r \in queued : r.id \in 1..MaxRows
    /\ intake \in [Tasks -> IntakeTask] /\ sync \in IntakeSync

(***************************************************************************)
(* Rows have identifiers of their own; ArmedIds are those of the rows that *)
(* are up for automatic assignment.                                        *)
(***************************************************************************)
IdsDiffer == \A r, s \in queued : r.id = s.id => r = s
ArmedIds == {r.id : r \in {s \in queued : s.armed}}

(***************************************************************************)
(* While no lock lapsed: a task at work holds the lock; no two rows are    *)
(* armed; and a task that is about to insert, or to revive, a row arms the *)
(* only one.                                                               *)
(***************************************************************************)
TaskHolds(d) == Intake!Holding(d) => lock = d
ArmsAlone(d) ==
    /\ intake[d].pc = "insert" => ArmedIds = {}
    /\ intake[d].pc = "revive" => ArmedIds \subseteq {intake[d].row}

IntakeInv ==
    /\ Intake!IntakeAssumption /\ IntakeTyped /\ IdsDiffer
    /\ ~lapsed =>
        /\ \A i, j \in ArmedIds : i = j
        /\ \A d \in Tasks : TaskHolds(d) /\ ArmsAlone(d)

(***************************************************************************)
(* A fresh identifier is the least of those that nobody has.               *)
(***************************************************************************)
LEMMA LeastExists ==
  ASSUME NEW n \in Nat, NEW S \in SUBSET (1..n), S # {}
  PROVE  \E x \in S : \A y \in S : x =< y
<1> DEFINE Below(m) == {k \in S : k =< m}
           T == {Below(m) : m \in S}
<1>1. IsFiniteSet(S) /\ S \subseteq Nat
  <2>1. IsFiniteSet(1..n)
    BY FS_Interval
  <2>2. IsFiniteSet(S)
    BY <2>1, FS_Subset
  <2> QED
    BY <2>2
<1>2. IsWellFoundedOn(StrictSubsetOrdering(S), FiniteSubsetsOf(S))
  BY FS_StrictSubsetOrderingWellFounded
<1>3. T \subseteq FiniteSubsetsOf(S) /\ T # {}
  <2>1. FiniteSubsetsOf(S) = SUBSET S
    BY <1>1, FS_FiniteSubsetsOfFinite
  <2>2. \A m \in S : Below(m) \in SUBSET S
    OBVIOUS
  <2>3. T \subseteq SUBSET S
    BY <2>2
  <2>4. T # {}
    OBVIOUS
  <2> QED
    BY <2>1, <2>3, <2>4
<1>4. PICK b \in T : \A c \in T : ~(<<c, b>> \in StrictSubsetOrdering(S))
  <2> HIDE DEF T
  <2> QED
    BY <1>2, <1>3, WFMin
<1>5. PICK x \in S : b = Below(x)
  OBVIOUS
<1>6. ASSUME NEW y \in S PROVE x =< y
  <2> SUFFICES ASSUME y < x PROVE FALSE
    BY <1>1
  <2>1. Below(y) \subseteq Below(x)
    <3>1. \A k \in S : k \in Nat
      BY <1>1
    <3>2. \A k \in S : k =< y => k =< x
      BY <3>1
    <3> QED
      BY <3>2
  <2>2. x \in Below(x) /\ x \notin Below(y)
    BY <1>1
  <2>3. <<Below(y), Below(x)>> \in StrictSubsetOrdering(S)
    BY <2>1, <2>2 DEF StrictSubsetOrdering
  <2> QED
    BY <1>4, <1>5, <2>3
<1> QED
  BY <1>6

LEMMA FreshId ==
  ASSUME Intake!IntakeAssumption, Intake!Fresh # {}
  PROVE  /\ Intake!Min(Intake!Fresh) \in 1..MaxRows
         /\ \A r \in queued : r.id # Intake!Min(Intake!Fresh)
<1>1. Intake!Fresh \subseteq 1..MaxRows /\ MaxRows \in Nat
  BY DEF Intake!Fresh, Intake!IntakeAssumption
<1>2. \E x \in Intake!Fresh : \A y \in Intake!Fresh : x =< y
  BY <1>1, LeastExists
<1>3. Intake!Min(Intake!Fresh) \in Intake!Fresh
  BY <1>2 DEF Intake!Min
<1> QED
  BY <1>1, <1>3 DEF Intake!Fresh, Intake!Row

(***************************************************************************)
(* The rows are finite, by their identifiers, so counting them tells one   *)
(* from many.                                                              *)
(***************************************************************************)
LEMMA SameCount == \A S : Intake!Cardinality(S) = Cardinality(S)
  BY DEF Intake!Cardinality, Cardinality

LEMMA OneRow ==
  ASSUME IntakeInv, Cardinality(queued) = 1 PROVE \E r \in queued : queued = {r}
<1> DEFINE f == [r \in queued |-> r.id]
<1>1. f \in Injection(queued, 1..MaxRows)
  BY DEF IntakeInv, IntakeTyped, IdsDiffer, Injection, IsInjective
<1>2. IsFiniteSet(1..MaxRows)
  BY FS_Interval DEF IntakeInv, Intake!IntakeAssumption
<1>3. IsFiniteSet(queued)
  BY <1>1, <1>2, FS_Injection
<1> QED
  BY <1>3, FS_Singleton

(***************************************************************************)
(* A step that arms no row, moves no row's identifier, and lets nobody     *)
(* hold the lock that did not keeps the invariant.                         *)
(***************************************************************************)
LEMMA NobodyArms ==
  ASSUME IntakeInv, IntakeTyped', IdsDiffer', ~lapsed' => ~lapsed, ArmedIds' \subseteq ArmedIds,
         ~lapsed' => \A d \in Tasks : TaskHolds(d)' /\ ArmsAlone(d)'
  PROVE  IntakeInv'
  BY DEF IntakeInv, Intake!IntakeAssumption

LEMMA SameTasks ==
  ASSUME IntakeInv, IntakeTyped', IdsDiffer', ~lapsed' => ~lapsed, ArmedIds' \subseteq ArmedIds,
         UNCHANGED intake, UNCHANGED lock
  PROVE  IntakeInv'
<1>1. ASSUME ~lapsed', NEW d \in Tasks PROVE TaskHolds(d)' /\ ArmsAlone(d)'
  <2>1. TaskHolds(d) /\ ArmsAlone(d)
    BY <1>1 DEF IntakeInv
  <2> QED
    BY <2>1 DEF TaskHolds, ArmsAlone, Intake!Holding
<1> QED
  BY <1>1, NobodyArms

LEMMA SameRows ==
  ASSUME IntakeInv, UNCHANGED queued PROVE IdsDiffer' /\ ArmedIds' = ArmedIds
  BY DEF IntakeInv, IdsDiffer, ArmedIds

(***************************************************************************)
(* HubSpot, the matchmaker and the expiry.                                 *)
(***************************************************************************)
LEMMA EnvironmentKeeps ==
  ASSUME IntakeInv, Intake!EnterNovo \/ Intake!Repeat \/ Intake!LeaveNovo
  PROVE  IntakeInv'
<1>1. UNCHANGED <<queued, lock, intake, sync, lapsed>>
  BY DEF Intake!EnterNovo, Intake!Repeat, Intake!LeaveNovo, Intake!recordVars
<1>2. ticket \in [entry : Nat, novo : BOOLEAN, owned : BOOLEAN] /\ inbox \subseteq Nat
  BY DEF IntakeInv, IntakeTyped
<1>3. ticket' \in [entry : Nat, novo : BOOLEAN, owned : BOOLEAN] /\ inbox' \subseteq Nat
  <2>1. CASE Intake!EnterNovo
    <3>1. ticket.entry \in Nat /\ ticket.entry + 1 \in Nat
      BY <1>2
    <3>2. ticket' = [entry |-> ticket.entry + 1, novo |-> TRUE, owned |-> FALSE]
          /\ inbox' \subseteq inbox \union {ticket.entry + 1}
      BY <2>1 DEF Intake!EnterNovo
    <3> QED
      BY <1>2, <3>1, <3>2
  <2>2. CASE Intake!Repeat
    BY <1>2, <2>2 DEF Intake!Repeat
  <2>3. CASE Intake!LeaveNovo
    BY <1>2, <2>3 DEF Intake!LeaveNovo
  <2> QED
    BY <2>1, <2>2, <2>3
<1>4. IntakeTyped'
  BY <1>1, <1>3 DEF IntakeInv, IntakeTyped
<1> QED
  BY <1>1, <1>4, SameRows, SameTasks

LEMMA ClosureKeeps ==
  ASSUME IntakeInv, Intake!Close PROVE IntakeInv'
<1>1. /\ queued' \subseteq queued /\ UNCHANGED <<inbox, lock, intake, sync, lapsed>>
      /\ ticket' = [ticket EXCEPT !.novo = FALSE, !.owned = FALSE]
  BY DEF Intake!Close
<1>2. IntakeTyped'
  BY <1>1 DEF IntakeInv, IntakeTyped
<1>3. IdsDiffer' /\ ArmedIds' \subseteq ArmedIds
  BY <1>1 DEF IntakeInv, IdsDiffer, ArmedIds
<1> QED
  BY <1>1, <1>2, <1>3, SameTasks

LEMMA MatchKeeps ==
  ASSUME IntakeInv, NEW r \in queued, Intake!Match(r) PROVE IntakeInv'
<1>1. UNCHANGED <<inbox, lock, intake, sync, lapsed>> /\ r \in IntakeRow
  BY DEF Intake!Match, IntakeInv, IntakeTyped
<1>2. ticket' \in [entry : Nat, novo : BOOLEAN, owned : BOOLEAN]
  BY DEF Intake!Match, IntakeInv, IntakeTyped
<1>3. \/ queued' = queued \ {r}
      \/ \E s \in {"stale", "not_found"} :
            queued' = (queued \ {r}) \union {[r EXCEPT !.status = s]}
  BY DEF Intake!Match
<1>4. CASE queued' = queued \ {r}
  <2>1. IntakeTyped'
    BY <1>1, <1>2, <1>4 DEF IntakeInv, IntakeTyped
  <2>2. IdsDiffer' /\ ArmedIds' \subseteq ArmedIds
    BY <1>4 DEF IntakeInv, IdsDiffer, ArmedIds
  <2> QED
    BY <1>1, <2>1, <2>2, SameTasks
<1>5. ASSUME NEW s \in {"stale", "not_found"},
             queued' = (queued \ {r}) \union {[r EXCEPT !.status = s]}
      PROVE  IntakeInv'
  <2> DEFINE x == [r EXCEPT !.status = s]
  <2>1. x \in IntakeRow /\ x.id = r.id /\ x.armed = r.armed
    BY <1>1 DEF IntakeRow
  <2> HIDE DEF x
  <2>2. queued' = (queued \ {r}) \union {x}
    BY <1>5 DEF x
  <2>3. IntakeTyped'
    BY <1>1, <1>2, <2>1, <2>2 DEF IntakeInv, IntakeTyped
  <2>4. IdsDiffer' /\ ArmedIds' \subseteq ArmedIds
    BY <2>1, <2>2 DEF IntakeInv, IdsDiffer, ArmedIds
  <2> QED
    BY <1>1, <2>3, <2>4, SameTasks
<1> QED
  BY <1>3, <1>4, <1>5

LEMMA ExpiryKeeps ==
  ASSUME IntakeInv, Intake!Expire PROVE IntakeInv'
<1>1. lock # "free" /\ lock' = "free" /\ UNCHANGED <<ticket, inbox, queued, intake, sync>>
  BY DEF Intake!Expire, Intake!Free, Intake!providerVars, Intake!recordVars
<1>2. lapsed' = TRUE \/ (lapsed' = lapsed /\ ~Intake!Holding(lock))
  BY DEF Intake!Expire
<1>3. IntakeTyped' /\ (~lapsed' => ~lapsed)
  BY <1>1, <1>2 DEF IntakeInv, IntakeTyped
<1>4. ASSUME ~lapsed', NEW d \in Tasks PROVE TaskHolds(d)' /\ ArmsAlone(d)'
  <2>1. TaskHolds(d) /\ ArmsAlone(d)
    BY <1>3, <1>4 DEF IntakeInv
  <2> QED
    BY <1>1, <1>2, <1>4, <2>1 DEF TaskHolds, ArmsAlone, Intake!Holding, ArmedIds
<1> QED
  BY <1>1, <1>3, <1>4, SameRows, NobodyArms

(***************************************************************************)
(* A step of one task that arms nothing.                                   *)
(***************************************************************************)
LEMMA TaskMoves ==
  ASSUME IntakeInv, NEW d \in Tasks, NEW to \in IntakeTask, intake' = [intake EXCEPT ![d] = to],
         UNCHANGED <<ticket, sync, lapsed>>, inbox' \subseteq inbox, UNCHANGED queued,
         \/ lock' = lock /\ (Intake!Holding(d)' => Intake!Holding(d))
         \/ lock = "free" /\ lock' = d
         \/ ~Intake!Holding(d)' /\ lock' = Intake!Released(d),
         to.pc = "insert" => ArmedIds = {},
         to.pc = "revive" => ArmedIds \subseteq {to.row}
  PROVE  IntakeInv'
<1>1. /\ intake' \in [Tasks -> IntakeTask] /\ intake'[d] = to
      /\ \A e \in Tasks \ {d} : intake'[e] = intake[e]
  BY DEF IntakeInv, IntakeTyped
<1>2. lock' \in Tasks \cup {"free"}
  BY DEF IntakeInv, IntakeTyped, Intake!Released, Intake!Free
<1>3. IntakeTyped'
  BY <1>1, <1>2 DEF IntakeInv, IntakeTyped
<1>4. IdsDiffer' /\ ArmedIds' = ArmedIds
  BY SameRows
<1>5. ASSUME ~lapsed', NEW e \in Tasks PROVE TaskHolds(e)'
  <2>1. TaskHolds(e) /\ TaskHolds(d) /\ "free" \notin Tasks
    BY <1>5 DEF IntakeInv, Intake!IntakeAssumption
  <2>2. CASE e = d
    BY <2>1, <2>2 DEF TaskHolds
  <2>3. CASE e # d
    <3>1. Intake!Holding(e)' = Intake!Holding(e)
      BY <1>1, <2>3 DEF Intake!Holding
    <3> QED
      BY <2>1, <2>3, <3>1 DEF TaskHolds, Intake!Released, Intake!Free
  <2> QED
    BY <2>2, <2>3
<1>6. ASSUME ~lapsed', NEW e \in Tasks PROVE ArmsAlone(e)'
  <2>1. ArmsAlone(e)
    BY <1>6 DEF IntakeInv
  <2> QED
    BY <1>1, <1>4, <2>1 DEF ArmsAlone
<1> QED
  BY <1>3, <1>4, <1>5, <1>6, NobodyArms

LEMMA IntakeIdle == Intake!NoIntake \in IntakeTask /\ Intake!NoIntake.pc = "idle"
  BY DEF Intake!NoIntake, IntakeTask, Intake!NoCycle

LEMMA CycleIsNat ==
  ASSUME NEW e \in Nat PROVE Intake!CycleFor(e) \in Nat
  BY DEF Intake!CycleFor, Intake!NoCycle

(***************************************************************************)
(* A task that ends, or raises, gives the lock back, if it still has it.   *)
(***************************************************************************)
LEMMA TaskEnds ==
  ASSUME IntakeInv, NEW d \in Tasks, Intake!Done(d) \/ Intake!Raises(d),
         UNCHANGED <<ticket, sync, lapsed>>, UNCHANGED inbox, UNCHANGED queued
  PROVE  IntakeInv'
<1>1. intake \in [Tasks -> IntakeTask] /\ intake[d] \in IntakeTask
  BY DEF IntakeInv, IntakeTyped
<1>2. PICK to \in IntakeTask : /\ intake' = [intake EXCEPT ![d] = to]
                               /\ to.pc \in {"idle", "again"}
  <2> DEFINE again == [Intake!NoIntake EXCEPT
                 !.pc = "again", !.entry = intake[d].entry, !.run = intake[d].run + 1]
  <2>1. again \in IntakeTask /\ again.pc = "again"
    <3>1. intake[d].entry \in Nat /\ intake[d].run + 1 \in Nat
      BY <1>1 DEF IntakeTask
    <3> QED
      BY <3>1 DEF Intake!NoIntake, IntakeTask, Intake!NoCycle
  <2>2. CASE Intake!Done(d)
    BY <2>2, IntakeIdle DEF Intake!Done
  <2>3. CASE Intake!Raises(d)
    <3>1. intake' = [intake EXCEPT ![d] = Intake!NoIntake]
          \/ intake' = [intake EXCEPT ![d] = again]
      BY <2>3 DEF Intake!Raises
    <3> HIDE DEF again
    <3> QED
      BY <2>1, <3>1, IntakeIdle
  <2> QED
    BY <2>2, <2>3
<1>3. intake'[d] = to /\ lock' = Intake!Released(d)
  BY <1>1, <1>2 DEF Intake!Done, Intake!Raises
<1>4. ~Intake!Holding(d)'
  BY <1>2, <1>3 DEF Intake!Holding
<1> QED
  BY <1>2, <1>3, <1>4, TaskMoves

LEMMA TaskLocks ==
  ASSUME IntakeInv, NEW d \in Tasks, NEW message \in IntakeTask, Intake!Locks(d, message),
         ~Intake!Holding(d), UNCHANGED <<ticket, sync, lapsed>>, inbox' \subseteq inbox,
         UNCHANGED queued
  PROVE  IntakeInv'
<1> DEFINE to == [message EXCEPT !.pc = "read"]
<1>1. intake \in [Tasks -> IntakeTask]
  BY DEF IntakeInv, IntakeTyped
<1>2. to \in IntakeTask /\ to.pc = "read"
  BY DEF IntakeTask
<1>3. CASE lock = "free"
  <2>1. lock' = d /\ intake' = [intake EXCEPT ![d] = to]
    BY <1>3 DEF Intake!Locks, Intake!Free
  <2> HIDE DEF to
  <2> QED
    BY <1>2, <1>3, <2>1, TaskMoves
<1>4. CASE lock # "free"
  <2>1. lock' = lock /\ intake' = [intake EXCEPT ![d] = Intake!NoIntake]
    BY <1>4 DEF Intake!Locks, Intake!Free
  <2>2. ~Intake!Holding(d)'
    BY <1>1, <2>1, IntakeIdle DEF Intake!Holding
  <2>3. PICK idle \in IntakeTask : idle = Intake!NoIntake
    BY IntakeIdle
  <2> QED
    BY <2>1, <2>2, <2>3, IntakeIdle, TaskMoves
<1> QED
  BY <1>3, <1>4

(***************************************************************************)
(* A task goes on to another step that arms nothing.                       *)
(***************************************************************************)
LEMMA TaskGoesOn ==
  ASSUME IntakeInv, NEW d \in Tasks, Intake!Holding(d), NEW to \in IntakeTask,
         intake' = [intake EXCEPT ![d] = to], UNCHANGED lock,
         UNCHANGED <<ticket, sync, lapsed>>, UNCHANGED inbox, UNCHANGED queued,
         to.pc = "insert" => ArmedIds = {},
         to.pc = "revive" => ArmedIds \subseteq {to.row}
  PROVE  IntakeInv'
  BY TaskMoves

LEMMA ReceiveKeeps ==
  ASSUME IntakeInv, NEW d \in Tasks, Intake!Receive(d) PROVE IntakeInv'
<1>1. PICK e \in inbox : /\ inbox' = inbox \ {e}
                         /\ Intake!Locks(d, [Intake!NoIntake EXCEPT !.entry = e])
  BY DEF Intake!Receive
<1>2. /\ UNCHANGED <<ticket, sync, lapsed>> /\ UNCHANGED queued /\ ~Intake!Holding(d)
      /\ inbox' \subseteq inbox /\ e \in Nat
  BY <1>1 DEF Intake!Receive, Intake!recordVars, Intake!Holding, IntakeInv, IntakeTyped
<1>3. [Intake!NoIntake EXCEPT !.entry = e] \in IntakeTask
  BY <1>2 DEF Intake!NoIntake, IntakeTask, Intake!NoCycle
<1> QED
  BY <1>1, <1>2, <1>3, TaskLocks

LEMMA RetryKeeps ==
  ASSUME IntakeInv, NEW d \in Tasks, Intake!Retry(d) PROVE IntakeInv'
<1>1. /\ UNCHANGED <<ticket, sync, lapsed>> /\ UNCHANGED queued /\ ~Intake!Holding(d)
      /\ UNCHANGED inbox /\ Intake!Locks(d, intake[d]) /\ intake[d] \in IntakeTask
  BY DEF Intake!Retry, Intake!recordVars, Intake!providerVars, Intake!Holding, IntakeInv,
         IntakeTyped
<1> QED
  BY <1>1, TaskLocks

LEMMA ReadKeeps ==
  ASSUME IntakeInv, NEW d \in Tasks, Intake!Read(d) PROVE IntakeInv'
<1>1. /\ UNCHANGED <<ticket, sync, lapsed>> /\ UNCHANGED queued /\ Intake!Holding(d)
      /\ UNCHANGED inbox /\ intake[d] \in IntakeTask
  BY DEF Intake!Read, Intake!recordVars, Intake!providerVars, Intake!Holding, IntakeInv,
         IntakeTyped
<1>2. CASE Intake!Done(d)
  BY <1>1, <1>2, TaskEnds
<1>3. CASE Intake!Goes(d, "open") /\ UNCHANGED lock
  <2> DEFINE to == [intake[d] EXCEPT !.pc = "open"]
  <2>1. to \in IntakeTask /\ to.pc = "open" /\ intake' = [intake EXCEPT ![d] = to]
    BY <1>1, <1>3 DEF Intake!Goes, IntakeTask
  <2> HIDE DEF to
  <2> QED
    BY <1>1, <1>3, <2>1, TaskGoesOn
<1> QED
  BY <1>2, <1>3 DEF Intake!Read

LEMMA OpenKeeps ==
  ASSUME IntakeInv, NEW d \in Tasks, Intake!Open(d) PROVE IntakeInv'
<1>1. /\ UNCHANGED <<ticket, sync, lapsed>> /\ UNCHANGED queued /\ Intake!Holding(d)
      /\ UNCHANGED inbox /\ intake[d] \in IntakeTask
  BY DEF Intake!Open, Intake!providerVars, Intake!Holding, IntakeInv, IntakeTyped
<1>2. CASE Intake!Done(d)
  BY <1>1, <1>2, TaskEnds
<1>3. CASE ~Intake!Done(d)
  <2> DEFINE c == Intake!CycleFor(intake[d].entry)
             to == [intake[d] EXCEPT !.pc = "get", !.cycle = c]
  <2>1. c \in Nat
    BY <1>1, CycleIsNat DEF IntakeTask
  <2>2. intake' = [intake EXCEPT ![d] = to] /\ UNCHANGED lock
    BY <1>1, <1>3 DEF Intake!Open, IntakeTask
  <2> HIDE DEF c
  <2>3. to \in IntakeTask /\ to.pc = "get"
    BY <1>1, <2>1 DEF IntakeTask
  <2> HIDE DEF to
  <2> QED
    BY <1>1, <2>2, <2>3, TaskGoesOn
<1> QED
  BY <1>2, <1>3

LEMMA GetKeeps ==
  ASSUME IntakeInv, NEW d \in Tasks, Intake!Get(d) PROVE IntakeInv'
<1>1. /\ UNCHANGED <<ticket, sync, lapsed>> /\ UNCHANGED queued /\ Intake!Holding(d)
      /\ UNCHANGED inbox /\ intake[d] \in IntakeTask
  BY DEF Intake!Get, Intake!recordVars, Intake!providerVars, Intake!Holding, IntakeInv,
         IntakeTyped
<1>2. CASE queued = {} /\ Intake!Goes(d, "insert") /\ UNCHANGED lock
  <2> DEFINE to == [intake[d] EXCEPT !.pc = "insert"]
  <2>1. to \in IntakeTask /\ to.pc = "insert" /\ intake' = [intake EXCEPT ![d] = to]
    BY <1>1, <1>2 DEF Intake!Goes, IntakeTask
  <2>2. ArmedIds = {}
    BY <1>2 DEF ArmedIds
  <2> HIDE DEF to
  <2> QED
    BY <1>1, <1>2, <2>1, <2>2, TaskGoesOn
<1>3. ASSUME Cardinality(queued) = 1, UNCHANGED lock, NEW r \in queued,
             intake' = [intake EXCEPT
                ![d].pc = IF Intake!Revivable(r) THEN "revive" ELSE "attach", ![d].row = r.id]
      PROVE  IntakeInv'
  <2> DEFINE to == [intake[d] EXCEPT
                !.pc = IF Intake!Revivable(r) THEN "revive" ELSE "attach", !.row = r.id]
  <2>1. queued = {r} /\ r.id \in Nat
    BY <1>3, OneRow DEF IntakeInv, IntakeTyped, IntakeRow
  <2>2. intake' = [intake EXCEPT ![d] = to]
    BY <1>1, <1>3 DEF IntakeTask
  <2>3. to \in IntakeTask /\ to.pc \in {"revive", "attach"} /\ to.row = r.id
    BY <1>1, <2>1 DEF IntakeTask
  <2>4. ArmedIds \subseteq {r.id}
    BY <2>1 DEF ArmedIds
  <2> HIDE DEF to
  <2> QED
    BY <1>1, <1>3, <2>2, <2>3, <2>4, TaskGoesOn
<1>4. CASE Intake!Raises(d)
  BY <1>1, <1>4, TaskEnds
<1>5. CASE /\ Cardinality(queued) = 1 /\ UNCHANGED lock
           /\ \E r \in queued :
                intake' = [intake EXCEPT
                  ![d].pc = IF Intake!Revivable(r) THEN "revive" ELSE "attach", ![d].row = r.id]
  BY <1>3, <1>5
<1> QED
  BY <1>2, <1>4, <1>5, SameCount DEF Intake!Get

LEMMA KillKeeps ==
  ASSUME IntakeInv, NEW d \in Tasks, Intake!Kill(d) PROVE IntakeInv'
<1>1. /\ UNCHANGED <<ticket, sync, lapsed>> /\ UNCHANGED queued /\ UNCHANGED lock
      /\ UNCHANGED inbox /\ intake' = [intake EXCEPT ![d] = Intake!NoIntake]
      /\ intake \in [Tasks -> IntakeTask]
  BY DEF Intake!Kill, Intake!recordVars, Intake!providerVars, IntakeInv, IntakeTyped
<1>2. ~Intake!Holding(d)'
  BY <1>1, IntakeIdle DEF Intake!Holding
<1>3. PICK idle \in IntakeTask : idle = Intake!NoIntake
  BY IntakeIdle
<1> QED
  BY <1>1, <1>2, <1>3, IntakeIdle, TaskMoves

(***************************************************************************)
(* A task that arms a row holds the lock, so no other task is about to arm *)
(* one.                                                                    *)
(***************************************************************************)
LEMMA ArmingIsExclusive ==
  ASSUME IntakeInv, NEW d \in Tasks, Intake!Holding(d), NEW to \in IntakeTask,
         intake' = [intake EXCEPT ![d] = to], to.pc = "attach",
         UNCHANGED <<ticket, inbox, lock, sync, lapsed>>,
         queued' \subseteq IntakeRow, \A r \in queued' : r.id \in 1..MaxRows, IdsDiffer',
         ~lapsed => \A i, j \in ArmedIds' : i = j
  PROVE  IntakeInv'
<1>1. /\ intake' \in [Tasks -> IntakeTask] /\ intake'[d] = to
      /\ \A e \in Tasks \ {d} : intake'[e] = intake[e]
  BY DEF IntakeInv, IntakeTyped
<1>2. IntakeTyped'
  BY <1>1 DEF IntakeInv, IntakeTyped
<1>3. ASSUME ~lapsed, NEW e \in Tasks PROVE TaskHolds(e)' /\ ArmsAlone(e)'
  <2>1. TaskHolds(e) /\ lock = d
    BY <1>3 DEF IntakeInv, TaskHolds
  <2>2. CASE e = d
    BY <1>1, <2>1, <2>2 DEF TaskHolds, ArmsAlone
  <2>3. CASE e # d
    <3>1. ~Intake!Holding(e) /\ intake'[e] = intake[e]
      BY <1>1, <2>1, <2>3 DEF TaskHolds
    <3> QED
      BY <3>1 DEF TaskHolds, ArmsAlone, Intake!Holding
  <2> QED
    BY <2>2, <2>3
<1> QED
  BY <1>2, <1>3 DEF IntakeInv, Intake!IntakeAssumption

LEMMA InsertKeeps ==
  ASSUME IntakeInv, NEW d \in Tasks, Intake!Insert(d) PROVE IntakeInv'
<1> DEFINE id == Intake!Min(Intake!Fresh)
           new == [id |-> id, cycle |-> 0, status |-> "pending", armed |-> TRUE]
           to == [intake[d] EXCEPT !.pc = "attach", !.row = id]
<1>1. /\ UNCHANGED <<ticket, inbox, lock, sync, lapsed>> /\ intake[d].pc = "insert"
      /\ intake[d] \in IntakeTask /\ MaxRows \in Nat
      /\ Intake!Fresh # {}
  BY DEF Intake!Insert, Intake!providerVars, IntakeInv, IntakeTyped, Intake!IntakeAssumption
<1>2. id \in 1..MaxRows /\ \A r \in queued : r.id # id
  BY <1>1, FreshId DEF IntakeInv
<1>3. queued' = queued \union {new} /\ intake' = [intake EXCEPT ![d] = to]
  BY <1>1 DEF Intake!Insert, Intake!NewRow, Intake!NoCycle, IntakeTask
<1> HIDE DEF id
<1>4. new \in IntakeRow /\ new.id = id
  BY <1>1, <1>2 DEF IntakeRow
<1>5. to \in IntakeTask /\ to.pc = "attach"
  <2>1. id \in Nat
    BY <1>1, <1>2
  <2> QED
    BY <1>1, <2>1 DEF IntakeTask
<1> HIDE DEF to, new
<1>6. queued' \subseteq IntakeRow /\ \A r \in queued' : r.id \in 1..MaxRows
  BY <1>2, <1>3, <1>4 DEF IntakeInv, IntakeTyped
<1>7. IdsDiffer'
  BY <1>2, <1>3, <1>4 DEF IntakeInv, IdsDiffer
<1>8. ~lapsed => ArmedIds' \subseteq {id}
  BY <1>1, <1>3, <1>4 DEF IntakeInv, ArmsAlone, ArmedIds
<1>9. Intake!Holding(d) /\ (~lapsed => \A i, j \in ArmedIds' : i = j)
  BY <1>1, <1>8 DEF Intake!Holding
<1> QED
  BY <1>1, <1>3, <1>5, <1>6, <1>7, <1>9, ArmingIsExclusive

(***************************************************************************)
(* Rows that are rewritten keep their identifiers.                         *)
(***************************************************************************)
LEMMA RowFound ==
  ASSUME IntakeInv, NEW id, Intake!Row(id) # {}
  PROVE  \E r \in queued : r.id = id /\ Intake!Row(id) = {r}
  BY DEF IntakeInv, IdsDiffer, Intake!Row

LEMMA ReviveKeeps ==
  ASSUME IntakeInv, NEW d \in Tasks, Intake!Revive(d) PROVE IntakeInv'
<1> DEFINE found == Intake!Row(intake[d].row)
<1>1. /\ UNCHANGED <<ticket, sync, lapsed>> /\ intake[d].pc = "revive"
      /\ UNCHANGED inbox /\ intake[d] \in IntakeTask /\ Intake!Holding(d)
  BY DEF Intake!Revive, Intake!providerVars, Intake!Holding, IntakeInv, IntakeTyped
<1>2. CASE found = {}
  BY <1>1, <1>2, TaskEnds DEF Intake!Revive
<1>3. CASE found # {}
  <2> DEFINE to == [intake[d] EXCEPT !.pc = "attach"]
  <2>1. PICK r \in queued : r.id = intake[d].row /\ found = {r}
    BY <1>3, RowFound
  <2> DEFINE new == [r EXCEPT !.status = "pending", !.armed = TRUE]
  <2>2. r \in IntakeRow
    BY DEF IntakeInv, IntakeTyped
  <2>3. new \in IntakeRow /\ new.id = r.id
    BY <2>2 DEF IntakeRow
  <2>4. queued' = (queued \ {r}) \union {new} /\ UNCHANGED lock
        /\ intake' = [intake EXCEPT ![d] = to]
    BY <1>1, <1>3, <2>1 DEF Intake!Revive, Intake!Goes, IntakeTask
  <2>5. to \in IntakeTask /\ to.pc = "attach"
    BY <1>1 DEF IntakeTask
  <2> HIDE DEF to, new
  <2>6. queued' \subseteq IntakeRow /\ \A s \in queued' : s.id \in 1..MaxRows
    BY <2>3, <2>4 DEF IntakeInv, IntakeTyped
  <2>7. IdsDiffer'
    BY <2>3, <2>4 DEF IntakeInv, IdsDiffer
  <2>8. ~lapsed => ArmedIds' \subseteq {r.id}
    BY <1>1, <2>1, <2>3, <2>4 DEF IntakeInv, ArmsAlone, ArmedIds
  <2> QED
    BY <1>1, <2>4, <2>5, <2>6, <2>7, <2>8, ArmingIsExclusive
<1> QED
  BY <1>2, <1>3

LEMMA AttachKeeps ==
  ASSUME IntakeInv, NEW d \in Tasks, Intake!Attach(d) PROVE IntakeInv'
<1> DEFINE found == Intake!Row(intake[d].row)
           c == intake[d].cycle
<1>1. /\ UNCHANGED <<ticket, sync, lapsed>> /\ intake[d].pc = "attach"
      /\ UNCHANGED inbox /\ intake[d] \in IntakeTask /\ c \in Nat
      /\ intake \in [Tasks -> IntakeTask]
  BY DEF Intake!Attach, Intake!providerVars, IntakeInv, IntakeTyped, IntakeTask
<1>2. CASE UNCHANGED queued
  BY <1>1, <1>2, TaskEnds DEF Intake!Attach
<1>3. CASE ~UNCHANGED queued
  <2>1. /\ Intake!Done(d) /\ found # {}
        /\ queued' = (queued \ found) \union {[r EXCEPT !.cycle = c] : r \in found}
    BY <1>3 DEF Intake!Attach
  <2>2. PICK r \in queued : found = {r}
    BY <2>1, RowFound
  <2> DEFINE new == [r EXCEPT !.cycle = c]
  <2>3. r \in IntakeRow
    BY DEF IntakeInv, IntakeTyped
  <2>4. new \in IntakeRow /\ new.id = r.id /\ new.armed = r.armed
    BY <1>1, <2>3 DEF IntakeRow
  <2>5. queued' = (queued \ {r}) \union {new}
    BY <2>1, <2>2
  <2> HIDE DEF new
  <2>6. queued' \subseteq IntakeRow /\ \A s \in queued' : s.id \in 1..MaxRows
    BY <2>4, <2>5 DEF IntakeInv, IntakeTyped
  <2>7. IdsDiffer' /\ ArmedIds' \subseteq ArmedIds
    BY <2>4, <2>5 DEF IntakeInv, IdsDiffer, ArmedIds
  <2>8. /\ intake' \in [Tasks -> IntakeTask] /\ intake'[d] = Intake!NoIntake
        /\ \A e \in Tasks \ {d} : intake'[e] = intake[e]
        /\ lock' = Intake!Released(d)
    BY <1>1, <2>1, IntakeIdle DEF Intake!Done
  <2>9. IntakeTyped'
    BY <1>1, <2>6, <2>8 DEF IntakeInv, IntakeTyped, Intake!Released, Intake!Free
  <2>10. ASSUME ~lapsed, NEW e \in Tasks PROVE TaskHolds(e)' /\ ArmsAlone(e)'
    <3>1. TaskHolds(e) /\ ArmsAlone(e)
      BY <2>10 DEF IntakeInv
    <3>2. CASE e = d
      BY <2>8, <3>2, IntakeIdle DEF TaskHolds, ArmsAlone, Intake!Holding
    <3>3. CASE e # d
      BY <2>7, <2>8, <3>1, <3>3 DEF TaskHolds, ArmsAlone, Intake!Holding, Intake!Released,
                                    Intake!Free
    <3> QED
      BY <3>2, <3>3
  <2> QED
    BY <1>1, <2>7, <2>9, <2>10, NobodyArms
<1> QED
  BY <1>2, <1>3

(***************************************************************************)
(* The synchronization arms no row.                                        *)
(***************************************************************************)
LEMMA SyncKeeps ==
  ASSUME IntakeInv, Intake!SyncStep \/ Intake!SyncDies PROVE IntakeInv'
<1>1. UNCHANGED <<ticket, inbox, lock, intake, lapsed>> /\ sync \in IntakeSync
      /\ ticket.entry \in Nat /\ MaxRows \in Nat
  BY DEF Intake!SyncStep, Intake!SyncDies, Intake!Search, Intake!PrefetchRows,
         Intake!PrefetchAssigned, Intake!SyncRevive, Intake!SyncOpen, Intake!SyncInsert,
         Intake!providerVars, IntakeInv, IntakeTyped, Intake!IntakeAssumption
<1>2. Intake!NoSync \in IntakeSync
  BY DEF Intake!NoSync, IntakeSync, Intake!NoCycle
<1>3. CASE UNCHANGED queued
  <2>1. sync' \in IntakeSync
    <3>1. CASE Intake!Search
      BY <1>1, <1>2, <3>1 DEF Intake!Search, IntakeSync
    <3>2. CASE Intake!PrefetchRows
      <4>1. \A r \in queued : r.id \in Nat /\ Intake!Revivable(r) \in BOOLEAN
        BY DEF IntakeInv, IntakeTyped, IntakeRow, Intake!Revivable
      <4>2. \/ sync' = [sync EXCEPT !.pc = "assigned"]
            \/ \E r \in queued :
                sync' = [sync EXCEPT !.pc = "assigned", !.row = r.id,
                                     !.failed = Intake!Revivable(r)]
        BY <3>2 DEF Intake!PrefetchRows
      <4> QED
        BY <1>1, <4>1, <4>2 DEF IntakeSync
    <3>3. CASE Intake!PrefetchAssigned
      BY <1>1, <1>2, <3>3 DEF Intake!PrefetchAssigned, IntakeSync
    <3>4. CASE Intake!SyncRevive \/ Intake!SyncInsert \/ Intake!SyncDies
      BY <1>2, <3>4 DEF Intake!SyncRevive, Intake!SyncInsert, Intake!SyncDies
    <3>5. CASE Intake!SyncOpen
      <4>1. Intake!CycleFor(sync.entry) \in Nat
        BY <1>1, CycleIsNat DEF IntakeSync
      <4> QED
        BY <1>1, <1>2, <3>5, <4>1 DEF Intake!SyncOpen, IntakeSync
    <3> QED
      BY <3>1, <3>2, <3>3, <3>4, <3>5 DEF Intake!SyncStep
  <2>2. IntakeTyped'
    BY <1>1, <1>3, <2>1 DEF IntakeInv, IntakeTyped
  <2> QED
    BY <1>1, <1>3, <2>2, SameRows, SameTasks
<1>4. CASE Intake!SyncRevive
  <2> DEFINE of(r) == IF r.id = sync.row
                      THEN [r EXCEPT !.status = "pending", !.armed = FALSE] ELSE r
  <2>1. queued' = {of(r) : r \in queued} /\ sync' = Intake!NoSync
    BY <1>4 DEF Intake!SyncRevive
  <2>2. \A r \in queued : of(r) \in IntakeRow /\ of(r).id = r.id /\ (of(r).armed => r.armed)
    BY DEF IntakeInv, IntakeTyped, IntakeRow
  <2> HIDE DEF of
  <2>3. IntakeTyped'
    BY <1>1, <1>2, <2>1, <2>2 DEF IntakeInv, IntakeTyped
  <2>4. IdsDiffer' /\ ArmedIds' \subseteq ArmedIds
    BY <2>1, <2>2 DEF IntakeInv, IdsDiffer, ArmedIds
  <2> QED
    BY <1>1, <2>3, <2>4, SameTasks
<1>5. CASE Intake!SyncInsert /\ ~UNCHANGED queued
  <2> DEFINE id == Intake!Min(Intake!Fresh)
             new == [id |-> id, cycle |-> sync.cycle, status |-> "pending", armed |-> FALSE]
  <2>1. id \in 1..MaxRows /\ \A r \in queued : r.id # id
    BY <1>5, FreshId DEF IntakeInv, Intake!SyncInsert
  <2>2. queued' = queued \union {new} /\ sync' = Intake!NoSync
    BY <1>5 DEF Intake!SyncInsert, Intake!SyncRow, Intake!NewRow
  <2> HIDE DEF id
  <2>3. new \in IntakeRow /\ new.id = id /\ ~new.armed
    BY <1>1, <2>1 DEF IntakeRow, IntakeSync
  <2> HIDE DEF new
  <2>4. IntakeTyped'
    BY <1>1, <1>2, <2>1, <2>2, <2>3 DEF IntakeInv, IntakeTyped
  <2>5. IdsDiffer' /\ ArmedIds' \subseteq ArmedIds
    BY <2>1, <2>2, <2>3 DEF IntakeInv, IdsDiffer, ArmedIds
  <2> QED
    BY <1>1, <2>4, <2>5, SameTasks
<1> QED
  BY <1>3, <1>4, <1>5
     DEF Intake!SyncStep, Intake!SyncDies, Intake!Search, Intake!PrefetchRows,
         Intake!PrefetchAssigned, Intake!SyncOpen, Intake!recordVars

LEMMA IntakeInitially == Intake!IntakeAssumption /\ Intake!Init => IntakeInv
<1> SUFFICES ASSUME Intake!IntakeAssumption, Intake!Init PROVE IntakeInv
  OBVIOUS
<1>1. queued = {} /\ intake = [d \in Tasks |-> Intake!NoIntake]
  BY DEF Intake!Init
<1>2. IntakeTyped
  BY <1>1, IntakeIdle
     DEF Intake!Init, IntakeTyped, Intake!NoSync, Intake!NoCycle, Intake!Free, IntakeSync
<1>3. IdsDiffer /\ ArmedIds = {}
  BY <1>1 DEF IdsDiffer, ArmedIds
<1>4. \A d \in Tasks : TaskHolds(d) /\ ArmsAlone(d)
  BY <1>1, <1>3, IntakeIdle DEF TaskHolds, ArmsAlone, Intake!Holding
<1> QED
  BY <1>2, <1>3, <1>4 DEF IntakeInv

LEMMA IntakeStep == IntakeInv /\ [Intake!Next]_Intake!vars => IntakeInv'
<1> SUFFICES ASSUME IntakeInv, [Intake!Next]_Intake!vars PROVE IntakeInv'
  OBVIOUS
<1>1. ASSUME NEW r \in queued, Intake!Match(r) PROVE IntakeInv'
  BY <1>1, MatchKeeps
<1>2. ASSUME NEW d \in Tasks, Intake!Receive(d) \/ Intake!Retry(d) \/ Intake!Read(d)
      PROVE  IntakeInv'
  BY <1>2, ReceiveKeeps, RetryKeeps, ReadKeeps
<1>3. ASSUME NEW d \in Tasks, Intake!Open(d) \/ Intake!Get(d) \/ Intake!Insert(d)
      PROVE  IntakeInv'
  BY <1>3, OpenKeeps, GetKeeps, InsertKeeps
<1>4. ASSUME NEW d \in Tasks, Intake!Revive(d) \/ Intake!Attach(d) \/ Intake!Kill(d)
      PROVE  IntakeInv'
  BY <1>4, ReviveKeeps, AttachKeeps, KillKeeps
<1>5. CASE UNCHANGED Intake!vars
  <2>1. UNCHANGED <<ticket, inbox, queued, lock, intake, sync, lapsed>>
    BY <1>5 DEF Intake!vars
  <2>2. IntakeTyped'
    BY <2>1 DEF IntakeInv, IntakeTyped
  <2> QED
    BY <2>1, <2>2, SameRows, SameTasks
<1> QED
  BY <1>1, <1>2, <1>3, <1>4, <1>5, EnvironmentKeeps, ClosureKeeps, ExpiryKeeps, SyncKeeps
     DEF Intake!Next

(***************************************************************************)
(* While no lock of the ticket lapsed, the ticket has at most one row that *)
(* is up for automatic assignment, for any tasks, entries and faults: the  *)
(* lock excludes a second task of the webhooks, and the synchronization,   *)
(* which takes no lock, arms none.                                         *)
(***************************************************************************)
THEOREM OneRowIsArmed == Intake!Spec => []OneArmedRow
<1>1. Intake!Init => IntakeInv
  BY IntakeInitially, GuardsAssumption
<1>2. IntakeInv => OneArmedRow
  <2> SUFFICES ASSUME IntakeInv, ~lapsed
               PROVE  Intake!Cardinality({r \in queued : r.armed}) <= 1
    BY DEF OneArmedRow, Intake!OneArmedRow
  <2> DEFINE A == {r \in queued : r.armed}
  <2>1. \A r, s \in A : r = s
    BY DEF IntakeInv, ArmedIds, IdsDiffer
  <2>2. CASE A = {}
    BY <2>2, SameCount, FS_EmptySet
  <2>3. CASE A # {}
    <3>1. PICK r \in A : A = {r}
      BY <2>1, <2>3
    <3>2. Cardinality({r}) = 1
      BY FS_Singleton
    <3> QED
      BY SMTT(30), <3>1, <3>2, SameCount
  <2> QED
    BY <2>2, <2>3
<1> QED
  BY <1>1, <1>2, IntakeStep, PTL DEF Intake!Spec

-----------------------------------------------------------------------------
(***************************************************************************)
(* AgentAvailability: a reservation rests on three answers of HubSpot.     *)
(***************************************************************************)
AgentReading == [by : Nat, of : [Agents -> Availability!Presences]]
AgentRow ==
    [eligible : BOOLEAN, available : BOOLEAN, since : Nat \cup {-1}, samples : Nat,
     observed : Nat \cup {-1}, fence : Nat]
Heartbeat ==
    [pc : {"idle", "leased", "veto", "asking", "read", "done"}, generation : Nat,
     forced : BOOLEAN, now : Nat, reading : AgentReading]
Candidate ==
    {[pc |-> "looking"]}
    \cup [pc : {"verified", "reserved"}, agent : Agents, said : Availability!Presences]

AvailabilityTyped ==
    /\ clock \in Nat /\ presence \in [Agents -> Availability!Presences]
    /\ enabled \in [Agents -> BOOLEAN]
    /\ lease \in [held : BOOLEAN, expires : Nat, generation : Nat]
    /\ cached \in [reading : AgentReading, expires : Nat]
    /\ agent \in [Agents -> AgentRow] /\ seen \in [Agents -> SUBSET Nat]
    /\ beat \in [Beats -> Heartbeat] /\ drain \in [Drains -> Candidate]

(***************************************************************************)
(* Heartbeats at work have generations of their own, which were given out; *)
(* one that asks will name its answer by its generation.                   *)
(***************************************************************************)
OwnGeneration(b) ==
    /\ beat[b].pc # "idle" =>
        /\ beat[b].generation \in 1..lease.generation
        /\ \A c \in Beats \ {b} : beat[c].pc # "idle" => beat[c].generation # beat[b].generation
    /\ beat[b].pc = "asking" => beat[b].reading.by = beat[b].generation

(***************************************************************************)
(* The reading g was answered, and n is a time at which it was in use: no  *)
(* heartbeat is still to name an answer g, and whoever has the reading     *)
(* uses it at a time that differs from n by less than a reading stays in   *)
(* the cache.                                                              *)
(***************************************************************************)
InUse(g, n) ==
    /\ g <= lease.generation
    /\ \A b \in Beats : beat[b].pc \in {"leased", "asking"} => beat[b].generation # g
    /\ \A b \in Beats : beat[b].pc = "read" /\ beat[b].reading.by = g =>
            beat[b].now - n < CacheTTL /\ n - beat[b].now < CacheTTL
    /\ cached.reading.by = g => n < cached.expires /\ cached.expires - CacheTTL <= n

CacheSound ==
    /\ cached.reading.by <= lease.generation /\ cached.expires <= clock + CacheTTL
    /\ \A b \in Beats :
        beat[b].pc \in {"leased", "asking"} => beat[b].generation # cached.reading.by

(***************************************************************************)
(* What was seen of an agent, and when its run of samples began.  While    *)
(* all of the run is one reading, found again in the cache, the run is     *)
(* shorter than a reading stays there.                                     *)
(***************************************************************************)
IsRun(x, readings) ==
    /\ x.since = -1 <=> readings = {}
    /\ x.since # -1 => x.available
    /\ x.eligible => \E r, s \in readings : r # s
    /\ \A g \in readings : (\A s \in readings : s = g) => InUse(g, x.since)
RunOfSamples(a) == IsRun(agent[a], seen[a])

ReadingInUse(b) == beat[b].pc = "read" => InUse(beat[b].reading.by, beat[b].now)

AvailabilityInv ==
    /\ Availability!TimesAssumption /\ AvailabilityTyped /\ CacheSound
    /\ \A b \in Beats : OwnGeneration(b) /\ ReadingInUse(b)
    /\ \A a \in Agents : RunOfSamples(a)
    /\ \A m \in Drains : drain[m].pc = "verified" => drain[m].said = "available"

(***************************************************************************)
(* Steps that write no row: every reading in use stays so.                 *)
(***************************************************************************)
LEMMA RowsStay ==
  ASSUME AvailabilityInv, AvailabilityTyped', CacheSound', UNCHANGED <<agent, seen, drain>>,
         \A g, n \in Nat : InUse(g, n) => InUse(g, n)',
         \A b \in Beats : OwnGeneration(b)' /\ ReadingInUse(b)'
  PROVE  AvailabilityInv'
<1>1. ASSUME NEW a \in Agents PROVE RunOfSamples(a)'
  <2>1. RunOfSamples(a) /\ seen[a] \in SUBSET Nat /\ agent[a] \in AgentRow
    BY DEF AvailabilityInv, AvailabilityTyped
  <2>2. ASSUME NEW g \in seen[a], \A s \in seen[a] : s = g PROVE InUse(g, agent[a].since)'
    <3>1. InUse(g, agent[a].since) /\ g \in Nat /\ agent[a].since \in Nat
      BY <2>1, <2>2 DEF RunOfSamples, IsRun, AgentRow
    <3>2. ASSUME NEW n \in Nat, n = agent[a].since PROVE InUse(g, agent[a].since)'
      <4>1. InUse(g, n)'
        BY <3>1, <3>2
      <4>2. n = agent'[a].since
        BY <3>2
      <4> QED
        BY <4>1, <4>2 DEF InUse
    <3> QED
      BY <3>1, <3>2
  <2>3. UNCHANGED agent /\ UNCHANGED seen
    OBVIOUS
  <2> QED
    BY <2>1, <2>2, <2>3 DEF RunOfSamples, IsRun
<1>2. Availability!TimesAssumption'
  BY DEF AvailabilityInv, Availability!TimesAssumption
<1>3. \A m \in Drains : drain'[m].pc = "verified" => drain'[m].said = "available"
  BY DEF AvailabilityInv
<1> QED
  BY <1>1, <1>2, <1>3 DEF AvailabilityInv

(***************************************************************************)
(* A heartbeat goes on with its generation.                                *)
(***************************************************************************)
LEMMA BeatMoves ==
  ASSUME AvailabilityInv, NEW b \in Beats, NEW to \in Heartbeat,
         beat' = [beat EXCEPT ![b] = to], to.pc # "idle" => beat[b].pc # "idle",
         to.pc # "idle" => to.generation = beat[b].generation,
         to.pc = "asking" => to.reading.by = to.generation,
         UNCHANGED lease \/ (lease' \in [held : BOOLEAN, expires : Nat, generation : Nat]
                             /\ lease'.generation = lease.generation)
  PROVE  /\ beat' \in [Beats -> Heartbeat] /\ beat'[b] = to
         /\ \A c \in Beats \ {b} : beat'[c] = beat[c]
         /\ \A c \in Beats : OwnGeneration(c)'
<1>1. /\ beat' \in [Beats -> Heartbeat] /\ beat'[b] = to
      /\ \A c \in Beats \ {b} : beat'[c] = beat[c]
  BY DEF AvailabilityInv, AvailabilityTyped
<1>2. lease'.generation = lease.generation
  OBVIOUS
<1>3. ASSUME NEW c \in Beats PROVE OwnGeneration(c)'
  <2>1. OwnGeneration(c) /\ OwnGeneration(b)
    BY DEF AvailabilityInv
  <2>2. CASE c = b
    BY <1>1, <1>2, <2>1, <2>2 DEF OwnGeneration
  <2>3. CASE c # b
    BY <1>1, <1>2, <2>1, <2>3 DEF OwnGeneration
  <2> QED
    BY <2>2, <2>3
<1> QED
  BY <1>1, <1>3

(***************************************************************************)
(* A heartbeat that neither asks nor gets an answer: what was in use stays *)
(* in use, if what it has from now on was.                                 *)
(***************************************************************************)
LEMMA BeatRests ==
  ASSUME AvailabilityInv, NEW b \in Beats, NEW to \in Heartbeat,
         beat' = [beat EXCEPT ![b] = to],
         to.pc \in {"leased", "asking"} => beat[b].pc = "leased",
         to.pc # "idle" => beat[b].pc # "idle",
         to.pc # "idle" => to.generation = beat[b].generation,
         to.pc = "asking" => to.reading.by = to.generation,
         to.pc # "read",
         UNCHANGED lease \/ (lease' \in [held : BOOLEAN, expires : Nat, generation : Nat]
                             /\ lease'.generation = lease.generation),
         UNCHANGED <<clock, presence, enabled, cached, agent, drain, seen>>
  PROVE  AvailabilityInv'
<1>1. /\ beat' \in [Beats -> Heartbeat] /\ beat'[b] = to
      /\ \A c \in Beats \ {b} : beat'[c] = beat[c]
      /\ \A c \in Beats : OwnGeneration(c)'
  BY BeatMoves
<1>2. AvailabilityTyped'
  BY <1>1 DEF AvailabilityInv, AvailabilityTyped
<1>3. lease'.generation = lease.generation /\ UNCHANGED cached /\ UNCHANGED clock
  OBVIOUS
<1>4. CacheSound'
  BY <1>1, <1>3 DEF AvailabilityInv, CacheSound
<1>5. ASSUME NEW g \in Nat, NEW n \in Nat, InUse(g, n) PROVE InUse(g, n)'
  BY <1>1, <1>3, <1>5 DEF InUse
<1>6. ASSUME NEW c \in Beats PROVE ReadingInUse(c)'
  <2>1. CASE c = b
    BY <1>1, <2>1 DEF ReadingInUse
  <2>2. CASE c # b
    <3> SUFFICES ASSUME beat[c].pc = "read" PROVE ReadingInUse(c)'
      BY <1>1, <2>2 DEF ReadingInUse
    <3>1. InUse(beat[c].reading.by, beat[c].now)
          /\ beat[c].reading.by \in Nat /\ beat[c].now \in Nat
      BY DEF AvailabilityInv, ReadingInUse, AvailabilityTyped, Heartbeat, AgentReading
    <3>2. PICK g \in Nat, n \in Nat : g = beat[c].reading.by /\ n = beat[c].now
      BY <3>1
    <3>3. InUse(g, n)'
      BY <1>5, <3>1, <3>2
    <3>4. g = beat'[c].reading.by /\ n = beat'[c].now
      BY <1>1, <2>2, <3>2
    <3> QED
      BY <3>3, <3>4 DEF ReadingInUse, InUse
  <2> QED
    BY <2>1, <2>2
<1> QED
  BY <1>1, <1>2, <1>4, <1>5, <1>6, RowsStay

LEMMA IdleBeat == Availability!Idle \in Heartbeat /\ Availability!Idle.pc = "idle"
  BY DEF Availability!Idle, Heartbeat, AgentReading, Availability!NoReading,
         Availability!Presences

LEMMA ReleasedLease ==
  ASSUME AvailabilityInv, NEW b \in Beats
  PROVE  /\ Availability!Released(b) \in [held : BOOLEAN, expires : Nat, generation : Nat]
         /\ Availability!Released(b).generation = lease.generation
  BY DEF Availability!Released, AvailabilityInv, AvailabilityTyped

(***************************************************************************)
(* A heartbeat ends, whatever it was at.                                   *)
(***************************************************************************)
LEMMA BeatEnds ==
  ASSUME AvailabilityInv, NEW b \in Beats,
         Availability!AskFails(b) \/ Availability!Release(b) \/ Availability!Crash(b)
  PROVE  AvailabilityInv'
<1>1. /\ beat' = [beat EXCEPT ![b] = Availability!Idle]
      /\ UNCHANGED <<clock, presence, enabled, cached, agent, drain, seen>>
      /\ lease' = lease \/ lease' = Availability!Released(b)
  BY DEF Availability!AskFails, Availability!Release, Availability!Crash
<1>2. PICK to \in Heartbeat : to = Availability!Idle /\ to.pc = "idle"
  BY IdleBeat
<1> QED
  BY <1>1, <1>2, ReleasedLease, BeatRests

LEMMA BeatAsks ==
  ASSUME AvailabilityInv, NEW b \in Beats, Availability!Ask(b) PROVE AvailabilityInv'
<1> DEFINE to == [beat[b] EXCEPT !.pc = "asking",
                                 !.reading = [by |-> beat[b].generation, of |-> presence]]
<1>1. /\ beat[b] \in Heartbeat /\ presence \in [Agents -> Availability!Presences]
      /\ beat[b].pc = "leased"
      /\ UNCHANGED <<clock, presence, enabled, lease, cached, agent, drain, seen>>
  BY DEF Availability!Ask, AvailabilityInv, AvailabilityTyped
<1>2. beat' = [beat EXCEPT ![b] = to]
  BY <1>1 DEF Availability!Ask, Heartbeat
<1>3. [by |-> beat[b].generation, of |-> presence] \in AgentReading
  BY <1>1 DEF AgentReading, Heartbeat
<1>4. /\ to \in Heartbeat /\ to.pc = "asking" /\ to.generation = beat[b].generation
      /\ to.reading.by = to.generation
  BY <1>1, <1>3 DEF Heartbeat
<1> HIDE DEF to
<1> QED
  BY <1>1, <1>2, <1>4, BeatRests

(***************************************************************************)
(* A reading out of the cache is in use now.                               *)
(***************************************************************************)
LEMMA CacheIsRead ==
  ASSUME AvailabilityInv, NEW b \in Beats, Availability!ReadCache(b) PROVE AvailabilityInv'
<1> DEFINE to == [beat[b] EXCEPT !.pc = "read", !.now = clock, !.reading = cached.reading]
<1>1. /\ beat[b] \in Heartbeat /\ cached \in [reading : AgentReading, expires : Nat]
      /\ beat[b].pc = "leased" /\ clock \in Nat /\ cached.expires > clock
      /\ CacheTTL \in Nat /\ CacheTTL > 0
      /\ UNCHANGED <<clock, presence, enabled, lease, cached, agent, drain, seen>>
  BY DEF Availability!ReadCache, AvailabilityInv, AvailabilityTyped, Availability!TimesAssumption
<1>2. beat' = [beat EXCEPT ![b] = to]
  BY <1>1 DEF Availability!ReadCache, Heartbeat
<1>3. /\ to \in Heartbeat /\ to.pc = "read" /\ to.generation = beat[b].generation
      /\ to.reading = cached.reading /\ to.now = clock
  BY <1>1 DEF Heartbeat
<1> HIDE DEF to
<1>4. /\ beat' \in [Beats -> Heartbeat] /\ beat'[b] = to
      /\ \A c \in Beats \ {b} : beat'[c] = beat[c]
      /\ \A c \in Beats : OwnGeneration(c)'
  BY <1>1, <1>2, <1>3, BeatMoves
<1>5. AvailabilityTyped'
  BY <1>1, <1>4 DEF AvailabilityInv, AvailabilityTyped
<1>6. UNCHANGED lease /\ UNCHANGED cached /\ UNCHANGED clock
  BY <1>1
<1>7. CacheSound'
  BY <1>3, <1>4, <1>6 DEF AvailabilityInv, CacheSound
<1>8. \A c \in Beats : beat[c] \in Heartbeat /\ beat[c].now \in Nat
  BY DEF AvailabilityInv, AvailabilityTyped, Heartbeat
<1>9. cached.reading.by \in Nat /\ cached.expires \in Nat
      /\ cached.expires <= clock + CacheTTL
  BY <1>1 DEF AgentReading, AvailabilityInv, CacheSound
<1>10. ASSUME NEW g \in Nat, NEW n \in Nat, InUse(g, n) PROVE InUse(g, n)'
  BY <1>1, <1>3, <1>4, <1>6, <1>8, <1>9, <1>10 DEF InUse
<1>11. ASSUME NEW c \in Beats \ {b}, beat[c].pc = "read", beat[c].reading.by = cached.reading.by
       PROVE  beat[c].now - clock < CacheTTL /\ clock - beat[c].now < CacheTTL
  <2>1. InUse(beat[c].reading.by, beat[c].now)
    BY <1>11 DEF AvailabilityInv, ReadingInUse
  <2> QED
    BY <1>1, <1>8, <1>9, <1>11, <2>1 DEF InUse
<1>12. ASSUME NEW g \in Nat, NEW n \in Nat, g = cached.reading.by, n = clock
       PROVE  InUse(g, n)'
  BY <1>1, <1>3, <1>4, <1>6, <1>9, <1>11, <1>12 DEF InUse, AvailabilityInv, CacheSound
<1>13. ASSUME NEW c \in Beats PROVE ReadingInUse(c)'
  <2> SUFFICES ASSUME beat'[c].pc = "read" PROVE ReadingInUse(c)'
    BY DEF ReadingInUse
  <2>1. PICK g \in Nat, n \in Nat : g = beat'[c].reading.by /\ n = beat'[c].now
    BY <1>4 DEF Heartbeat, AgentReading
  <2>2. InUse(g, n)'
    <3>1. CASE c = b
      BY <1>3, <1>4, <1>12, <2>1, <3>1
    <3>2. CASE c # b
      <4>1. InUse(g, n)
        BY <1>4, <2>1, <3>2 DEF AvailabilityInv, ReadingInUse
      <4> QED
        BY <1>10, <4>1
    <3> QED
      BY <3>1, <3>2
  <2> QED
    BY <2>1, <2>2 DEF ReadingInUse, InUse
<1> QED
  BY <1>1, <1>4, <1>5, <1>7, <1>10, <1>13, RowsStay

(***************************************************************************)
(* The generation of a heartbeat that begins is new.                       *)
(***************************************************************************)
LEMMA BeatBegins ==
  ASSUME AvailabilityInv, NEW b \in Beats, Availability!Acquire(b) PROVE AvailabilityInv'
<1> DEFINE gen == lease.generation + 1
<1>1. /\ lease \in [held : BOOLEAN, expires : Nat, generation : Nat] /\ gen \in Nat
      /\ clock \in Nat /\ LeaseTTL \in Nat /\ beat[b].pc = "idle"
      /\ UNCHANGED <<clock, presence, enabled, cached, agent, drain, seen>>
      /\ lease' = [held |-> TRUE, expires |-> clock + LeaseTTL, generation |-> gen]
  BY DEF Availability!Acquire, AvailabilityInv, AvailabilityTyped, Availability!TimesAssumption
<1>2. /\ lease' \in [held : BOOLEAN, expires : Nat, generation : Nat]
      /\ lease'.generation = gen
  BY <1>1
<1>3. PICK forced \in BOOLEAN :
         beat' = [beat EXCEPT ![b] = [Availability!Idle EXCEPT
                     !.pc = IF open THEN "leased" ELSE "veto",
                     !.generation = lease'.generation, !.forced = forced]]
  BY DEF Availability!Acquire
<1> DEFINE to == [Availability!Idle EXCEPT
                     !.pc = IF open THEN "leased" ELSE "veto",
                     !.generation = lease'.generation, !.forced = forced]
<1>4. to \in Heartbeat /\ to.pc \in {"leased", "veto"} /\ to.generation = gen
  BY <1>1, <1>2 DEF Availability!Idle, Heartbeat, AgentReading, Availability!NoReading,
                    Availability!Presences
<1>5. beat' = [beat EXCEPT ![b] = to]
  BY <1>3
<1> HIDE DEF to
<1>6. /\ beat' \in [Beats -> Heartbeat] /\ beat'[b] = to
      /\ \A c \in Beats \ {b} : beat'[c] = beat[c]
  BY <1>4, <1>5 DEF AvailabilityInv, AvailabilityTyped
<1>7. AvailabilityTyped'
  BY <1>1, <1>2, <1>6 DEF AvailabilityInv, AvailabilityTyped
<1>8. \A c \in Beats : beat[c].pc # "idle" => beat[c].generation \in 1..lease.generation
  BY DEF AvailabilityInv, OwnGeneration
<1>9. ASSUME NEW c \in Beats PROVE OwnGeneration(c)'
  <2>1. CASE c = b
    BY <1>1, <1>2, <1>4, <1>6, <1>8, <2>1 DEF OwnGeneration
  <2>2. CASE c # b
    <3>1. OwnGeneration(c)
      BY DEF AvailabilityInv
    <3> QED
      BY <1>1, <1>2, <1>4, <1>6, <1>8, <2>2, <3>1 DEF OwnGeneration
  <2> QED
    BY <2>1, <2>2
<1>10. UNCHANGED cached /\ UNCHANGED clock /\ cached.reading.by \in Nat
  BY <1>1 DEF AvailabilityInv, AvailabilityTyped, AgentReading
<1>11. CacheSound'
  BY <1>1, <1>2, <1>4, <1>6, <1>10 DEF AvailabilityInv, CacheSound
<1>12. ASSUME NEW g \in Nat, NEW n \in Nat, InUse(g, n) PROVE InUse(g, n)'
  BY <1>1, <1>2, <1>4, <1>6, <1>10, <1>12 DEF InUse
<1>13. ASSUME NEW c \in Beats PROVE ReadingInUse(c)'
  <2> SUFFICES ASSUME beat'[c].pc = "read" PROVE ReadingInUse(c)'
    BY DEF ReadingInUse
  <2>1. beat'[c] = beat[c] /\ beat[c].pc = "read"
    BY <1>4, <1>6
  <2>2. PICK g \in Nat, n \in Nat : g = beat'[c].reading.by /\ n = beat'[c].now
    BY <1>6 DEF Heartbeat, AgentReading
  <2>3. InUse(g, n)'
    BY <1>12, <2>1, <2>2 DEF AvailabilityInv, ReadingInUse
  <2> QED
    BY <2>2, <2>3 DEF ReadingInUse, InUse
<1> QED
  BY <1>1, <1>7, <1>9, <1>11, <1>12, <1>13, RowsStay

(***************************************************************************)
(* An answer is a reading that nobody has yet, in use from now on.         *)
(***************************************************************************)
LEMMA BeatIsAnswered ==
  ASSUME AvailabilityInv, NEW b \in Beats, Availability!Answer(b) PROVE AvailabilityInv'
<1> DEFINE to == [beat[b] EXCEPT !.pc = "read", !.now = clock]
           gen == beat[b].generation
<1>1. /\ beat[b] \in Heartbeat /\ beat[b].pc = "asking" /\ beat[b].reading.by = gen
      /\ gen \in Nat /\ clock \in Nat /\ CacheTTL \in Nat /\ CacheTTL > 0
      /\ beat[b].reading \in AgentReading /\ gen <= lease.generation
      /\ UNCHANGED <<clock, presence, enabled, lease, agent, drain, seen>>
      /\ cached' = [reading |-> beat[b].reading, expires |-> clock + CacheTTL]
  BY DEF Availability!Answer, AvailabilityInv, AvailabilityTyped, Availability!TimesAssumption,
         OwnGeneration, Heartbeat
<1>2. beat' = [beat EXCEPT ![b] = to]
  BY <1>1 DEF Availability!Answer, Heartbeat
<1>3. /\ to \in Heartbeat /\ to.pc = "read" /\ to.generation = gen /\ to.reading.by = gen
      /\ to.now = clock
  BY <1>1 DEF Heartbeat
<1> HIDE DEF to
<1>4. /\ beat' \in [Beats -> Heartbeat] /\ beat'[b] = to
      /\ \A c \in Beats \ {b} : beat'[c] = beat[c]
      /\ \A c \in Beats : OwnGeneration(c)'
  BY <1>1, <1>2, <1>3, BeatMoves
<1>5. /\ cached' \in [reading : AgentReading, expires : Nat]
      /\ cached'.reading.by = gen /\ cached'.expires = clock + CacheTTL
  BY <1>1
<1>6. AvailabilityTyped'
  BY <1>1, <1>4, <1>5 DEF AvailabilityInv, AvailabilityTyped
<1>7. \A c \in Beats \ {b} :
          beat[c].pc \in {"leased", "asking"} => beat[c].generation # gen
  BY <1>1 DEF AvailabilityInv, OwnGeneration
<1>8. CacheSound'
  <2>1. cached'.reading.by <= lease'.generation /\ cached'.expires <= clock' + CacheTTL
    BY <1>1, <1>5
  <2> QED
    BY <1>3, <1>4, <1>5, <1>7, <2>1 DEF CacheSound
<1>9. ASSUME NEW g \in Nat, NEW n \in Nat, InUse(g, n) PROVE InUse(g, n)'
  <2>1. g # gen
    BY <1>1, <1>9 DEF InUse
  <2>2. UNCHANGED lease
    BY <1>1
  <2> QED
    BY <1>3, <1>4, <1>5, <1>9, <2>1, <2>2 DEF InUse
<1>10. ASSUME NEW c \in Beats, beat[c].pc = "read" PROVE beat[c].reading.by # gen
  BY <1>1, <1>10 DEF AvailabilityInv, ReadingInUse, InUse
<1>11. ASSUME NEW g \in Nat, NEW n \in Nat, g = gen, n = clock PROVE InUse(g, n)'
  <2>1. g <= lease'.generation
    BY <1>1, <1>11
  <2>2. \A c \in Beats : beat'[c].pc \in {"leased", "asking"} => beat'[c].generation # g
    BY <1>3, <1>4, <1>7, <1>11
  <2>3. \A c \in Beats : beat'[c].pc = "read" /\ beat'[c].reading.by = g =>
            beat'[c].now - n < CacheTTL /\ n - beat'[c].now < CacheTTL
    BY <1>1, <1>3, <1>4, <1>10, <1>11
  <2>4. n < cached'.expires /\ cached'.expires - CacheTTL <= n
    BY <1>1, <1>5, <1>11
  <2> QED
    BY <2>1, <2>2, <2>3, <2>4 DEF InUse
<1>12. ASSUME NEW c \in Beats PROVE ReadingInUse(c)'
  <2> SUFFICES ASSUME beat'[c].pc = "read" PROVE ReadingInUse(c)'
    BY DEF ReadingInUse
  <2>1. PICK g \in Nat, n \in Nat : g = beat'[c].reading.by /\ n = beat'[c].now
    BY <1>4 DEF Heartbeat, AgentReading
  <2>2. InUse(g, n)'
    <3>1. CASE c = b
      BY <1>3, <1>4, <1>11, <2>1, <3>1
    <3>2. CASE c # b
      <4>1. InUse(g, n)
        BY <1>4, <2>1, <3>2 DEF AvailabilityInv, ReadingInUse
      <4> QED
        BY <1>9, <4>1
    <3> QED
      BY <3>1, <3>2
  <2> QED
    BY <2>1, <2>2 DEF ReadingInUse, InUse
<1> QED
  BY <1>1, <1>4, <1>6, <1>8, <1>9, <1>12, RowsStay

(***************************************************************************)
(* Time, and what people do.                                               *)
(***************************************************************************)
LEMMA BeatsRest ==
  ASSUME AvailabilityInv, UNCHANGED <<beat, cached, lease, agent, seen, drain>>,
         clock' \in Nat, clock <= clock', presence' \in [Agents -> Availability!Presences],
         enabled' \in [Agents -> BOOLEAN]
  PROVE  AvailabilityInv'
<1>1. AvailabilityTyped'
  BY DEF AvailabilityInv, AvailabilityTyped
<1>2. UNCHANGED beat /\ UNCHANGED cached /\ UNCHANGED lease
  OBVIOUS
<1>3. CacheSound'
  BY <1>2 DEF AvailabilityInv, CacheSound, AvailabilityTyped, Availability!TimesAssumption
<1>4. ASSUME NEW g \in Nat, NEW n \in Nat, InUse(g, n) PROVE InUse(g, n)'
  BY <1>2, <1>4 DEF InUse
<1>5. \A b \in Beats : OwnGeneration(b)' /\ ReadingInUse(b)'
  BY <1>2 DEF AvailabilityInv, OwnGeneration, ReadingInUse, InUse
<1> QED
  BY <1>1, <1>3, <1>4, <1>5, RowsStay

LEMMA PeopleKeep ==
  ASSUME AvailabilityInv, Availability!Tick \/ Availability!Change PROVE AvailabilityInv'
<1>1. /\ clock \in Nat /\ presence \in [Agents -> Availability!Presences]
      /\ enabled \in [Agents -> BOOLEAN]
  BY DEF AvailabilityInv, AvailabilityTyped
<1>2. CASE Availability!Tick
  BY <1>1, <1>2, BeatsRest DEF Availability!Tick
<1>3. CASE Availability!Change
  <2>1. presence' \in [Agents -> Availability!Presences]
    BY <1>1, <1>3 DEF Availability!Change
  <2>2. enabled' \in [Agents -> BOOLEAN]
    BY <1>1, <1>3 DEF Availability!Change
  <2> QED
    BY <1>1, <1>3, <2>1, <2>2, BeatsRest DEF Availability!Change
<1> QED
  BY <1>2, <1>3

(***************************************************************************)
(* Only a candidate of whom HubSpot says "available" is verified.          *)
(***************************************************************************)
LEMMA DrainsKeep ==
  ASSUME AvailabilityInv, NEW m \in Drains,
         Availability!Reserve(m) \/ \E a \in Agents : Availability!Verify(m, a)
  PROVE  AvailabilityInv'
<1>1. /\ UNCHANGED <<clock, presence, enabled, lease, cached, agent, beat, seen>>
      /\ drain \in [Drains -> Candidate] /\ presence \in [Agents -> Availability!Presences]
  BY DEF Availability!Reserve, Availability!Verify, AvailabilityInv, AvailabilityTyped
<1>2. PICK to \in Candidate : /\ drain' = [drain EXCEPT ![m] = to]
                              /\ to.pc = "verified" => to.said = "available"
  <2>1. CASE Availability!Reserve(m)
    <3>1. drain[m].pc = "verified" /\ drain[m] \in Candidate
      BY <1>1, <2>1 DEF Availability!Reserve
    <3>2. drain[m] \in [pc : {"verified", "reserved"}, agent : Agents,
                        said : Availability!Presences]
      BY <3>1 DEF Candidate
    <3>3. CASE drain' = [drain EXCEPT ![m] = [drain[m] EXCEPT !.pc = "reserved"]]
      <4>1. [drain[m] EXCEPT !.pc = "reserved"] \in Candidate
            /\ [drain[m] EXCEPT !.pc = "reserved"].pc = "reserved"
        BY <3>2 DEF Candidate
      <4> QED
        BY <3>3, <4>1
    <3>4. CASE drain' = [drain EXCEPT ![m] = [pc |-> "looking"]]
      <4>1. [pc |-> "looking"] \in Candidate /\ [pc |-> "looking"].pc = "looking"
        BY DEF Candidate
      <4> QED
        BY <3>4, <4>1
    <3> QED
      BY <1>1, <2>1, <3>3, <3>4 DEF Availability!Reserve, Availability!Looking
  <2>2. ASSUME NEW a \in Agents, Availability!Verify(m, a)
        PROVE  \E to \in Candidate : /\ drain' = [drain EXCEPT ![m] = to]
                                     /\ to.pc = "verified" => to.said = "available"
    <3> DEFINE said == [pc |-> "verified", agent |-> a, said |-> presence[a]]
    <3>1. said \in Candidate
      BY <1>1 DEF Candidate
    <3>2. [pc |-> "looking"] \in Candidate
      BY DEF Candidate
    <3>3. \/ drain' = [drain EXCEPT ![m] = said] /\ presence[a] = "available"
          \/ drain' = [drain EXCEPT ![m] = [pc |-> "looking"]]
      BY <2>2 DEF Availability!Verify, Availability!Admits, Availability!OneUser,
                  Availability!Looking
    <3> QED
      BY <3>1, <3>2, <3>3
  <2> QED
    BY <2>1, <2>2
<1>3. drain' \in [Drains -> Candidate] /\ drain'[m] = to
      /\ \A p \in Drains \ {m} : drain'[p] = drain[p]
  BY <1>1, <1>2
<1>4. AvailabilityTyped'
  BY <1>1, <1>3 DEF AvailabilityInv, AvailabilityTyped
<1>5. \A p \in Drains : drain'[p].pc = "verified" => drain'[p].said = "available"
  BY <1>2, <1>3 DEF AvailabilityInv
<1>6. UNCHANGED clock /\ UNCHANGED lease /\ UNCHANGED cached /\ UNCHANGED agent
      /\ UNCHANGED beat /\ UNCHANGED seen
  BY <1>1
<1>7. CacheSound' /\ Availability!TimesAssumption'
  BY <1>6 DEF AvailabilityInv, CacheSound, Availability!TimesAssumption
<1>8. \A b \in Beats : OwnGeneration(b)' /\ ReadingInUse(b)'
  BY <1>6 DEF AvailabilityInv, OwnGeneration, ReadingInUse, InUse
<1>9. \A a \in Agents : RunOfSamples(a)'
  BY <1>6 DEF AvailabilityInv, RunOfSamples, IsRun, InUse
<1> QED
  BY <1>4, <1>5, <1>7, <1>8, <1>9 DEF AvailabilityInv

(***************************************************************************)
(* A heartbeat writes the rows and is done.                                *)
(***************************************************************************)
LEMMA RowsWritten ==
  ASSUME AvailabilityInv, NEW b \in Beats, beat[b].pc \in {"read", "veto"},
         beat' = [beat EXCEPT ![b].pc = "done"],
         UNCHANGED <<clock, presence, enabled, lease, cached, drain>>,
         \A a \in Agents : agent'[a] \in AgentRow /\ seen'[a] \in SUBSET Nat,
         agent' = [a \in Agents |-> agent'[a]], seen' = [a \in Agents |-> seen'[a]],
         \A a \in Agents : IsRun(agent'[a], seen'[a])
  PROVE  AvailabilityInv'
<1> DEFINE to == [beat[b] EXCEPT !.pc = "done"]
<1>1. beat[b] \in Heartbeat /\ beat \in [Beats -> Heartbeat]
  BY DEF AvailabilityInv, AvailabilityTyped
<1>2. /\ to \in Heartbeat /\ to.pc = "done" /\ to.generation = beat[b].generation
      /\ beat' = [beat EXCEPT ![b] = to]
  BY <1>1 DEF Heartbeat
<1> HIDE DEF to
<1>3. /\ beat' \in [Beats -> Heartbeat] /\ beat'[b] = to
      /\ \A c \in Beats \ {b} : beat'[c] = beat[c]
      /\ \A c \in Beats : OwnGeneration(c)'
  BY <1>2, BeatMoves
<1>4. agent' \in [Agents -> AgentRow] /\ seen' \in [Agents -> SUBSET Nat]
  <2>1. [a \in Agents |-> agent'[a]] \in [Agents -> AgentRow]
    OBVIOUS
  <2>2. [a \in Agents |-> seen'[a]] \in [Agents -> SUBSET Nat]
    OBVIOUS
  <2> QED
    BY <2>1, <2>2
<1>5. UNCHANGED clock /\ UNCHANGED lease /\ UNCHANGED cached /\ UNCHANGED drain
      /\ UNCHANGED presence /\ UNCHANGED enabled
  OBVIOUS
<1>6. AvailabilityTyped'
  BY <1>3, <1>4, <1>5 DEF AvailabilityInv, AvailabilityTyped
<1>7. CacheSound' /\ Availability!TimesAssumption'
  BY <1>2, <1>3, <1>5 DEF AvailabilityInv, CacheSound, Availability!TimesAssumption
<1>8. ASSUME NEW g \in Nat, NEW n \in Nat, InUse(g, n) PROVE InUse(g, n)'
  BY <1>2, <1>3, <1>5, <1>8 DEF InUse
<1>9. ASSUME NEW c \in Beats PROVE ReadingInUse(c)'
  <2> SUFFICES ASSUME beat'[c].pc = "read" PROVE ReadingInUse(c)'
    BY DEF ReadingInUse
  <2>1. beat'[c] = beat[c]
    BY <1>2, <1>3
  <2>2. PICK g \in Nat, n \in Nat : g = beat'[c].reading.by /\ n = beat'[c].now
    BY <1>3 DEF Heartbeat, AgentReading
  <2>3. InUse(g, n)'
    BY <1>8, <2>1, <2>2 DEF AvailabilityInv, ReadingInUse
  <2> QED
    BY <2>2, <2>3 DEF ReadingInUse, InUse
<1>10. ASSUME NEW a \in Agents PROVE RunOfSamples(a)'
  <2>1. IsRun(agent'[a], seen'[a]) /\ seen'[a] \in SUBSET Nat /\ agent'[a] \in AgentRow
    OBVIOUS
  <2>2. ASSUME NEW g \in seen'[a], \A s \in seen'[a] : s = g
        PROVE  InUse(g, agent[a].since)'
    <3>1. InUse(g, agent'[a].since) /\ g \in Nat /\ agent'[a].since \in Nat
      BY <2>1, <2>2 DEF IsRun, AgentRow
    <3>2. PICK n \in Nat : n = agent'[a].since
      BY <3>1
    <3>3. InUse(g, n)'
      BY <1>8, <3>1, <3>2
    <3> QED
      BY <3>2, <3>3 DEF InUse
  <2> QED
    BY <2>1, <2>2 DEF RunOfSamples, IsRun
<1>11. \A m \in Drains : drain'[m].pc = "verified" => drain'[m].said = "available"
  BY <1>5 DEF AvailabilityInv
<1> QED
  BY <1>3, <1>6, <1>7, <1>9, <1>10, <1>11 DEF AvailabilityInv

(***************************************************************************)
(* A decision: a run that has settled is longer than one reading stays in  *)
(* the cache, so it holds a second one.                                    *)
(***************************************************************************)
LEMMA DecisionsAreRuns ==
  ASSUME AvailabilityInv, NEW b \in Beats, beat[b].pc = "read", NEW a \in Agents
  PROVE  /\ Availability!Decided(b, a) \in AgentRow
         /\ Availability!Found(b, a) =>
                IsRun(Availability!Decided(b, a), seen[a] \cup {beat[b].reading.by})
         /\ ~Availability!Found(b, a) => IsRun(Availability!Decided(b, a), {})
<1> DEFINE x == agent[a]
           g == beat[b].reading.by
           n == beat[b].now
           since == IF Availability!Continues(a) THEN x.since ELSE n
           samples == IF Availability!Continues(a) THEN x.samples + 1 ELSE 1
           y == Availability!Decided(b, a)
<1>1. /\ x \in AgentRow /\ seen[a] \in SUBSET Nat /\ g \in Nat /\ n \in Nat
      /\ beat[b] \in Heartbeat /\ enabled[a] \in BOOLEAN
      /\ RunOfSamples(a) /\ InUse(g, n)
  BY DEF AvailabilityInv, AvailabilityTyped, Heartbeat, AgentReading, ReadingInUse
<1>2. /\ CacheTTL \in Nat /\ CacheTTL > 0 /\ Stable \in Nat /\ Samples \in Nat
      /\ CacheTTL < Stable
  BY DEF AvailabilityInv, Availability!TimesAssumption
<1>3. /\ Availability!Continues(a) \in BOOLEAN /\ Availability!Found(b, a) \in BOOLEAN
      /\ Availability!Continues(a) <=> x.available /\ x.since # -1
      /\ Availability!Found(b, a) => beat[b].reading.of[a] = "available"
  BY <1>1 DEF Availability!Continues, Availability!Found, Availability!Never, AgentRow
<1>4. since \in Nat /\ samples \in Nat
  BY <1>1, <1>3 DEF AgentRow
<1>5. /\ y.eligible = (Availability!Found(b, a) /\ Availability!Settled(samples, n - since))
      /\ y.available = (beat[b].reading.of[a] \in {"available", "out"})
      /\ y.since = IF Availability!Found(b, a) THEN since ELSE -1
  BY DEF Availability!Decided, Availability!Never
<1>6. y \in AgentRow
  <2>1. /\ Availability!Settled(samples, n - since) \in BOOLEAN
        /\ beat[b].generation \in Nat
    BY <1>1, <1>2, <1>4 DEF Availability!Settled, Heartbeat
  <2>2. y = [eligible |-> Availability!Found(b, a)
                          /\ Availability!Settled(samples, n - since),
             available |-> beat[b].reading.of[a] \in {"available", "out"},
             since |-> IF Availability!Found(b, a) THEN since ELSE -1,
             samples |-> IF Availability!Found(b, a) THEN samples ELSE 0,
             observed |-> n, fence |-> beat[b].generation]
    BY DEF Availability!Decided, Availability!Never
  <2> HIDE DEF y, since, samples, n
  <2>3. n \in Nat
    BY <1>1 DEF n
  <2> QED
    BY <1>3, <1>4, <2>1, <2>2, <2>3 DEF AgentRow
<1>7. ASSUME Availability!Found(b, a)
      PROVE  IsRun(y, seen[a] \cup {g})
  <2> DEFINE S == seen[a] \cup {g}
  <2>1. y.since = since /\ since # -1 /\ y.available /\ S # {}
    <3>1. since \in Nat /\ since # -1
      BY <1>4
    <3>2. y.since = since /\ y.available
      BY <1>3, <1>5, <1>7
    <3> QED
      BY <3>1, <3>2
  <2>2. ASSUME NEW h \in S, \A s \in S : s = h PROVE InUse(h, y.since)
    <3>1. h = g
      BY <2>2
    <3>2. CASE Availability!Continues(a)
      <4>1. seen[a] # {} /\ y.since = x.since
        BY <1>1, <1>3, <2>1, <3>2 DEF RunOfSamples, IsRun
      <4>2. \A s \in seen[a] : s = g
        BY <2>2, <3>1
      <4> QED
        BY <1>1, <3>1, <4>1, <4>2 DEF RunOfSamples, IsRun
    <3>3. CASE ~Availability!Continues(a)
      BY <1>1, <2>1, <3>1, <3>3
    <3> QED
      BY <3>2, <3>3
  <2>3. ASSUME y.eligible PROVE \E r, s \in S : r # s
    <3>1. n - since >= Stable
      BY <1>5, <2>3 DEF Availability!Settled
    <3> SUFFICES ASSUME \A s \in S : s = g PROVE FALSE
      OBVIOUS
    <3>2. InUse(g, since)
      BY <2>1, <2>2
    <3>3. n - since < CacheTTL
      BY <3>2 DEF InUse
    <3> QED
      BY <1>1, <1>2, <1>4, <3>1, <3>3
  <2> QED
    BY <2>1, <2>2, <2>3 DEF IsRun
<1>8. ASSUME ~Availability!Found(b, a) PROVE IsRun(y, {})
  BY <1>5, <1>8 DEF IsRun
<1> QED
  BY <1>6, <1>7, <1>8

LEMMA BeatApplies ==
  ASSUME AvailabilityInv, NEW b \in Beats, Availability!Apply(b) PROVE AvailabilityInv'
<1>1. /\ beat[b].pc = "read" /\ beat' = [beat EXCEPT ![b].pc = "done"]
      /\ UNCHANGED <<clock, presence, enabled, lease, cached, drain>>
      /\ agent' = [a \in Agents |-> IF Availability!Overtaken(b, a) THEN agent[a]
                                    ELSE Availability!Decided(b, a)]
      /\ seen' = [a \in Agents |->
                    IF Availability!Overtaken(b, a) THEN seen[a]
                    ELSE IF Availability!Found(b, a) THEN seen[a] \cup {beat[b].reading.by}
                    ELSE {}]
  BY DEF Availability!Apply
<1>2. beat[b].reading.by \in Nat
  BY DEF AvailabilityInv, AvailabilityTyped, Heartbeat, AgentReading
<1>3. ASSUME NEW a \in Agents
      PROVE  /\ agent'[a] \in AgentRow /\ seen'[a] \in SUBSET Nat
             /\ IsRun(agent'[a], seen'[a])
  <2>1. agent[a] \in AgentRow /\ seen[a] \in SUBSET Nat /\ IsRun(agent[a], seen[a])
    BY DEF AvailabilityInv, AvailabilityTyped, RunOfSamples
  <2>2. CASE Availability!Overtaken(b, a)
    <3>1. agent'[a] = agent[a] /\ seen'[a] = seen[a]
      BY <1>1, <2>2
    <3> QED
      BY <2>1, <3>1
  <2>3. CASE ~Availability!Overtaken(b, a) /\ Availability!Found(b, a)
    <3>1. /\ agent'[a] = Availability!Decided(b, a)
          /\ seen'[a] = seen[a] \cup {beat[b].reading.by}
      BY <1>1, <2>3
    <3> QED
      BY <1>1, <1>2, <2>1, <2>3, <3>1, DecisionsAreRuns
  <2>4. CASE ~Availability!Overtaken(b, a) /\ ~Availability!Found(b, a)
    <3>1. agent'[a] = Availability!Decided(b, a) /\ seen'[a] = {}
      BY <1>1, <2>4
    <3> QED
      BY <1>1, <2>4, <3>1, DecisionsAreRuns
  <2> QED
    BY <2>2, <2>3, <2>4
<1>4. agent' = [a \in Agents |-> agent'[a]] /\ seen' = [a \in Agents |-> seen'[a]]
  BY <1>1
<1> QED
  BY <1>1, <1>3, <1>4, RowsWritten

(***************************************************************************)
(* A veto ends every run that it is not too late for.                      *)
(***************************************************************************)
LEMMA BeatVetoes ==
  ASSUME AvailabilityInv, NEW b \in Beats, Availability!Veto(b) PROVE AvailabilityInv'
<1>1. PICK due \in BOOLEAN :
         agent' = [a \in Agents |->
            IF ~Availability!Overtaken(b, a) /\ Availability!VetoWrites(a, due)
            THEN Availability!Vetoed(b, a) ELSE agent[a]]
  BY DEF Availability!Veto
<1>2. /\ beat[b].pc = "veto" /\ beat' = [beat EXCEPT ![b].pc = "done"]
      /\ UNCHANGED <<clock, presence, enabled, lease, cached, drain>>
      /\ seen' = [a \in Agents |-> IF Availability!Overtaken(b, a) THEN seen[a] ELSE {}]
      /\ beat[b].generation \in Nat
  BY DEF Availability!Veto, AvailabilityInv, AvailabilityTyped, Heartbeat
<1>3. ASSUME NEW a \in Agents
      PROVE  /\ agent'[a] \in AgentRow /\ seen'[a] \in SUBSET Nat
             /\ IsRun(agent'[a], seen'[a])
  <2>1. agent[a] \in AgentRow /\ seen[a] \in SUBSET Nat /\ IsRun(agent[a], seen[a])
    BY DEF AvailabilityInv, AvailabilityTyped, RunOfSamples
  <2>2. CASE Availability!Overtaken(b, a)
    <3>1. agent'[a] = agent[a] /\ seen'[a] = seen[a]
      BY <1>1, <1>2, <2>2
    <3> QED
      BY <2>1, <3>1
  <2>3. CASE ~Availability!Overtaken(b, a) /\ Availability!VetoWrites(a, due)
    <3>1. agent'[a] = Availability!Vetoed(b, a) /\ seen'[a] = {}
      BY <1>1, <1>2, <2>3
    <3>2. /\ Availability!Vetoed(b, a) \in AgentRow
          /\ Availability!Vetoed(b, a).since = -1 /\ ~Availability!Vetoed(b, a).eligible
      BY <1>2, <2>1 DEF Availability!Vetoed, Availability!Never, AgentRow
    <3> QED
      BY <3>1, <3>2 DEF IsRun
  <2>4. CASE ~Availability!Overtaken(b, a) /\ ~Availability!VetoWrites(a, due)
    <3>1. agent'[a] = agent[a] /\ seen'[a] = {}
      BY <1>1, <1>2, <2>4
    <3>2. agent[a].since = -1 /\ ~agent[a].eligible
      BY <2>4 DEF Availability!VetoWrites, Availability!Never
    <3> QED
      BY <2>1, <3>1, <3>2 DEF IsRun
  <2> QED
    BY <2>2, <2>3, <2>4
<1>4. agent' = [a \in Agents |-> agent'[a]] /\ seen' = [a \in Agents |-> seen'[a]]
  BY <1>1, <1>2
<1> QED
  BY <1>2, <1>3, <1>4, RowsWritten

LEMMA AvailabilityInitially ==
  Availability!TimesAssumption /\ Availability!Init => AvailabilityInv
<1> SUFFICES ASSUME Availability!TimesAssumption, Availability!Init PROVE AvailabilityInv
  OBVIOUS
<1>1. Availability!NoReading \in AgentReading /\ Availability!NoReading.by = 0
  BY DEF Availability!NoReading, AgentReading, Availability!Presences
<1>2. /\ cached = [reading |-> Availability!NoReading, expires |-> 0] /\ clock = 0
      /\ lease = [held |-> FALSE, expires |-> 0, generation |-> 0]
      /\ beat = [b \in Beats |-> Availability!Idle]
      /\ seen = [a \in Agents |-> {}]
      /\ drain = [m \in Drains |-> [pc |-> "looking"]]
  BY DEF Availability!Init, Availability!Looking
<1>3. agent \in [Agents -> AgentRow] /\ \A a \in Agents : agent[a].since = -1 /\ ~agent[a].eligible
  BY DEF Availability!Init, AgentRow, Availability!Never
<1>4. \A b \in Beats : beat[b].pc = "idle"
  BY <1>2, IdleBeat
<1>5. AvailabilityTyped
  <2>1. drain \in [Drains -> Candidate]
    BY <1>2 DEF Candidate
  <2>2. presence \in [Agents -> Availability!Presences] /\ enabled \in [Agents -> BOOLEAN]
    BY DEF Availability!Init
  <2> QED
    BY <1>1, <1>2, <1>3, <2>1, <2>2, IdleBeat DEF AvailabilityTyped
<1>6. CacheSound
  BY <1>1, <1>2, <1>4 DEF CacheSound, Availability!TimesAssumption
<1>7. \A b \in Beats : OwnGeneration(b) /\ ReadingInUse(b)
  BY <1>4 DEF OwnGeneration, ReadingInUse
<1>8. \A a \in Agents : RunOfSamples(a)
  BY <1>2, <1>3 DEF RunOfSamples, IsRun
<1>9. \A m \in Drains : drain[m].pc = "looking"
  BY <1>2
<1> QED
  BY <1>5, <1>6, <1>7, <1>8, <1>9 DEF AvailabilityInv

LEMMA AvailabilityStep ==
  AvailabilityInv /\ [Availability!Next]_Availability!vars => AvailabilityInv'
<1> SUFFICES ASSUME AvailabilityInv, [Availability!Next]_Availability!vars
             PROVE  AvailabilityInv'
  OBVIOUS
<1>1. ASSUME NEW b \in Beats, Availability!Step(b) PROVE AvailabilityInv'
  BY <1>1, BeatBegins, CacheIsRead, BeatAsks, BeatIsAnswered, BeatEnds, BeatApplies, BeatVetoes
     DEF Availability!Step
<1>2. ASSUME NEW m \in Drains,
             Availability!Reserve(m) \/ \E a \in Agents : Availability!Verify(m, a)
      PROVE  AvailabilityInv'
  BY <1>2, DrainsKeep
<1>3. CASE UNCHANGED Availability!vars
  <2>1. UNCHANGED <<clock, presence, enabled, lease, cached, agent, beat, drain, seen>>
    BY <1>3 DEF Availability!vars
  <2>2. /\ clock \in Nat /\ presence \in [Agents -> Availability!Presences]
        /\ enabled \in [Agents -> BOOLEAN]
    BY DEF AvailabilityInv, AvailabilityTyped
  <2> QED
    BY <2>1, <2>2, BeatsRest
<1> QED
  BY <1>1, <1>2, <1>3, PeopleKeep DEF Availability!Next

(***************************************************************************)
(* Whenever an agent is reserved, two questions of heartbeats and one of   *)
(* the drain were answered "available", with no other answer and no veto   *)
(* written in between: a reading that is found in the cache again cannot   *)
(* settle a run by itself, because it stays there for less time than a run *)
(* has to take (CacheTTL < Stable).                                        *)
(***************************************************************************)
THEOREM ReservationsRest == Availability!Spec => ReservedWasSeenThrice
<1>1. Availability!Init => AvailabilityInv
  BY AvailabilityInitially, GuardsAssumption
<1>2. ASSUME AvailabilityInv, Availability!Next, NEW m \in Drains,
             drain[m].pc = "verified", drain'[m].pc = "reserved"
      PROVE  Availability!Rests(m)
  <2>1. drain[m].said = "available" /\ drain[m] \in Candidate
        /\ drain \in [Drains -> Candidate]
    BY <1>2 DEF AvailabilityInv, AvailabilityTyped
  <2>2. drain[m].agent \in Agents
    BY <1>2, <2>1 DEF Candidate
  <2>3. Availability!Reserve(m)
    <3>1. UNCHANGED drain \/ \E p \in Drains :
             Availability!Reserve(p) \/ \E a \in Agents : Availability!Verify(p, a)
      BY <1>2 DEF Availability!Next, Availability!Tick, Availability!Change,
           Availability!Step, Availability!Acquire, Availability!ReadCache, Availability!Ask,
           Availability!Answer, Availability!AskFails, Availability!Apply, Availability!Veto,
           Availability!Release, Availability!Crash
    <3>2. PICK p \in Drains :
             Availability!Reserve(p) \/ \E a \in Agents : Availability!Verify(p, a)
      BY <1>2, <3>1
    <3>3. p = m
      BY <1>2, <2>1, <3>2 DEF Availability!Reserve, Availability!Verify
    <3> QED
      <4>1. ASSUME NEW a \in Agents, Availability!Verify(m, a) PROVE FALSE
        <5>1. drain[m].pc \in {"looking", "reserved"}
          BY SMTT(30), <4>1 DEF Availability!Verify, Availability!Looking
        <5> QED
          BY <1>2, <5>1
      <4> QED
        BY <3>2, <3>3, <4>1
  <2>4. Availability!Reservable(drain[m].agent)
    BY <1>2, <2>1, <2>3 DEF Availability!Reserve, Availability!Looking
  <2> QED
    BY <1>2, <2>1, <2>2, <2>4
       DEF Availability!Rests, Availability!Reservable, AvailabilityInv, RunOfSamples, IsRun
<1>3. AvailabilityInv /\ [Availability!Next]_Availability!vars =>
         [\A m \in Drains : drain[m].pc = "verified" /\ drain'[m].pc = "reserved" =>
             Availability!Rests(m)]_Availability!vars
  BY <1>2
<1> QED
  BY <1>1, <1>3, AvailabilityStep, PTL
     DEF Availability!Spec, ReservedWasSeenThrice, Availability!ReservedWasSeenThrice

-----------------------------------------------------------------------------
(***************************************************************************)
(* ConversationLifecycle: attendances follow the states of conversations,  *)
(* a closed ticket is quiet, and only news reopens a conversation.         *)
(***************************************************************************)
LifecycleEvent ==
    [no : Nat, type : {"entered", "closed", "other", "sent"}, at : Nat \ {0}, when : Nat]
LifecycleProvider ==
    [now : Nat, count : Nat, odd : Nat, events : SUBSET LifecycleEvent, entered : Nat,
     closed : BOOLEAN]
LifecycleSupport ==
    [entry : Nat, state : {"none", "queued", "assigned", "closed"}, until : Nat,
     known : SUBSET LifecycleEvent]
LifecycleState ==
    {"RECEIVED", "NORMALIZED", "AI_SERVICE_RUNNING", "QUEUE_PENDING", "HUMAN_ASSIGNED",
     "HUMAN_IN_PROGRESS", "RESOLVED_BY_HUMAN", "FAILED_RETRYABLE", "FAILED_TERMINAL",
     "IGNORED", "CLOSED"}
LifecycleRow ==
    [identity : {"absent", "known", "superseded"}, linked : BOOLEAN, state : LifecycleState,
     cycles : Seq({"open", "closed"}), cursor : Nat, closedAt : Nat, failures : Nat]
LifecycleWatch ==
    [pc : {"idle", "scanned", "counted", "exhausted"}, inst : Lifecycle!Instances,
     state : LifecycleState, failures : Nat]

LifecycleTyped ==
    /\ provider \in LifecycleProvider
    /\ ledger \subseteq provider.events /\ closing \subseteq ledger
    /\ inst \in [Lifecycle!Instances -> LifecycleRow]
    /\ support \in LifecycleSupport /\ support.known \subseteq ledger
    /\ assigner \in [pc : {"idle", "assigned", "read"}, found : SUBSET Lifecycle!Instances]
    /\ watch \in [Watchdogs -> LifecycleWatch]

(***************************************************************************)
(* A support cycle stands for an entry in the ledger, and what closes it   *)
(* is a closing event.                                                     *)
(***************************************************************************)
CyclesStand ==
    /\ \A e \in closing : e.type = "closed"
    /\ support.state # "none" => \E e \in ledger : e.type = "entered"

(***************************************************************************)
(* A row whose cycles follow its state; a superseded one has ended, and    *)
(* once it is closed it has no open cycle.                                 *)
(***************************************************************************)
RowFollows(x) ==
    /\ \A k \in DOMAIN x.cycles : x.cycles[k] = "open" => k = Len(x.cycles)
    /\ x.identity = "known" /\ x.cycles # <<>> =>
            (Lifecycle!HasOpen(x) <=> x.state \notin Lifecycle!Terminal)
    /\ x.identity = "superseded" => x.state \in Lifecycle!Terminal
    /\ x.identity = "superseded" /\ x.state = "CLOSED" => ~Lifecycle!HasOpen(x)
    /\ x.identity = "absent" => x = Lifecycle!Absent

(***************************************************************************)
(* The cursor of a row is not before its closure.                          *)
(***************************************************************************)
RowIsDated(x) == x.closedAt <= x.cursor

RowsFollow == \A i \in Lifecycle!Instances : RowFollows(inst[i]) /\ RowIsDated(inst[i])

(***************************************************************************)
(* Only the placeholder is superseded, by the thread's row that names the  *)
(* ticket; once an event of the ticket is recorded, one of the two exists; *)
(* and what is watched or assigned exists.                                 *)
(***************************************************************************)
Canonical == inst["thread"].identity = "known" /\ inst["thread"].linked
Exists(i) == inst[i].identity # "absent"

IdentitiesHold ==
    /\ inst["thread"].identity # "superseded"
    /\ inst["placeholder"].identity = "superseded" => Canonical
    /\ (\E e \in ledger : e.type # "sent") => Exists("placeholder") \/ Canonical
    /\ \A w \in Watchdogs : watch[w].pc # "idle" => Exists(watch[w].inst)
    /\ \A i \in assigner.found : Exists(i)

(***************************************************************************)
(* After the closure, until an entry is recorded that is not dated before  *)
(* it: the rows of the ticket have ended, none has an open cycle, and each *)
(* cursor has reached the closure, so that no older entry reopens the row. *)
(***************************************************************************)
RowIsQuiet(i) == inst[i].linked =>
    /\ inst[i].state \in Lifecycle!Terminal /\ ~Lifecycle!HasOpen(inst[i])
    /\ inst[i].cursor >= support.until

QuietAfterClosure ==
    support.state = "closed" /\ ~Lifecycle!NewsSinceClosure =>
        \A i \in Lifecycle!Instances : RowIsQuiet(i)

LifecycleInv ==
    /\ LifecycleTyped /\ CyclesStand /\ RowsFollow /\ IdentitiesHold /\ QuietAfterClosure

(***************************************************************************)
(* The steps on one row.                                                   *)
(***************************************************************************)
LEMMA CyclesClosed ==
  ASSUME NEW x \in LifecycleRow
  PROVE  /\ Lifecycle!AllClosed(x) \in Seq({"open", "closed"})
         /\ Len(Lifecycle!AllClosed(x)) = Len(x.cycles)
         /\ \A k \in DOMAIN Lifecycle!AllClosed(x) : Lifecycle!AllClosed(x)[k] = "closed"
<1>1. x.cycles \in Seq({"open", "closed"})
  BY DEF LifecycleRow
<1>2. Len(x.cycles) \in Nat /\ DOMAIN x.cycles = 1..Len(x.cycles)
  BY <1>1
<1>3. Lifecycle!AllClosed(x) = [k \in 1..Len(x.cycles) |-> "closed"]
  BY <1>2 DEF Lifecycle!AllClosed
<1> QED
  BY <1>2, <1>3

LEMMA RowEnsured ==
  ASSUME NEW x \in LifecycleRow, RowFollows(x), x.identity # "absent"
  PROVE  LET y == Lifecycle!Ensured(x) IN
         /\ y \in LifecycleRow /\ RowFollows(y)
         /\ y = [x EXCEPT !.cycles = y.cycles] /\ y.cycles # <<>>
         /\ Lifecycle!HasOpen(y) <=> Lifecycle!HasOpen(x) \/ x.state \notin Lifecycle!Terminal
<1> DEFINE y == Lifecycle!Ensured(x)
           new == IF x.state \in Lifecycle!Terminal THEN "closed" ELSE "open"
<1>1. x.cycles \in Seq({"open", "closed"}) /\ x = [x EXCEPT !.cycles = x.cycles]
  BY DEF LifecycleRow
<1>2. CASE Lifecycle!HasOpen(x) \/ (x.cycles # <<>> /\ x.state \in Lifecycle!Terminal)
  <2>1. y = x /\ x.cycles # <<>>
    BY <1>2, <1>1 DEF Lifecycle!Ensured, Lifecycle!HasOpen
  <2>2. x.state \notin Lifecycle!Terminal => Lifecycle!HasOpen(x)
    BY <1>2
  <2> QED
    BY <2>1, <2>2, <1>1
<1>3. CASE ~(Lifecycle!HasOpen(x) \/ (x.cycles # <<>> /\ x.state \in Lifecycle!Terminal))
  <2>1. y = [x EXCEPT !.cycles = Append(x.cycles, new)]
    BY <1>3 DEF Lifecycle!Ensured
  <2> DEFINE s == Append(x.cycles, new)
  <2>2. /\ s \in Seq({"open", "closed"}) /\ s # <<>> /\ Len(s) = Len(x.cycles) + 1
        /\ DOMAIN s = 1..Len(x.cycles) + 1 /\ s[Len(x.cycles) + 1] = new
        /\ \A k \in 1..Len(x.cycles) : s[k] = x.cycles[k]
    BY <1>1
  <2>3. \A k \in 1..Len(x.cycles) : s[k] # "open"
    BY <1>3, <1>1, <2>2 DEF Lifecycle!HasOpen
  <2>4. y.cycles = s /\ y.state = x.state /\ y.identity = x.identity /\ y \in LifecycleRow
    BY <2>1, <2>2 DEF LifecycleRow
  <2>5. Lifecycle!HasOpen(y) <=> new = "open"
    BY <2>2, <2>3, <2>4, <1>1 DEF Lifecycle!HasOpen
  <2>6. RowFollows(y)
    BY <2>2, <2>3, <2>4, <2>5, <1>1 DEF RowFollows
  <2> QED
    BY <2>1, <2>2, <2>4, <2>5, <2>6, <1>3
<1> QED
  BY <1>2, <1>3

LEMMA RowTransitioned ==
  ASSUME NEW x \in LifecycleRow, RowFollows(x), x.identity # "absent",
         NEW to \in LifecycleState, to # x.state, NEW reopen \in BOOLEAN, NEW at \in Nat,
         x.identity = "known" \/ to \in Lifecycle!Terminal,
         x.state \in Lifecycle!Terminal /\ to \notin Lifecycle!Terminal => reopen = TRUE
  PROVE  LET y == Lifecycle!Transitioned(x, to, reopen, at) IN
         /\ y \in LifecycleRow /\ RowFollows(y) /\ y.cycles # <<>>
         /\ y.identity = x.identity /\ y.linked = x.linked /\ y.state = to
         /\ y.cursor = x.cursor /\ y.failures = x.failures
         /\ to \in Lifecycle!Terminal => ~Lifecycle!HasOpen(y)
         /\ \/ y.closedAt = x.closedAt
            \/ to = "CLOSED" /\ y.closedAt = at
            \/ y.closedAt = 0
<1> DEFINE reopening == reopen /\ x.state \in Lifecycle!Terminal /\ to \notin Lifecycle!Terminal
           z == IF reopening THEN Lifecycle!Reopened(x) ELSE Lifecycle!Ensured(x)
           y == Lifecycle!TransitionedOnly(x, to, reopen, at)
           t == Lifecycle!Transitioned(x, to, reopen, at)
<1>1. y = [z EXCEPT !.state = to,
                    !.closedAt = IF to = "CLOSED" /\ @ = 0 THEN at
                                 ELSE IF reopening THEN 0 ELSE @]
  BY DEF Lifecycle!TransitionedOnly
<1>2. /\ z \in LifecycleRow /\ z = [x EXCEPT !.cycles = z.cycles] /\ z.cycles # <<>>
      /\ \A k \in DOMAIN z.cycles : z.cycles[k] = "open" => k = Len(z.cycles)
      /\ to \notin Lifecycle!Terminal => Lifecycle!HasOpen(z)
  <2> DEFINE e == Lifecycle!Ensured(x)
             s == Append(Lifecycle!AllClosed(e), "open")
  <2>1. /\ e \in LifecycleRow /\ RowFollows(e) /\ e = [x EXCEPT !.cycles = e.cycles]
        /\ e.cycles # <<>>
        /\ Lifecycle!HasOpen(e) <=> Lifecycle!HasOpen(x) \/ x.state \notin Lifecycle!Terminal
    BY RowEnsured
  <2>2. CASE ~reopening
    BY <2>1, <2>2 DEF RowFollows
  <2>3. CASE reopening
    <3>1. z = [x EXCEPT !.cycles = s]
      BY <2>3 DEF Lifecycle!Reopened
    <3>2. /\ Lifecycle!AllClosed(e) \in Seq({"open", "closed"})
          /\ \A k \in DOMAIN Lifecycle!AllClosed(e) : Lifecycle!AllClosed(e)[k] = "closed"
      BY <2>1, CyclesClosed
    <3>3. /\ s \in Seq({"open", "closed"}) /\ s # <<>> /\ s[Len(s)] = "open" /\ Len(s) \in DOMAIN s
          /\ \A k \in DOMAIN s : s[k] = "open" => k = Len(s)
      BY <3>2
    <3>4. z.cycles = s /\ z \in LifecycleRow
      BY <3>1, <3>3 DEF LifecycleRow
    <3> QED
      BY SMTT(30), <3>1, <3>3, <3>4 DEF Lifecycle!HasOpen
  <2> QED
    BY <2>2, <2>3
<1> HIDE DEF z, y
<1>3. /\ y \in LifecycleRow /\ y.cycles = z.cycles /\ y.state = to
      /\ y.identity = x.identity /\ y.linked = x.linked
      /\ y.cursor = x.cursor /\ y.failures = x.failures
      /\ y.closedAt = x.closedAt \/ (to = "CLOSED" /\ y.closedAt = at) \/ y.closedAt = 0
  BY <1>1, <1>2 DEF LifecycleRow
<1>4. t = IF to \in Lifecycle!Terminal THEN Lifecycle!CycleClosed(y) ELSE y
  BY DEF Lifecycle!Transitioned, y
<1>5. CASE to \in Lifecycle!Terminal
  <2>1. t = [y EXCEPT !.cycles = Lifecycle!AllClosed(y)]
    BY <1>4, <1>5 DEF Lifecycle!CycleClosed
  <2>2. /\ Lifecycle!AllClosed(y) \in Seq({"open", "closed"})
        /\ Len(Lifecycle!AllClosed(y)) = Len(y.cycles)
        /\ \A k \in DOMAIN Lifecycle!AllClosed(y) : Lifecycle!AllClosed(y)[k] = "closed"
    BY <1>3, CyclesClosed
  <2>3. Lifecycle!AllClosed(y) # <<>>
    BY <2>2, <1>2, <1>3 DEF LifecycleRow
  <2>4. /\ t \in LifecycleRow /\ t.cycles = Lifecycle!AllClosed(y) /\ t.state = to
        /\ t.identity = x.identity /\ t.linked = x.linked
        /\ t.cursor = x.cursor /\ t.failures = x.failures /\ t.closedAt = y.closedAt
    BY <2>1, <2>2, <1>3 DEF LifecycleRow
  <2>5. ~Lifecycle!HasOpen(t)
    BY <2>2, <2>4 DEF Lifecycle!HasOpen
  <2>6. RowFollows(t)
    BY <2>2, <2>4, <2>5, <1>5 DEF RowFollows
  <2> QED
    BY <2>3, <2>4, <2>5, <2>6, <1>3, <1>5
<1>6. CASE to \notin Lifecycle!Terminal
  <2>1. t = y /\ x.identity = "known"
    BY <1>4, <1>6
  <2>2. Lifecycle!HasOpen(y)
    BY <1>2, <1>3, <1>6 DEF Lifecycle!HasOpen
  <2>3. RowFollows(y)
    BY <1>2, <1>3, <1>6, <2>1, <2>2 DEF RowFollows
  <2> QED
    BY <1>2, <1>3, <1>6, <2>1, <2>2, <2>3
<1> QED
  BY <1>5, <1>6

(***************************************************************************)
(* What most steps may do to a row: it keeps its identity, its link, its   *)
(* cursor and its date, and if it has ended it stays so.                   *)
(***************************************************************************)
RowMay(x, y) ==
    /\ y \in LifecycleRow /\ RowFollows(y)
    /\ y.identity = x.identity /\ y.linked = x.linked /\ y.cursor = x.cursor
    /\ y.closedAt = x.closedAt \/ y.closedAt = 0
    /\ x.state \in Lifecycle!Terminal =>
            /\ y.state \in Lifecycle!Terminal
            /\ Lifecycle!HasOpen(y) => Lifecycle!HasOpen(x)

Targets == {"HUMAN_ASSIGNED", "RESOLVED_BY_HUMAN", "FAILED_RETRYABLE", "FAILED_TERMINAL"}

LEMMA RowGoes ==
  ASSUME NEW x \in LifecycleRow, RowFollows(x), x.identity # "absent",
         NEW to \in Targets, Lifecycle!CanGo(x, to)
  PROVE  RowMay(x, Lifecycle!Transitioned(x, to, FALSE, 0))
<1> DEFINE y == Lifecycle!Transitioned(x, to, FALSE, 0)
<1>1. CASE x.state = to
  <2>1. y = x
    BY <1>1 DEF Lifecycle!Transitioned, Lifecycle!TransitionedOnly
  <2> QED
    BY <2>1 DEF RowMay
<1>2. CASE x.state # to
  <2>1. x.state \notin Lifecycle!Terminal
    BY <1>2 DEF Lifecycle!CanGo, Lifecycle!Valid
  <2>2. x.identity = "known"
    BY <2>1 DEF RowFollows, LifecycleRow
  <2>3. to \in LifecycleState
    BY DEF Targets, LifecycleState
  <2>5. to # "CLOSED" /\ to # x.state
    BY <1>2 DEF Targets
  <2>6. FALSE \in BOOLEAN /\ 0 \in Nat
    OBVIOUS
  <2>4. /\ y \in LifecycleRow /\ RowFollows(y)
        /\ y.identity = x.identity /\ y.linked = x.linked /\ y.cursor = x.cursor
        /\ \/ y.closedAt = x.closedAt
           \/ to = "CLOSED" /\ y.closedAt = 0
           \/ y.closedAt = 0
    BY ZenonT(60), <2>1, <2>2, <2>3, <2>5, <2>6, RowTransitioned
  <2> QED
    BY <2>1, <2>4, <2>5 DEF RowMay
<1> QED
  BY <1>1, <1>2

(***************************************************************************)
(* A closed row is left as it is, or stays ended.                          *)
(***************************************************************************)
ClosedStay == \A i \in Lifecycle!Instances :
    inst[i].state = "CLOSED" => inst'[i].state \in Lifecycle!Terminal

LEMMA RowsMove ==
  ASSUME LifecycleInv, NEW i \in Lifecycle!Instances, NEW y, RowMay(inst[i], y),
         inst' = [inst EXCEPT ![i] = y],
         UNCHANGED <<provider, ledger, support, closing>>,
         assigner' \in [pc : {"idle", "assigned", "read"}, found : SUBSET Lifecycle!Instances],
         \A j \in assigner'.found : Exists(j),
         watch' \in [Watchdogs -> LifecycleWatch],
         \A w \in Watchdogs : watch'[w].pc # "idle" => Exists(watch'[w].inst)
  PROVE  LifecycleInv' /\ ClosedStay
<1>1. inst \in [Lifecycle!Instances -> LifecycleRow]
  BY DEF LifecycleInv, LifecycleTyped
<1>2. inst'[i] = y /\ \A j \in Lifecycle!Instances \ {i} : inst'[j] = inst[j]
  BY <1>1
<1>3. LifecycleTyped'
  BY <1>1 DEF LifecycleInv, LifecycleTyped, RowMay
<1>4. CyclesStand'
  BY DEF LifecycleInv, CyclesStand
<1>5. ASSUME NEW j \in Lifecycle!Instances PROVE RowFollows(inst'[j]) /\ RowIsDated(inst'[j])
  <2>1. RowFollows(inst[j]) /\ RowIsDated(inst[j])
    BY DEF LifecycleInv, RowsFollow
  <2>2. CASE j = i
    <3>1. inst[i].cursor \in Nat
      BY <1>1 DEF LifecycleRow
    <3> QED
      BY <2>1, <2>2, <1>2, <3>1 DEF RowMay, RowIsDated
  <2> QED
    BY <2>1, <2>2, <1>2
<1>6. RowsFollow'
  BY <1>5 DEF RowsFollow, RowFollows, RowIsDated
<1>7. \A j \in Lifecycle!Instances :
        inst'[j].identity = inst[j].identity /\ inst'[j].linked = inst[j].linked
  BY <1>2 DEF RowMay
<1>8. watch' \in [Watchdogs -> LifecycleWatch] /\ \A w \in Watchdogs : watch'[w].inst \in Lifecycle!Instances
  BY DEF LifecycleWatch
<1>9. IdentitiesHold'
  BY <1>7, <1>8 DEF LifecycleInv, IdentitiesHold, Canonical, Exists, Lifecycle!Instances
<1>10. QuietAfterClosure'
  <2> SUFFICES ASSUME (support.state = "closed" /\ ~Lifecycle!NewsSinceClosure)',
                      NEW j \in Lifecycle!Instances
               PROVE  RowIsQuiet(j)'
    BY DEF QuietAfterClosure
  <2>1. RowIsQuiet(j)
    BY DEF LifecycleInv, QuietAfterClosure, Lifecycle!NewsSinceClosure
  <2> QED
    BY <2>1, <1>2 DEF RowIsQuiet, RowMay
<1>11. ClosedStay
  BY <1>2 DEF ClosedStay, RowMay, Lifecycle!Terminal
<1> QED
  BY <1>3, <1>4, <1>6, <1>9, <1>10, <1>11 DEF LifecycleInv

LEMMA RowRests ==
  ASSUME LifecycleInv, NEW i \in Lifecycle!Instances
  PROVE  inst[i] \in LifecycleRow /\ RowFollows(inst[i]) /\ RowMay(inst[i], inst[i])
         /\ inst = [inst EXCEPT ![i] = inst[i]]
<1>1. inst \in [Lifecycle!Instances -> LifecycleRow] /\ RowFollows(inst[i])
  BY DEF LifecycleInv, LifecycleTyped, RowsFollow
<1> QED
  BY <1>1 DEF RowMay

LEMMA LifecycleNames ==
  /\ "placeholder" \in Lifecycle!Instances /\ "thread" \in Lifecycle!Instances
  /\ Lifecycle!IdleWatchdog \in LifecycleWatch /\ Lifecycle!IdleWatchdog.pc = "idle"
<1>1. "thread" \in Lifecycle!Instances /\ "placeholder" \in Lifecycle!Instances
  BY DEF Lifecycle!Instances
<1>2. "RECEIVED" \in LifecycleState
  BY DEF LifecycleState
<1> QED
  BY <1>1, <1>2 DEF Lifecycle!IdleWatchdog, LifecycleWatch

(***************************************************************************)
(* The steps outside the rows: of HubSpot, of the support cycle and of its *)
(* assignment.                                                             *)
(***************************************************************************)
LEMMA ProviderKeeps ==
  ASSUME LifecycleInv, NEW type \in {"entered", "closed", "other", "sent"},
         NEW at \in Nat \ {0}, NEW when \in Nat, Lifecycle!ProviderEvent(type, at, when)
  PROVE  LifecycleInv' /\ ClosedStay
<1> DEFINE plain == type \in {"entered", "closed"} /\ at = provider.now + 1 /\ when = at
           new == [no |-> provider.count, type |-> type, at |-> at, when |-> when]
<1>1. /\ provider \in LifecycleProvider
      /\ UNCHANGED <<ledger, inst, support, closing, assigner, watch>>
      /\ provider' = [now |-> at, count |-> provider.count + 1,
                      odd |-> IF plain THEN provider.odd ELSE provider.odd + 1,
                      events |-> provider.events \cup {new},
                      entered |-> IF type = "entered" THEN at ELSE provider.entered,
                      closed |-> IF type \in {"entered", "closed"} THEN type = "closed"
                                 ELSE provider.closed]
  BY DEF LifecycleInv, LifecycleTyped, Lifecycle!ProviderEvent, Lifecycle!Event
<1> HIDE DEF plain
<1>2. new \in LifecycleEvent
  BY <1>1 DEF LifecycleEvent, LifecycleProvider
<1>3. provider'.events = provider.events \cup {new}
  BY <1>1
<1>4. /\ (type = "closed") \in BOOLEAN /\ provider.closed \in BOOLEAN
      /\ provider.entered \in Nat /\ provider.count \in Nat /\ provider.odd \in Nat
      /\ provider.events \in SUBSET LifecycleEvent
  BY <1>1 DEF LifecycleProvider
<1>5. provider.count + 1 \in Nat /\ (IF plain THEN provider.odd ELSE provider.odd + 1) \in Nat
      /\ (IF type = "entered" THEN at ELSE provider.entered) \in Nat
  BY <1>4
<1>6. (IF type \in {"entered", "closed"} THEN type = "closed" ELSE provider.closed) \in BOOLEAN
  <2>1. CASE type \in {"entered", "closed"}
    BY <1>4, <2>1
  <2>2. CASE type \notin {"entered", "closed"}
    BY <1>4, <2>2
  <2> QED
    BY <2>1, <2>2
<1>7. provider.events \cup {new} \in SUBSET LifecycleEvent
  BY <1>2, <1>4
<1> HIDE DEF new
<1>8. provider' \in LifecycleProvider
  BY <1>1, <1>5, <1>6, <1>7 DEF LifecycleProvider
<1>9. LifecycleTyped' /\ CyclesStand'
  BY <1>1, <1>3, <1>8 DEF LifecycleInv, LifecycleTyped, CyclesStand
<1>10. RowsFollow'
  BY <1>1 DEF LifecycleInv, RowsFollow, RowFollows, RowIsDated
<1>11. IdentitiesHold' /\ QuietAfterClosure'
  BY <1>1 DEF LifecycleInv, IdentitiesHold, QuietAfterClosure, Canonical, Exists, RowIsQuiet,
              Lifecycle!NewsSinceClosure
<1> QED
  BY <1>1, <1>9, <1>10, <1>11 DEF LifecycleInv, ClosedStay, Lifecycle!Terminal

LEMMA SupportKeeps ==
  ASSUME LifecycleInv, UNCHANGED <<provider, ledger, inst, watch>>,
         support' \in LifecycleSupport, support'.known \subseteq ledger,
         support'.state \notin {"none", "closed"} \/ support' = support,
         support'.state # "none" => \E e \in ledger : e.type = "entered",
         closing' \subseteq ledger, \A e \in closing' : e.type = "closed",
         assigner' \in [pc : {"idle", "assigned", "read"}, found : SUBSET Lifecycle!Instances],
         \A j \in assigner'.found : Exists(j)
  PROVE  LifecycleInv' /\ ClosedStay
<1>1. LifecycleTyped' /\ CyclesStand'
  BY DEF LifecycleInv, LifecycleTyped, CyclesStand
<1>2. RowsFollow' /\ IdentitiesHold'
  BY DEF LifecycleInv, RowsFollow, RowFollows, RowIsDated, IdentitiesHold, Canonical, Exists
<1>3. QuietAfterClosure'
  BY DEF LifecycleInv, QuietAfterClosure, RowIsQuiet, Lifecycle!NewsSinceClosure
<1> QED
  BY <1>1, <1>2, <1>3 DEF LifecycleInv, ClosedStay, Lifecycle!Terminal

LEMMA EnqueueKeeps ==
  ASSUME LifecycleInv, NEW e, Lifecycle!Enqueue(e)
  PROVE  LifecycleInv' /\ ClosedStay
<1>1. /\ e \in ledger /\ e.type = "entered"
      /\ support' = [entry |-> e.at, state |-> "queued", until |-> 0, known |-> {}]
      /\ UNCHANGED <<provider, ledger, inst, closing, assigner, watch>>
  BY DEF Lifecycle!Enqueue, Lifecycle!Cycle
<1>2. e.at \in Nat
  BY <1>1 DEF LifecycleInv, LifecycleTyped, LifecycleEvent, LifecycleProvider
<1>3. support' \in LifecycleSupport /\ support'.known = {} /\ support'.state = "queued"
  BY <1>1, <1>2 DEF LifecycleSupport
<1> QED
  BY <1>1, <1>3, SupportKeeps DEF LifecycleInv, LifecycleTyped, CyclesStand, IdentitiesHold

LEMMA AssignKeeps ==
  ASSUME LifecycleInv, Lifecycle!Assign
  PROVE  LifecycleInv' /\ ClosedStay
<1>1. /\ support.state = "queued" /\ support' = [support EXCEPT !.state = "assigned"]
      /\ assigner' = [assigner EXCEPT !.pc = "assigned"]
      /\ UNCHANGED <<provider, ledger, inst, closing, watch>>
  BY DEF Lifecycle!Assign
<1>2. /\ support \in LifecycleSupport /\ support.known \subseteq ledger
      /\ assigner \in [pc : {"idle", "assigned", "read"}, found : SUBSET Lifecycle!Instances]
  BY DEF LifecycleInv, LifecycleTyped
<1>3. support'.state = "assigned" /\ support'.known = support.known /\ assigner'.found = assigner.found
  BY <1>1, <1>2 DEF LifecycleSupport
<1>4. /\ support' \in LifecycleSupport
      /\ assigner' \in [pc : {"idle", "assigned", "read"}, found : SUBSET Lifecycle!Instances]
  BY <1>1, <1>2 DEF LifecycleSupport
<1> QED
  BY <1>1, <1>2, <1>3, <1>4, SupportKeeps DEF LifecycleInv, LifecycleTyped, CyclesStand, IdentitiesHold

LEMMA CloseReadKeeps ==
  ASSUME LifecycleInv, NEW e, Lifecycle!CloseRead(e)
  PROVE  LifecycleInv' /\ ClosedStay
<1>1. /\ e \in ledger /\ e.type = "closed" /\ closing' = closing \cup {e}
      /\ UNCHANGED <<provider, ledger, inst, support, assigner, watch>>
  BY DEF Lifecycle!CloseRead
<1> QED
  BY <1>1, SupportKeeps DEF LifecycleInv, LifecycleTyped, CyclesStand, IdentitiesHold

LEMMA AssignReadKeeps ==
  ASSUME LifecycleInv, Lifecycle!AssignRead
  PROVE  LifecycleInv' /\ ClosedStay
<1> DEFINE found == {i \in Lifecycle!Instances : inst[i].identity # "absent" /\ inst[i].linked
                                                   /\ inst[i].state = "QUEUE_PENDING"}
<1>1. assigner' = [pc |-> "read", found |-> found]
      /\ UNCHANGED <<provider, ledger, inst, support, closing, watch>>
  BY DEF Lifecycle!AssignRead
<1>2. found \subseteq Lifecycle!Instances /\ \A j \in found : Exists(j)
  BY DEF Exists
<1> HIDE DEF found
<1>3. assigner' \in [pc : {"idle", "assigned", "read"}, found : SUBSET Lifecycle!Instances]
      /\ \A j \in assigner'.found : Exists(j)
  BY <1>1, <1>2
<1> QED
  BY <1>1, <1>3, SupportKeeps DEF LifecycleInv, LifecycleTyped, CyclesStand

LEMMA AssignApplyKeeps ==
  ASSUME LifecycleInv, Lifecycle!AssignApply
  PROVE  LifecycleInv' /\ ClosedStay
<1>1. /\ assigner \in [pc : {"idle", "assigned", "read"}, found : SUBSET Lifecycle!Instances]
      /\ \A j \in assigner.found : Exists(j)
      /\ watch \in [Watchdogs -> LifecycleWatch]
      /\ \A w \in Watchdogs : watch[w].pc # "idle" => Exists(watch[w].inst)
      /\ UNCHANGED <<provider, ledger, support, closing, watch>>
  BY DEF LifecycleInv, LifecycleTyped, IdentitiesHold, Lifecycle!AssignApply
<1>2. CASE assigner.found = {}
  <2>1. assigner' = [assigner EXCEPT !.pc = "idle"] /\ inst' = inst
    BY <1>2 DEF Lifecycle!AssignApply
  <2>2. assigner' \in [pc : {"idle", "assigned", "read"}, found : SUBSET Lifecycle!Instances]
        /\ assigner'.found = {}
    BY <1>1, <1>2, <2>1
  <2> QED
    BY <1>1, <2>1, <2>2, LifecycleNames, RowRests, RowsMove
<1>3. CASE assigner.found # {}
  <2>1. PICK i \in assigner.found :
            /\ assigner' = [assigner EXCEPT !.found = @ \ {i}]
            /\ inst' = IF Lifecycle!CanGo(inst[i], "HUMAN_ASSIGNED")
                       THEN [inst EXCEPT ![i] = Lifecycle!Transitioned(@, "HUMAN_ASSIGNED", FALSE, 0)]
                       ELSE inst
    BY <1>3 DEF Lifecycle!AssignApply
  <2>2. assigner' \in [pc : {"idle", "assigned", "read"}, found : SUBSET Lifecycle!Instances]
        /\ assigner'.found \subseteq assigner.found
    BY <1>1, <2>1
  <2>3. i \in Lifecycle!Instances /\ Exists(i)
    BY <1>1
  <2>4. CASE Lifecycle!CanGo(inst[i], "HUMAN_ASSIGNED")
    <3>1. "HUMAN_ASSIGNED" \in Targets /\ inst[i].identity # "absent"
      BY <2>3 DEF Targets, Exists
    <3>2. RowMay(inst[i], Lifecycle!Transitioned(inst[i], "HUMAN_ASSIGNED", FALSE, 0))
      BY <2>3, <2>4, <3>1, RowRests, RowGoes
    <3> QED
      BY <1>1, <2>1, <2>2, <2>3, <2>4, <3>2, RowsMove
  <2>5. CASE ~Lifecycle!CanGo(inst[i], "HUMAN_ASSIGNED")
    BY <1>1, <2>1, <2>2, <2>3, <2>5, RowRests, RowsMove
  <2> QED
    BY <2>4, <2>5
<1> QED
  BY <1>2, <1>3

(***************************************************************************)
(* The watchdog.                                                           *)
(***************************************************************************)
LEMMA ScanKeeps ==
  ASSUME LifecycleInv, NEW w \in Watchdogs, NEW i \in Lifecycle!Instances, Lifecycle!Scan(w, i)
  PROVE  LifecycleInv' /\ ClosedStay
<1> DEFINE copy == [pc |-> "scanned", inst |-> i, state |-> inst[i].state,
                    failures |-> inst[i].failures]
<1>1. /\ inst[i].identity # "absent" /\ watch' = [watch EXCEPT ![w] = copy]
      /\ UNCHANGED <<provider, ledger, inst, support, closing, assigner>>
  BY DEF Lifecycle!Scan
<1>2. /\ assigner \in [pc : {"idle", "assigned", "read"}, found : SUBSET Lifecycle!Instances]
      /\ \A j \in assigner.found : Exists(j)
      /\ watch \in [Watchdogs -> LifecycleWatch]
      /\ \A v \in Watchdogs : watch[v].pc # "idle" => Exists(watch[v].inst)
  BY DEF LifecycleInv, LifecycleTyped, IdentitiesHold
<1>3. copy \in LifecycleWatch /\ copy.inst = i
  BY RowRests DEF LifecycleWatch, LifecycleRow
<1> HIDE DEF copy
<1>4. watch' \in [Watchdogs -> LifecycleWatch]
      /\ \A v \in Watchdogs : watch'[v].pc # "idle" => Exists(watch'[v].inst)
  BY <1>1, <1>2, <1>3 DEF Exists
<1> QED
  BY <1>1, <1>2, <1>4, RowRests, RowsMove

LEMMA WatchMoves ==
  ASSUME LifecycleInv, NEW w \in Watchdogs, NEW from \in {"scanned", "counted", "exhausted"},
         NEW to \in {"idle", "counted", "exhausted"}, Lifecycle!WatchStep(w, from, to)
  PROVE  /\ watch' \in [Watchdogs -> LifecycleWatch]
         /\ \A v \in Watchdogs : watch'[v].pc # "idle" => Exists(watch'[v].inst)
         /\ watch[w] \in LifecycleWatch /\ Exists(watch[w].inst)
<1> DEFINE moved == IF to = "idle" THEN Lifecycle!IdleWatchdog ELSE [watch[w] EXCEPT !.pc = to]
<1>1. watch \in [Watchdogs -> LifecycleWatch] /\ watch[w] \in LifecycleWatch
      /\ \A v \in Watchdogs : watch[v].pc # "idle" => Exists(watch[v].inst)
  BY DEF LifecycleInv, LifecycleTyped, IdentitiesHold
<1>2. watch[w].pc = from /\ watch' = [watch EXCEPT ![w] = moved]
  BY DEF Lifecycle!WatchStep
<1>3. moved \in LifecycleWatch /\ (moved.pc # "idle" => moved.inst = watch[w].inst)
  BY <1>1, LifecycleNames DEF LifecycleWatch
<1> HIDE DEF moved
<1> QED
  BY <1>1, <1>2, <1>3

LEMMA CountKeeps ==
  ASSUME LifecycleInv, NEW w \in Watchdogs, Lifecycle!Count(w)
  PROVE  LifecycleInv' /\ ClosedStay
<1> DEFINE i == watch[w].inst
           n == Lifecycle!Counted(w)
           x == inst[i]
           y == [x EXCEPT !.failures = n]
<1>1. /\ Lifecycle!WatchStep(w, "scanned", "counted")
      /\ inst' = [inst EXCEPT ![i].failures = n]
      /\ UNCHANGED <<provider, ledger, support, closing, assigner>>
  BY DEF Lifecycle!Count
<1>2. /\ watch' \in [Watchdogs -> LifecycleWatch]
      /\ \A v \in Watchdogs : watch'[v].pc # "idle" => Exists(watch'[v].inst)
      /\ watch[w] \in LifecycleWatch /\ Exists(watch[w].inst)
  BY <1>1, WatchMoves
<1>3. i \in Lifecycle!Instances /\ n \in Nat
  BY <1>2 DEF LifecycleWatch, Lifecycle!Counted
<1>4. inst' = [inst EXCEPT ![i] = y]
  BY <1>1
<1> HIDE DEF n
<1>5. x \in LifecycleRow /\ RowFollows(x)
  BY <1>3, RowRests
<1>6. /\ y \in LifecycleRow /\ y.cycles = x.cycles /\ y.state = x.state /\ y.identity = x.identity
      /\ y.linked = x.linked /\ y.cursor = x.cursor /\ y.closedAt = x.closedAt
  BY SMTT(30), <1>3, <1>5 DEF LifecycleRow
<1>7. RowMay(x, y)
  BY <1>2, <1>5, <1>6 DEF RowMay, RowFollows, Lifecycle!HasOpen, Exists
<1> HIDE DEF y, x, i
<1>8. /\ assigner' \in [pc : {"idle", "assigned", "read"}, found : SUBSET Lifecycle!Instances]
      /\ \A j \in assigner'.found : Exists(j)
  BY <1>1 DEF LifecycleInv, LifecycleTyped, IdentitiesHold
<1> QED
  BY <1>1, <1>2, <1>3, <1>4, <1>7, <1>8, RowsMove DEF x

(***************************************************************************)
(* A transition the watchdog makes, or does not, of the row it copied.     *)
(***************************************************************************)
LEMMA WatchTransition ==
  ASSUME LifecycleInv, NEW w \in Watchdogs, NEW to \in Targets,
         NEW from \in {"scanned", "counted", "exhausted"},
         NEW next \in {"idle", "counted", "exhausted"}, Lifecycle!WatchStep(w, from, next),
         \/ inst' = inst
         \/ /\ Lifecycle!CanGo(inst[watch[w].inst], to)
            /\ inst' = [inst EXCEPT ![watch[w].inst] = Lifecycle!Transitioned(@, to, FALSE, 0)],
         UNCHANGED <<provider, ledger, support, closing, assigner>>
  PROVE  LifecycleInv' /\ ClosedStay
<1> DEFINE i == watch[w].inst
           y == Lifecycle!Transitioned(inst[i], to, FALSE, 0)
<1>1. /\ watch' \in [Watchdogs -> LifecycleWatch]
      /\ \A v \in Watchdogs : watch'[v].pc # "idle" => Exists(watch'[v].inst)
      /\ watch[w] \in LifecycleWatch /\ Exists(i)
  BY WatchMoves
<1>2. i \in Lifecycle!Instances
  BY <1>1 DEF LifecycleWatch
<1>3. /\ assigner' \in [pc : {"idle", "assigned", "read"}, found : SUBSET Lifecycle!Instances]
      /\ \A j \in assigner'.found : Exists(j)
  BY DEF LifecycleInv, LifecycleTyped, IdentitiesHold
<1>4. CASE inst' = inst
  BY <1>1, <1>2, <1>3, <1>4, RowRests, RowsMove
<1>5. CASE Lifecycle!CanGo(inst[i], to) /\ inst' = [inst EXCEPT ![i] = y]
  <2>1. inst[i].identity # "absent"
    BY <1>1 DEF Exists
  <2>2. RowMay(inst[i], y)
    BY <1>2, <1>5, <2>1, RowRests, RowGoes
  <2> HIDE DEF y, i
  <2> QED
    BY <1>1, <1>2, <1>3, <1>5, <2>2, RowsMove
<1> QED
  BY <1>4, <1>5

LEMMA MarkKeeps ==
  ASSUME LifecycleInv, NEW w \in Watchdogs, Lifecycle!MarkRetryable(w)
  PROVE  LifecycleInv' /\ ClosedStay
<1> DEFINE i == watch[w].inst
           skip == watch[w].state = "FAILED_RETRYABLE"
           ok == skip \/ Lifecycle!CanGo(inst[i], "FAILED_RETRYABLE")
           next == IF ok /\ Lifecycle!Exhausted(w) THEN "exhausted" ELSE "idle"
<1>1. /\ Lifecycle!WatchStep(w, "counted", next)
      /\ UNCHANGED <<provider, ledger, support, closing, assigner>>
      /\ inst' = IF skip \/ ~ok THEN inst
                 ELSE [inst EXCEPT ![i] = Lifecycle!Transitioned(@, "FAILED_RETRYABLE", FALSE, 0)]
  BY DEF Lifecycle!MarkRetryable
<1>2. next \in {"idle", "counted", "exhausted"} /\ "FAILED_RETRYABLE" \in Targets
  BY DEF Targets
<1>3. \/ inst' = inst
      \/ /\ Lifecycle!CanGo(inst[i], "FAILED_RETRYABLE")
         /\ inst' = [inst EXCEPT ![i] = Lifecycle!Transitioned(@, "FAILED_RETRYABLE", FALSE, 0)]
  BY <1>1
<1> HIDE DEF next
<1> QED
  BY <1>1, <1>2, <1>3, WatchTransition

LEMMA GiveUpKeeps ==
  ASSUME LifecycleInv, NEW w \in Watchdogs, Lifecycle!GiveUp(w)
  PROVE  LifecycleInv' /\ ClosedStay
<1>1. /\ Lifecycle!WatchStep(w, "exhausted", "idle")
      /\ UNCHANGED <<provider, ledger, support, closing, assigner>>
      /\ \/ inst' = inst
         \/ /\ Lifecycle!CanGo(inst[watch[w].inst], "FAILED_TERMINAL")
            /\ inst' = [inst EXCEPT ![watch[w].inst] =
                            Lifecycle!Transitioned(@, "FAILED_TERMINAL", FALSE, 0)]
  BY DEF Lifecycle!GiveUp
<1>2. "FAILED_TERMINAL" \in Targets
  BY DEF Targets
<1> QED
  BY <1>1, <1>2, WatchTransition

(***************************************************************************)
(* A superseded row keeps its cycle: the placeholder may be superseded     *)
(* when it is closed already, and then it has no open cycle.               *)
(***************************************************************************)
LEMMA SupersedeKeeps ==
  ASSUME LifecycleInv, NEW w \in Watchdogs, Lifecycle!Supersede(w)
  PROVE  LifecycleInv' /\ ClosedStay
<1> DEFINE x == inst["placeholder"]
           y == [x EXCEPT !.identity = "superseded", !.state = "IGNORED", !.failures = 0]
<1>1. /\ watch[w].inst = "placeholder" /\ Canonical
      /\ Lifecycle!WatchStep(w, "scanned", "idle")
      /\ inst' = [inst EXCEPT !["placeholder"] = y]
      /\ UNCHANGED <<provider, ledger, support, closing, assigner>>
  BY DEF Lifecycle!Supersede, Lifecycle!Supersedes, Canonical
<1>2. /\ watch' \in [Watchdogs -> LifecycleWatch]
      /\ \A v \in Watchdogs : watch'[v].pc # "idle" => Exists(watch'[v].inst)
      /\ watch[w] \in LifecycleWatch /\ Exists(watch[w].inst)
  BY <1>1, WatchMoves
<1>3. inst \in [Lifecycle!Instances -> LifecycleRow]
      /\ "placeholder" \in Lifecycle!Instances /\ "thread" \in Lifecycle!Instances
      /\ x \in LifecycleRow /\ RowFollows(x) /\ RowIsDated(x)
  BY RowRests, LifecycleNames DEF LifecycleInv, LifecycleTyped, RowsFollow
<1>4. "IGNORED" \in LifecycleState
  BY DEF LifecycleState
<1>5. /\ y \in LifecycleRow /\ y.cycles = x.cycles /\ y.state = "IGNORED"
      /\ y.identity = "superseded"
      /\ y.linked = x.linked /\ y.cursor = x.cursor /\ y.closedAt = x.closedAt
  BY <1>3, <1>4 DEF LifecycleRow
<1>6. RowFollows(y) /\ RowIsDated(y)
  BY <1>3, <1>5 DEF RowFollows, RowIsDated, Lifecycle!Terminal
<1>7. inst' \in [Lifecycle!Instances -> LifecycleRow] /\ inst'["placeholder"] = y
      /\ \A j \in Lifecycle!Instances : j # "placeholder" => inst'[j] = inst[j]
  BY <1>1, <1>3, <1>5
<1> HIDE DEF y
<1>8. LifecycleTyped'
  BY <1>1, <1>2, <1>7 DEF LifecycleInv, LifecycleTyped
<1>9. CyclesStand'
  BY <1>1 DEF LifecycleInv, CyclesStand
<1>10. ASSUME NEW j \in Lifecycle!Instances PROVE RowFollows(inst'[j]) /\ RowIsDated(inst'[j])
  BY <1>6, <1>7 DEF LifecycleInv, RowsFollow
<1>11. RowsFollow'
  BY <1>1, <1>10 DEF RowsFollow, RowIsDated
<1>12. inst'["thread"] = inst["thread"] /\ \A j \in Lifecycle!Instances : Exists(j) => Exists(j)'
  BY <1>3, <1>5, <1>7 DEF Exists
<1>13. \A v \in Watchdogs : watch'[v].inst \in Lifecycle!Instances
  BY <1>2 DEF LifecycleWatch
<1>14. assigner.found \subseteq Lifecycle!Instances
  BY DEF LifecycleInv, LifecycleTyped
<1>15. IdentitiesHold'
  BY <1>1, <1>2, <1>3, <1>12, <1>13, <1>14 DEF LifecycleInv, IdentitiesHold, Canonical
<1>16. QuietAfterClosure'
  <2> SUFFICES ASSUME (support.state = "closed" /\ ~Lifecycle!NewsSinceClosure)',
                      NEW j \in Lifecycle!Instances
               PROVE  RowIsQuiet(j)'
    BY DEF QuietAfterClosure
  <2>1. RowIsQuiet(j)
    BY <1>1 DEF LifecycleInv, QuietAfterClosure, Lifecycle!NewsSinceClosure
  <2>2. CASE j = "placeholder"
    BY <2>1, <2>2, <1>1, <1>5, <1>7 DEF RowIsQuiet, Lifecycle!HasOpen, Lifecycle!Terminal
  <2>3. CASE j # "placeholder"
    BY <2>1, <2>3, <1>1, <1>7 DEF RowIsQuiet
  <2> QED
    BY <2>2, <2>3
<1>17. ClosedStay
  BY <1>5, <1>7 DEF ClosedStay, Lifecycle!Terminal
<1> QED
  BY <1>8, <1>9, <1>11, <1>15, <1>16, <1>17 DEF LifecycleInv

(***************************************************************************)
(* The closure of a ticket ends every row that names it, and moves its     *)
(* cursor to the closure at least.                                         *)
(***************************************************************************)
LEMMA RowResolved ==
  ASSUME LifecycleInv, NEW i \in Lifecycle!Instances
  PROVE  RowMay(inst[i], Lifecycle!ResolvedByHuman(inst[i]))
<1>1. CASE inst[i].identity # "absent" /\ Lifecycle!CanGo(inst[i], "RESOLVED_BY_HUMAN")
  <2>1. "RESOLVED_BY_HUMAN" \in Targets
    BY DEF Targets
  <2> QED
    BY <1>1, <2>1, RowRests, RowGoes DEF Lifecycle!ResolvedByHuman
<1>2. CASE ~(inst[i].identity # "absent" /\ Lifecycle!CanGo(inst[i], "RESOLVED_BY_HUMAN"))
  BY <1>2, RowRests DEF Lifecycle!ResolvedByHuman
<1> QED
  BY <1>1, <1>2

LEMMA RowEnds ==
  ASSUME NEW x \in LifecycleRow, RowFollows(x), x.identity # "absent", NEW at \in Nat
  PROVE  LET y == Lifecycle!Transitioned(x, "CLOSED", TRUE, at) IN
         /\ y \in LifecycleRow /\ RowFollows(y) /\ ~Lifecycle!HasOpen(y) /\ y.state = "CLOSED"
         /\ y.identity = x.identity /\ y.linked = x.linked /\ y.cursor = x.cursor
         /\ y.closedAt = x.closedAt \/ y.closedAt = at \/ y.closedAt = 0
<1> DEFINE y == Lifecycle!Transitioned(x, "CLOSED", TRUE, at)
<1>1. CASE x.state = "CLOSED"
  <2>1. y = x
    BY <1>1 DEF Lifecycle!Transitioned, Lifecycle!TransitionedOnly
  <2>2. ~Lifecycle!HasOpen(x)
    <3>1. CASE x.cycles = <<>>
      BY <3>1 DEF Lifecycle!HasOpen
    <3>2. CASE x.cycles # <<>>
      BY <3>2, <1>1 DEF RowFollows, LifecycleRow, Lifecycle!Terminal
    <3> QED
      BY <3>1, <3>2
  <2> QED
    BY <1>1, <2>1, <2>2
<1>2. CASE x.state # "CLOSED"
  <2>1. "CLOSED" \in Lifecycle!Terminal /\ "CLOSED" \in LifecycleState /\ TRUE \in BOOLEAN
    BY DEF Lifecycle!Terminal, LifecycleState
  <2>2. "CLOSED" # x.state /\ (x.identity = "known" \/ "CLOSED" \in Lifecycle!Terminal)
    BY <1>2, <2>1
  <2>3. /\ y \in LifecycleRow /\ RowFollows(y) /\ ~Lifecycle!HasOpen(y) /\ y.state = "CLOSED"
        /\ y.identity = x.identity /\ y.linked = x.linked
    BY ZenonT(60), <2>1, <2>2, RowTransitioned
  <2>4. y.cursor = x.cursor
    BY ZenonT(60), <2>1, <2>2, RowTransitioned
  <2>5. y.closedAt = x.closedAt \/ y.closedAt = at \/ y.closedAt = 0
    BY ZenonT(60), <2>1, <2>2, RowTransitioned
  <2> QED
    BY <2>3, <2>4, <2>5
<1> QED
  BY <1>1, <1>2

LEMMA RowClosed ==
  ASSUME LifecycleInv, NEW e \in closing, NEW i \in Lifecycle!Instances,
         NEW x, RowMay(inst[i], x)
  PROVE  LET y == Lifecycle!ClosedInstance(x, e.at) IN
         /\ y \in LifecycleRow /\ RowFollows(y) /\ RowIsDated(y)
         /\ y.identity = x.identity /\ y.linked = x.linked
         /\ x.state \in Lifecycle!Terminal => y.state \in Lifecycle!Terminal
         /\ y.linked => /\ y.state \in Lifecycle!Terminal /\ ~Lifecycle!HasOpen(y)
                        /\ y.cursor >= e.at
<1> DEFINE c == Lifecycle!ClosedStill(x, e.at)
           n == IF e.at > c.cursor THEN e.at ELSE c.cursor
           y == Lifecycle!ClosedInstance(x, e.at)
<1>1. e.at \in Nat \ {0}
  BY DEF LifecycleInv, LifecycleTyped, LifecycleEvent, LifecycleProvider
<1>2. x \in LifecycleRow /\ RowFollows(x) /\ RowIsDated(x)
  <2>1. inst[i].cursor \in Nat /\ RowIsDated(inst[i])
    BY RowRests DEF LifecycleInv, RowsFollow, LifecycleRow
  <2> QED
    BY <2>1 DEF RowMay, RowIsDated
<1>3. CASE x.identity = "absent" \/ ~x.linked
  <2>1. y = x
    BY <1>3 DEF Lifecycle!ClosedInstance
  <2>2. x.linked => x.identity = "absent"
    BY <1>3
  <2>3. ~x.linked
    BY <1>2, <1>3, <2>2 DEF RowFollows, Lifecycle!Absent
  <2> QED
    BY <1>2, <2>1, <2>3
<1>4. CASE x.identity # "absent" /\ x.linked
  <2>1. y = [c EXCEPT !.cursor = n] /\ c = Lifecycle!Transitioned(x, "CLOSED", TRUE, e.at)
    BY <1>4 DEF Lifecycle!ClosedInstance, Lifecycle!ClosedStill
  <2> HIDE DEF c, n
  <2>2. /\ c \in LifecycleRow /\ RowFollows(c) /\ ~Lifecycle!HasOpen(c) /\ c.state = "CLOSED"
        /\ c.identity = x.identity /\ c.linked = x.linked /\ c.cursor = x.cursor
        /\ c.closedAt = x.closedAt \/ c.closedAt = e.at \/ c.closedAt = 0
    BY <1>1, <1>2, <1>4, <2>1, RowEnds
  <2>3. n \in Nat /\ n >= e.at /\ n >= x.cursor
    BY <1>1, <1>2, <2>2 DEF LifecycleRow, n
  <2>4. /\ y \in LifecycleRow /\ y.cycles = c.cycles /\ y.state = c.state
        /\ y.identity = c.identity /\ y.linked = c.linked /\ y.cursor = n /\ y.closedAt = c.closedAt
    BY <2>1, <2>2, <2>3 DEF LifecycleRow
  <2> HIDE DEF y
  <2>5. RowFollows(y) /\ ~Lifecycle!HasOpen(y)
    BY <2>2, <2>4, <1>4 DEF RowFollows, Lifecycle!HasOpen
  <2>6. RowIsDated(y)
    <3>1. x.cursor \in Nat /\ x.closedAt \in Nat
      BY <1>2 DEF LifecycleRow
    <3> QED
      BY <1>1, <1>2, <2>2, <2>3, <2>4, <3>1 DEF RowIsDated
  <2> QED
    BY <2>2, <2>3, <2>4, <2>5, <2>6 DEF y, Lifecycle!Terminal
<1> QED
  BY <1>3, <1>4

LEMMA CloseApplyKeeps ==
  ASSUME LifecycleInv, NEW e, Lifecycle!CloseApply(e)
  PROVE  LifecycleInv' /\ ClosedStay
<1> DEFINE i == Lifecycle!InstanceOf(e)
           resolved == [inst EXCEPT ![i] = Lifecycle!ResolvedByHuman(@)]
<1>1. /\ e \in closing /\ closing' = closing \ {e}
      /\ UNCHANGED <<provider, ledger, assigner, watch>>
  BY DEF Lifecycle!CloseApply
<1>2. CASE ~Lifecycle!Closes(e)
  <2>1. UNCHANGED <<support, inst>>
    BY <1>2 DEF Lifecycle!CloseApply
  <2> QED
    BY <1>1, <2>1, SupportKeeps DEF LifecycleInv, LifecycleTyped, CyclesStand, IdentitiesHold
<1>3. CASE Lifecycle!Closes(e)
  <2>1. /\ support' = [support EXCEPT !.state = "closed", !.until = e.at, !.known = ledger]
        /\ inst' = [j \in Lifecycle!Instances |-> Lifecycle!ClosedInstance(resolved[j], e.at)]
    BY <1>3 DEF Lifecycle!CloseApply
  <2>2. i \in Lifecycle!Instances
    BY DEF Lifecycle!InstanceOf, Lifecycle!Instances
  <2> HIDE DEF i
  <2>3. inst \in [Lifecycle!Instances -> LifecycleRow]
    BY DEF LifecycleInv, LifecycleTyped
  <2>4. ASSUME NEW j \in Lifecycle!Instances PROVE RowMay(inst[j], resolved[j])
    BY <2>2, <2>3, RowResolved, RowRests
  <2> HIDE DEF resolved
  <2>5. ASSUME NEW j \in Lifecycle!Instances
        PROVE  /\ inst'[j] \in LifecycleRow /\ RowFollows(inst'[j]) /\ RowIsDated(inst'[j])
               /\ inst'[j].identity = inst[j].identity /\ inst'[j].linked = inst[j].linked
               /\ inst[j].state \in Lifecycle!Terminal => inst'[j].state \in Lifecycle!Terminal
               /\ inst'[j].linked => /\ inst'[j].state \in Lifecycle!Terminal
                                     /\ ~Lifecycle!HasOpen(inst'[j]) /\ inst'[j].cursor >= e.at
    <3>1. inst'[j] = Lifecycle!ClosedInstance(resolved[j], e.at)
      BY <2>1
    <3>2. RowMay(inst[j], resolved[j])
      BY <2>4
    <3>3. /\ resolved[j].identity = inst[j].identity /\ resolved[j].linked = inst[j].linked
          /\ inst[j].state \in Lifecycle!Terminal => resolved[j].state \in Lifecycle!Terminal
      BY <3>2 DEF RowMay
    <3> QED
      BY <1>1, <3>1, <3>2, <3>3, RowClosed
  <2>6. /\ support \in LifecycleSupport /\ support.state # "none" /\ e.at \in Nat
        /\ ledger \in SUBSET LifecycleEvent
    BY <1>1, <1>3 DEF Lifecycle!Closes, LifecycleInv, LifecycleTyped, LifecycleEvent,
                      LifecycleProvider
  <2>7. /\ support' \in LifecycleSupport /\ support'.known = ledger
        /\ support'.until = e.at /\ support'.state = "closed"
    BY <2>1, <2>6 DEF LifecycleSupport
  <2>8. inst' \in [Lifecycle!Instances -> LifecycleRow]
    BY <2>1, <2>5
  <2>9. LifecycleTyped'
    BY <1>1, <2>7, <2>8 DEF LifecycleInv, LifecycleTyped
  <2>10. CyclesStand'
    BY <1>1, <2>6, <2>7 DEF LifecycleInv, CyclesStand
  <2>11. RowsFollow'
    BY <1>1, <2>5 DEF RowsFollow, RowIsDated
  <2>12. \A w \in Watchdogs : watch[w].inst \in Lifecycle!Instances
    BY DEF LifecycleInv, LifecycleTyped, LifecycleWatch
  <2>13. assigner.found \subseteq Lifecycle!Instances
    BY DEF LifecycleInv, LifecycleTyped
  <2>14. IdentitiesHold'
    BY <1>1, <2>5, <2>12, <2>13, LifecycleNames
       DEF LifecycleInv, IdentitiesHold, Canonical, Exists
  <2>15. QuietAfterClosure'
    <3>1. ASSUME NEW j \in Lifecycle!Instances PROVE RowIsQuiet(j)'
      <4>1. inst'[j].linked => inst'[j].cursor >= e.at /\ inst'[j].cursor \in Nat
        BY <2>5 DEF LifecycleRow
      <4> QED
        BY <2>5, <2>6, <2>7, <4>1 DEF RowIsQuiet
    <3> QED
      BY <3>1 DEF QuietAfterClosure
  <2>16. ClosedStay
    BY <2>5 DEF ClosedStay, Lifecycle!Terminal
  <2> QED
    BY <2>9, <2>10, <2>11, <2>14, <2>15, <2>16 DEF LifecycleInv
<1> QED
  BY <1>2, <1>3

(***************************************************************************)
(* A step of a row that is in use: with its identity, link and cursor, it  *)
(* takes another state, which is not CLOSED.                               *)
(***************************************************************************)
RowWorks(x, y) ==
    /\ y \in LifecycleRow /\ RowFollows(y) /\ y.identity = "known"
    /\ y.linked = x.linked /\ y.cursor = x.cursor
    /\ y.closedAt = x.closedAt \/ y.closedAt = 0

LEMMA RowGoesOn ==
  ASSUME NEW x \in LifecycleRow, RowFollows(x), x.identity = "known",
         NEW to \in LifecycleState, to # x.state, to # "CLOSED", NEW reopen \in BOOLEAN,
         x.state \in Lifecycle!Terminal /\ to \notin Lifecycle!Terminal => reopen = TRUE
  PROVE  LET y == Lifecycle!Transitioned(x, to, reopen, 0) IN RowWorks(x, y) /\ y.state = to
<1> DEFINE t == Lifecycle!Transitioned(x, to, reopen, 0)
<1>1. x.identity # "absent" /\ 0 \in Nat
  OBVIOUS
<1>2. t \in LifecycleRow /\ RowFollows(t) /\ t.identity = "known" /\ t.linked = x.linked
      /\ t.state = to
  BY ZenonT(60), <1>1, RowTransitioned
<1>3. t.cursor = x.cursor
  BY ZenonT(60), <1>1, RowTransitioned
<1>4. t.closedAt = x.closedAt \/ t.closedAt = 0
  BY ZenonT(60), <1>1, RowTransitioned
<1> QED
  BY <1>2, <1>3, <1>4 DEF RowWorks

(***************************************************************************)
(* What an event does to the state of its row: one that has ended moves    *)
(* for an entry only.                                                      *)
(***************************************************************************)
LEMMA RowAffected ==
  ASSUME NEW x \in LifecycleRow, RowFollows(x), x.identity = "known",
         NEW e, NEW created \in BOOLEAN, created => x.state = "RECEIVED"
  PROVE  LET z == Lifecycle!Effect(x, e, created) IN
         /\ RowWorks(x, z)
         /\ x.state \in Lifecycle!Terminal /\ e.type # "entered" => z = x
<1> DEFINE y == IF x.state = "RECEIVED" THEN Lifecycle!Transitioned(x, "NORMALIZED", FALSE, 0) ELSE x
           z == Lifecycle!Effect(x, e, created)
<1>2. /\ "NORMALIZED" \in LifecycleState /\ "QUEUE_PENDING" \in LifecycleState
      /\ "HUMAN_IN_PROGRESS" \in LifecycleState /\ "IGNORED" \in LifecycleState
      /\ FALSE \in BOOLEAN /\ TRUE \in BOOLEAN
  BY DEF LifecycleState
<1>3. RowWorks(x, y) /\ (x.state # "RECEIVED" => y = x) /\ (x.state = "RECEIVED" => y.state = "NORMALIZED")
  <2>1. CASE x.state = "RECEIVED"
    <3>1. "NORMALIZED" # x.state /\ x.state \notin Lifecycle!Terminal
      BY <2>1 DEF Lifecycle!Terminal
    <3>2. y = Lifecycle!Transitioned(x, "NORMALIZED", FALSE, 0)
      BY <2>1
    <3> HIDE DEF y
    <3>3. RowWorks(x, y) /\ y.state = "NORMALIZED"
      BY <1>2, <3>1, <3>2, RowGoesOn
    <3> QED
      BY <2>1, <3>3
  <2>2. CASE x.state # "RECEIVED"
    BY <2>2 DEF RowWorks
  <2> QED
    BY <2>1, <2>2
<1>4. z = CASE e.type = "entered" -> Lifecycle!Transitioned(y, "QUEUE_PENDING", TRUE, 0)
            [] e.type = "sent" /\ ~created /\ y.state = "HUMAN_ASSIGNED" ->
                  Lifecycle!Transitioned(y, "HUMAN_IN_PROGRESS", FALSE, 0)
            [] e.type = "sent" /\ created -> Lifecycle!Transitioned(y, "IGNORED", FALSE, 0)
            [] OTHER -> y
  BY DEF Lifecycle!Effect
<1>5. x.state \in Lifecycle!Terminal => y = x
  BY <1>3 DEF Lifecycle!Terminal
<1> HIDE DEF y, z
<1>6. y \in LifecycleRow /\ RowFollows(y) /\ y.identity = "known"
  BY <1>3 DEF RowWorks
<1>7. CASE e.type = "entered"
  <2>1. z = Lifecycle!Transitioned(y, "QUEUE_PENDING", TRUE, 0)
    BY <1>4, <1>7
  <2>2. CASE y.state = "QUEUE_PENDING"
    <3>1. z = y
      BY <2>1, <2>2 DEF Lifecycle!Transitioned, Lifecycle!TransitionedOnly
    <3> QED
      BY <1>3, <1>7, <3>1 DEF z, RowWorks
  <2>3. CASE y.state # "QUEUE_PENDING"
    <3>1. RowWorks(y, z)
      BY <1>2, <1>6, RowGoesOn, <2>1, <2>3
    <3> QED
      BY <1>3, <1>7, <3>1 DEF z, RowWorks
  <2> QED
    BY <2>2, <2>3
<1>8. CASE e.type = "sent" /\ ~created /\ y.state = "HUMAN_ASSIGNED"
  <2>1. z = Lifecycle!Transitioned(y, "HUMAN_IN_PROGRESS", FALSE, 0)
    BY <1>4, <1>8
  <2>2. "HUMAN_IN_PROGRESS" # y.state /\ y.state \notin Lifecycle!Terminal
    BY <1>8 DEF Lifecycle!Terminal
  <2>3. RowWorks(y, z)
    BY <1>2, <1>6, RowGoesOn, <2>1, <2>2
  <2> QED
    BY <1>3, <1>5, <2>2, <2>3 DEF z, RowWorks
<1>9. CASE e.type = "sent" /\ created
  <2>1. z = Lifecycle!Transitioned(y, "IGNORED", FALSE, 0)
    BY <1>4, <1>9
  <2>2. y.state = "NORMALIZED" /\ x.state = "RECEIVED"
    BY <1>3, <1>9
  <2>3. "IGNORED" # y.state /\ y.state \notin Lifecycle!Terminal /\ x.state \notin Lifecycle!Terminal
    BY <2>2 DEF Lifecycle!Terminal
  <2>4. RowWorks(y, z)
    BY <1>2, <1>6, RowGoesOn, <2>1, <2>3
  <2> QED
    BY <1>3, <2>3, <2>4 DEF z, RowWorks
<1>10. CASE ~(e.type = "entered") /\ ~(e.type = "sent" /\ ~created /\ y.state = "HUMAN_ASSIGNED")
            /\ ~(e.type = "sent" /\ created)
  <2>1. z = y
    BY <1>4, <1>10
  <2> QED
    BY <1>3, <1>5, <2>1 DEF z, RowWorks
<1> QED
  BY <1>7, <1>8, <1>9, <1>10

(***************************************************************************)
(* The row that follows an event: never a superseded one, and once the     *)
(* ticket has an entry, never a new placeholder beside its thread.         *)
(***************************************************************************)
RecordedRow(e) ==
    LET i == Lifecycle!InstanceOf(e)
    IN IF inst[i].identity = "absent" THEN Lifecycle!NewInstance(i) ELSE inst[i]

LEMMA RowRecorded ==
  ASSUME LifecycleInv, NEW e \in provider.events
  PROVE  LET i == Lifecycle!InstanceOf(e)
             x == RecordedRow(e)
         IN /\ i \in Lifecycle!Instances
            /\ x \in LifecycleRow /\ RowFollows(x) /\ RowIsDated(x) /\ x.identity = "known"
            /\ inst[i].identity = "absent" => x.state = "RECEIVED"
            /\ inst[i].identity # "absent" => x = inst[i]
            /\ inst[i].identity = "absent" /\ (\E f \in ledger : f.type # "sent") => ~x.linked
            /\ i = "thread" /\ Canonical => x = inst[i]
<1> DEFINE i == Lifecycle!InstanceOf(e)
           x == RecordedRow(e)
<1>1. i \in Lifecycle!Instances
  BY DEF Lifecycle!InstanceOf, Lifecycle!Instances
<1>2. inst[i] \in LifecycleRow /\ RowFollows(inst[i]) /\ RowIsDated(inst[i])
  BY <1>1, RowRests DEF LifecycleInv, RowsFollow
<1>3. inst["placeholder"] \in LifecycleRow /\ inst["thread"] \in LifecycleRow
  BY LifecycleNames, RowRests
<1>4. i = "thread" \/ (i = "placeholder" /\ (inst["placeholder"].identity = "known" \/ ~Canonical))
  BY DEF Lifecycle!InstanceOf, Canonical
<1>5. inst[i].identity # "superseded"
  BY <1>3, <1>4 DEF LifecycleInv, IdentitiesHold
<1> HIDE DEF i
<1>6. CASE inst[i].identity = "absent"
  <2>1. x = [Lifecycle!Absent EXCEPT !.identity = "known", !.linked = (i = "placeholder")]
    BY <1>6 DEF RecordedRow, Lifecycle!NewInstance, i
  <2>2. "RECEIVED" \in LifecycleState /\ <<>> \in Seq({"open", "closed"})
    BY DEF LifecycleState
  <2>3. x = [identity |-> "known", linked |-> (i = "placeholder"), state |-> "RECEIVED",
             cycles |-> <<>>, cursor |-> 0, closedAt |-> 0, failures |-> 0]
    BY <2>1 DEF Lifecycle!Absent
  <2>5. (i = "placeholder") \in BOOLEAN
    OBVIOUS
  <2> HIDE DEF x
  <2>11. x.linked = (i = "placeholder")
    BY <2>3
  <2>4. /\ x.identity = "known" /\ x.state = "RECEIVED" /\ x.cycles = <<>> /\ x.closedAt = 0
        /\ x.linked => i = "placeholder"
    BY <2>3, <2>11
  <2>6. x \in LifecycleRow
    BY <2>2, <2>3, <2>5 DEF LifecycleRow
  <2>7. DOMAIN x.cycles = {}
    BY <2>4
  <2>12. RowIsDated(x)
    BY <2>4, <2>6 DEF RowIsDated, LifecycleRow
  <2>8. RowFollows(x) /\ RowIsDated(x)
    BY <2>4, <2>7, <2>12 DEF RowFollows
  <2>9. (\E f \in ledger : f.type # "sent") => ~x.linked
    BY <1>4, <1>6, <2>4 DEF LifecycleInv, IdentitiesHold, Exists
  <2>10. ~(i = "thread" /\ Canonical)
    BY <1>6 DEF Canonical
  <2> QED
    BY <1>1, <1>6, <2>4, <2>6, <2>8, <2>9, <2>10 DEF x, i
<1>7. CASE inst[i].identity # "absent"
  <2>1. x = inst[i]
    BY <1>7 DEF RecordedRow, i
  <2>2. inst[i].identity = "known"
    BY <1>2, <1>5, <1>7 DEF LifecycleRow
  <2> QED
    BY <1>1, <1>2, <1>7, <2>1, <2>2 DEF i
<1> QED
  BY <1>6, <1>7

(***************************************************************************)
(* What recording an event makes of that row: an ended row moves only for  *)
(* a new entry that is not late.                                           *)
(***************************************************************************)
News(x, e) == e.type = "entered" /\ e \notin ledger /\ ~Lifecycle!Stale(x, e)

LEMMA RowWritten ==
  ASSUME LifecycleInv, NEW e, Lifecycle!Record(e)
  PROVE  LET i == Lifecycle!InstanceOf(e)
             x == RecordedRow(e)
             z == inst'[i]
         IN /\ inst' = [inst EXCEPT ![i] = z]
            /\ z \in LifecycleRow /\ RowFollows(z) /\ RowIsDated(z)
            /\ z.identity = "known" /\ z.linked = x.linked /\ z.cursor >= x.cursor
            /\ x.state \in Lifecycle!Terminal /\ ~News(x, e) =>
                    /\ z.state = x.state
                    /\ Lifecycle!HasOpen(z) => Lifecycle!HasOpen(x)
<1> DEFINE i == Lifecycle!InstanceOf(e)
           created == inst[i].identity = "absent"
           x == RecordedRow(e)
           y == IF Lifecycle!Stale(x, e) \/ e.type = "closed" THEN x ELSE Lifecycle!Refreshed(x, e)
           w == Lifecycle!Effect(y, e, created)
           z == IF e \in ledger \/ Lifecycle!Stale(x, e) THEN y ELSE Lifecycle!Ensured(w)
<1>1. e \in provider.events /\ inst' = [inst EXCEPT ![i] = z]
  BY DEF Lifecycle!Record, RecordedRow
<1>2. /\ inst \in [Lifecycle!Instances -> LifecycleRow] /\ e.when \in Nat
  BY <1>1 DEF LifecycleInv, LifecycleTyped, LifecycleEvent, LifecycleProvider
<1>3. /\ i \in Lifecycle!Instances
      /\ x \in LifecycleRow /\ RowFollows(x) /\ RowIsDated(x) /\ x.identity = "known"
      /\ created => x.state = "RECEIVED"
  BY <1>1, RowRecorded
<1>4. created \in BOOLEAN
  OBVIOUS
<1> HIDE DEF x, i, created
<1>5. /\ y \in LifecycleRow /\ y.identity = "known" /\ y.linked = x.linked
      /\ y.state = x.state /\ y.cycles = x.cycles /\ y.closedAt = x.closedAt
      /\ y.cursor >= x.cursor
  <2>1. x.cursor \in Nat
    BY <1>3 DEF LifecycleRow
  <2>2. CASE Lifecycle!Stale(x, e) \/ e.type = "closed"
    BY <1>3, <2>1, <2>2
  <2>3. CASE ~(Lifecycle!Stale(x, e) \/ e.type = "closed")
    <3>1. y = IF e.when = 0 THEN x ELSE [x EXCEPT !.cursor = e.when]
      BY <2>3 DEF Lifecycle!Refreshed
    <3>2. e.when # 0 => e.when >= x.cursor
      BY <1>2, <2>1, <2>3 DEF Lifecycle!Stale
    <3> QED
      BY <1>2, <1>3, <2>1, <3>1, <3>2 DEF LifecycleRow
  <2> QED
    BY <2>2, <2>3
<1> HIDE DEF y
<1>6. RowFollows(y) /\ (Lifecycle!HasOpen(y) <=> Lifecycle!HasOpen(x))
  BY <1>3, <1>5 DEF RowFollows, Lifecycle!HasOpen
<1>7. x.cursor \in Nat /\ x.closedAt \in Nat /\ y.cursor \in Nat
  BY <1>3, <1>5 DEF LifecycleRow
<1>8. CASE e \in ledger \/ Lifecycle!Stale(x, e)
  <2>1. z = y
    BY <1>8
  <2>2. RowIsDated(y)
    BY <1>3, <1>5, <1>7 DEF RowIsDated
  <2> HIDE DEF z
  <2>3. inst'[i] = z
    BY <1>1, <1>2, <1>3
  <2> QED
    BY <1>1, <1>5, <1>6, <2>1, <2>2, <2>3 DEF x, i
<1>9. CASE ~(e \in ledger \/ Lifecycle!Stale(x, e))
  <2>1. z = Lifecycle!Ensured(w)
    BY <1>9
  <2>2. /\ RowWorks(y, w)
        /\ y.state \in Lifecycle!Terminal /\ e.type # "entered" => w = y
    BY <1>3, <1>4, <1>5, <1>6, RowAffected
  <2> HIDE DEF w
  <2>3. /\ w \in LifecycleRow /\ RowFollows(w) /\ w.identity = "known" /\ w.identity # "absent"
        /\ w.linked = y.linked /\ w.cursor = y.cursor
        /\ w.closedAt = y.closedAt \/ w.closedAt = 0
    BY <2>2 DEF RowWorks
  <2>4. /\ z \in LifecycleRow /\ RowFollows(z) /\ z = [w EXCEPT !.cycles = z.cycles]
        /\ Lifecycle!HasOpen(z) <=> Lifecycle!HasOpen(w) \/ w.state \notin Lifecycle!Terminal
    BY <2>1, <2>3, RowEnsured
  <2> HIDE DEF z
  <2>5. /\ z.identity = w.identity /\ z.linked = w.linked /\ z.cursor = w.cursor
        /\ z.closedAt = w.closedAt /\ z.state = w.state
    BY <2>3, <2>4 DEF LifecycleRow
  <2>6. RowIsDated(z)
    BY <1>3, <1>5, <1>7, <2>3, <2>5 DEF RowIsDated
  <2>7. x.state \in Lifecycle!Terminal /\ ~News(x, e) =>
            z.state = x.state /\ (Lifecycle!HasOpen(z) => Lifecycle!HasOpen(x))
    BY <1>5, <1>6, <1>9, <2>2, <2>4, <2>5 DEF News
  <2>8. inst'[i] = z
    BY <1>1, <1>2, <1>3
  <2> QED
    BY <1>1, <1>5, <2>3, <2>4, <2>5, <2>6, <2>7, <2>8 DEF x, i
<1> QED
  BY <1>8, <1>9

(***************************************************************************)
(* An entry that reopens a row is not dated before its closure nor, once   *)
(* the ticket is closed, before that of the support cycle.                 *)
(***************************************************************************)
NewsReopens == \A i \in Lifecycle!Instances :
    inst[i].state = "CLOSED" /\ inst'[i].state \notin Lifecycle!Terminal =>
        \E e \in ledger' \ ledger : e.type = "entered" /\ Lifecycle!NotBefore(e, inst[i].closedAt)

LEMMA RecordKeeps ==
  ASSUME LifecycleInv, NEW e, Lifecycle!Record(e)
  PROVE  LifecycleInv' /\ NewsReopens
<1> DEFINE i == Lifecycle!InstanceOf(e)
           x == RecordedRow(e)
           z == inst'[i]
<1>1. /\ e \in provider.events /\ ledger' = ledger \cup {e}
      /\ UNCHANGED <<provider, support, closing, assigner, watch>>
  BY DEF Lifecycle!Record, Lifecycle!Appended
<1>2. /\ inst' = [inst EXCEPT ![i] = z]
      /\ z \in LifecycleRow /\ RowFollows(z) /\ RowIsDated(z)
      /\ z.identity = "known" /\ z.linked = x.linked /\ z.cursor >= x.cursor
      /\ x.state \in Lifecycle!Terminal /\ ~News(x, e) =>
              z.state = x.state /\ (Lifecycle!HasOpen(z) => Lifecycle!HasOpen(x))
  BY RowWritten
<1>3. /\ i \in Lifecycle!Instances /\ x \in LifecycleRow /\ RowIsDated(x)
      /\ inst[i].identity = "absent" => x.state = "RECEIVED"
      /\ inst[i].identity # "absent" => x = inst[i]
      /\ inst[i].identity = "absent" /\ (\E f \in ledger : f.type # "sent") => ~x.linked
      /\ i = "thread" /\ Canonical => x = inst[i]
  BY <1>1, RowRecorded
<1> HIDE DEF x, z
<1>4. /\ inst \in [Lifecycle!Instances -> LifecycleRow] /\ inst[i] \in LifecycleRow
      /\ RowFollows(inst[i])
      /\ inst' \in [Lifecycle!Instances -> LifecycleRow] /\ inst'[i] = z
      /\ \A j \in Lifecycle!Instances : j # i => inst'[j] = inst[j]
  BY <1>2, <1>3 DEF LifecycleInv, LifecycleTyped, RowsFollow
<1>5. /\ x.cursor \in Nat /\ x.closedAt \in Nat /\ z.cursor \in Nat
      /\ e.when \in Nat /\ support.until \in Nat
  BY <1>1, <1>2, <1>3 DEF LifecycleInv, LifecycleTyped, LifecycleRow, LifecycleEvent,
                          LifecycleProvider, LifecycleSupport
<1>6. LifecycleTyped'
  BY <1>1, <1>4 DEF LifecycleInv, LifecycleTyped
<1>7. CyclesStand'
  BY <1>1 DEF LifecycleInv, CyclesStand
<1>8. ASSUME NEW j \in Lifecycle!Instances PROVE RowFollows(inst'[j]) /\ RowIsDated(inst'[j])
  BY <1>2, <1>4 DEF LifecycleInv, RowsFollow
<1>9. RowsFollow'
  BY <1>1, <1>8 DEF RowsFollow, RowIsDated
<1>10. IdentitiesHold'
  <2>1. \A j \in Lifecycle!Instances : Exists(j) => Exists(j)'
    BY <1>2, <1>4 DEF Exists
  <2>2. i = "placeholder" \/ i = "thread"
    BY DEF Lifecycle!InstanceOf
  <2>3. Canonical => Canonical'
    <3>1. CASE i = "thread"
      BY <3>1, <1>2, <1>3, <1>4 DEF Canonical
    <3>2. CASE i = "placeholder"
      BY <3>2, <1>4, LifecycleNames DEF Canonical
    <3> QED
      BY <2>2, <3>1, <3>2
  <2>4. inst'["thread"].identity # "superseded"
    BY <1>2, <1>4, LifecycleNames DEF LifecycleInv, IdentitiesHold
  <2>5. inst'["placeholder"].identity = "superseded" => inst["placeholder"].identity = "superseded"
    BY <1>2, <1>4, LifecycleNames
  <2>6. e.type # "sent" => Exists("placeholder")' \/ Canonical'
    <3>1. CASE i = "placeholder"
      BY <3>1, <1>2, <1>4 DEF Exists
    <3>2. CASE i = "thread"
      BY <3>2, <2>3 DEF Lifecycle!InstanceOf, Canonical
    <3> QED
      BY <2>2, <3>1, <3>2
  <2>7. (\E f \in ledger' : f.type # "sent") => Exists("placeholder")' \/ Canonical'
    BY <1>1, <2>1, <2>3, <2>6, LifecycleNames DEF LifecycleInv, IdentitiesHold
  <2>8. \A w \in Watchdogs : watch[w].inst \in Lifecycle!Instances
    BY DEF LifecycleInv, LifecycleTyped, LifecycleWatch
  <2>9. assigner.found \subseteq Lifecycle!Instances
    BY DEF LifecycleInv, LifecycleTyped
  <2> QED
    BY <1>1, <2>1, <2>3, <2>4, <2>5, <2>7, <2>8, <2>9 DEF LifecycleInv, IdentitiesHold
<1>11. QuietAfterClosure'
  <2> SUFFICES ASSUME (support.state = "closed" /\ ~Lifecycle!NewsSinceClosure)',
                      NEW j \in Lifecycle!Instances
               PROVE  RowIsQuiet(j)'
    BY DEF QuietAfterClosure
  <2>1. \A k \in Lifecycle!Instances : RowIsQuiet(k)
    BY <1>1 DEF LifecycleInv, QuietAfterClosure, Lifecycle!NewsSinceClosure
  <2>2. PICK f \in ledger : f.type = "entered"
    BY <1>1 DEF LifecycleInv, CyclesStand
  <2>3. support.known \subseteq ledger
    BY DEF LifecycleInv, LifecycleTyped
  <2>4. CASE j # i
    BY <2>1, <2>4, <1>1, <1>4 DEF RowIsQuiet
  <2>5. CASE j = i /\ ~z.linked
    BY <2>5, <1>4 DEF RowIsQuiet
  <2>6. CASE j = i /\ z.linked
    <3>1. x = inst[i] /\ x.linked
      BY <1>2, <1>3, <2>2, <2>6
    <3>2. x.state \in Lifecycle!Terminal /\ ~Lifecycle!HasOpen(x) /\ x.cursor >= support.until
      BY <1>3, <2>1, <3>1 DEF RowIsQuiet
    <3>3. ~News(x, e)
      <4> SUFFICES ASSUME News(x, e) PROVE FALSE
        OBVIOUS
      <4>1. e \in ledger' \ support.known /\ e.type = "entered"
        BY <1>1, <2>3 DEF News
      <4>2. ~Lifecycle!NotBefore(e, support.until)
        BY <1>1, <4>1 DEF Lifecycle!NewsSinceClosure, Lifecycle!NotBefore
      <4> QED
        BY <1>5, <3>2, <4>2 DEF News, Lifecycle!Stale, Lifecycle!NotBefore
    <3>4. z.state \in Lifecycle!Terminal /\ ~Lifecycle!HasOpen(z) /\ z.cursor >= support.until
      BY <1>2, <1>5, <3>2, <3>3
    <3> QED
      BY <1>1, <1>4, <2>6, <3>4 DEF RowIsQuiet
  <2> QED
    BY <2>4, <2>5, <2>6
<1>12. NewsReopens
  <2> SUFFICES ASSUME NEW j \in Lifecycle!Instances, inst[j].state = "CLOSED",
                      inst'[j].state \notin Lifecycle!Terminal
               PROVE  \E f \in ledger' \ ledger :
                        f.type = "entered" /\ Lifecycle!NotBefore(f, inst[j].closedAt)
    BY DEF NewsReopens
  <2>1. j = i
    BY <1>4 DEF Lifecycle!Terminal
  <2>2. inst[i].identity # "absent"
    BY <1>4, <2>1 DEF RowFollows, Lifecycle!Absent
  <2>3. x = inst[i] /\ x.state \in Lifecycle!Terminal
    BY <1>3, <2>1, <2>2 DEF Lifecycle!Terminal
  <2>4. News(x, e)
    BY <1>2, <1>4, <2>1, <2>3
  <2>5. Lifecycle!NotBefore(e, x.closedAt)
    BY <1>3, <1>5, <2>4 DEF News, Lifecycle!Stale, Lifecycle!NotBefore, RowIsDated
  <2> QED
    BY <1>1, <2>1, <2>3, <2>4, <2>5 DEF News
<1> QED
  BY <1>6, <1>7, <1>9, <1>10, <1>11, <1>12 DEF LifecycleInv

LEMMA LifecycleInitially == Lifecycle!Init => LifecycleInv
<1> SUFFICES ASSUME Lifecycle!Init PROVE LifecycleInv
  OBVIOUS
<1>1. /\ provider = [now |-> 0, count |-> 0, odd |-> 0, events |-> {}, entered |-> 0,
                     closed |-> FALSE]
      /\ ledger = {} /\ closing = {}
      /\ inst \in [Lifecycle!Instances -> Lifecycle!Legacy]
      /\ support = [entry |-> 0, state |-> "none", until |-> 0, known |-> {}]
      /\ assigner = [pc |-> "idle", found |-> {}]
      /\ watch = [w \in Watchdogs |-> Lifecycle!IdleWatchdog]
  BY DEF Lifecycle!Init, Lifecycle!Cycle
<1>2. ASSUME NEW x \in Lifecycle!Legacy
      PROVE  /\ x \in LifecycleRow /\ x.cycles = <<>> /\ x.closedAt = 0
             /\ x = Lifecycle!Absent \/ x.identity = "known"
  <2>1. "RECEIVED" \in LifecycleState /\ <<>> \in Seq({"open", "closed"})
        /\ LegacyStates \subseteq LifecycleState
    BY GuardsAssumption DEF LifecycleState, Lifecycle!LifecycleAssumption
  <2>2. CASE x = Lifecycle!Absent
    BY <2>1, <2>2 DEF Lifecycle!Absent, LifecycleRow
  <2>3. ASSUME NEW s \in LegacyStates,
               x = [Lifecycle!NewInstance("placeholder") EXCEPT !.state = s]
        PROVE  x \in LifecycleRow /\ x.cycles = <<>> /\ x.closedAt = 0 /\ x.identity = "known"
    <3>1. x = [identity |-> "known", linked |-> TRUE, state |-> s, cycles |-> <<>>, cursor |-> 0,
               closedAt |-> 0, failures |-> 0]
      BY <2>3 DEF Lifecycle!NewInstance, Lifecycle!Absent
    <3> QED
      BY <2>1, <3>1 DEF LifecycleRow
  <2> QED
    BY <2>2, <2>3 DEF Lifecycle!Legacy
<1>3. \A i \in Lifecycle!Instances :
        /\ inst[i] \in LifecycleRow /\ inst[i].cycles = <<>> /\ inst[i].closedAt = 0
        /\ inst[i] = Lifecycle!Absent \/ inst[i].identity = "known"
  BY <1>1, <1>2
<1>4. provider \in LifecycleProvider /\ support \in LifecycleSupport
  BY <1>1 DEF LifecycleProvider, LifecycleSupport
<1>5. watch \in [Watchdogs -> LifecycleWatch] /\ \A w \in Watchdogs : watch[w].pc = "idle"
  BY <1>1, LifecycleNames
<1>6. LifecycleTyped
  BY <1>1, <1>3, <1>4, <1>5 DEF LifecycleTyped
<1>7. CyclesStand /\ QuietAfterClosure
  BY <1>1 DEF CyclesStand, QuietAfterClosure
<1>8. ASSUME NEW i \in Lifecycle!Instances PROVE RowFollows(inst[i]) /\ RowIsDated(inst[i])
  <2>1. inst[i].cycles = <<>> /\ inst[i].closedAt = 0
        /\ (inst[i] = Lifecycle!Absent \/ inst[i].identity = "known")
    BY <1>3
  <2>2. DOMAIN inst[i].cycles = {}
    BY <2>1
  <2>3. inst[i].identity # "superseded" /\ (inst[i].identity = "absent" => inst[i] = Lifecycle!Absent)
    BY <2>1 DEF Lifecycle!Absent
  <2>4. RowIsDated(inst[i])
    BY <1>3 DEF RowIsDated, LifecycleRow
  <2> QED
    BY <2>1, <2>2, <2>3, <2>4 DEF RowFollows
<1>9. inst["thread"].identity # "superseded" /\ inst["placeholder"].identity # "superseded"
  BY <1>3, LifecycleNames DEF Lifecycle!Absent
<1>10. IdentitiesHold
  BY <1>1, <1>5, <1>9 DEF IdentitiesHold
<1> QED
  BY <1>6, <1>7, <1>8, <1>10 DEF LifecycleInv, RowsFollow

LEMMA LifecycleStep ==
  LifecycleInv /\ [Lifecycle!Next]_Lifecycle!vars => LifecycleInv' /\ NewsReopens
<1> SUFFICES ASSUME LifecycleInv, [Lifecycle!Next]_Lifecycle!vars
             PROVE  LifecycleInv' /\ NewsReopens
  OBVIOUS
<1>1. ClosedStay => NewsReopens
  BY DEF ClosedStay, NewsReopens
<1>2. ASSUME NEW type \in {"entered", "closed", "other", "sent"},
             NEW at \in ({provider.now} \ {0}) \cup {provider.now + 1},
             NEW when \in {0} \cup (at..(at + MaxLag)), Lifecycle!ProviderEvent(type, at, when)
      PROVE  LifecycleInv' /\ NewsReopens
  <2>1. provider.now \in Nat /\ MaxLag \in Nat
    BY GuardsAssumption DEF Lifecycle!LifecycleAssumption, LifecycleInv, LifecycleTyped,
                            LifecycleProvider
  <2>2. at \in Nat \ {0}
    BY <2>1
  <2>3. when \in Nat
    BY <2>1, <2>2
  <2> QED
    BY <1>1, <1>2, <2>2, <2>3, ProviderKeeps
<1>3. ASSUME NEW e \in provider.events,
             Lifecycle!Record(e) \/ Lifecycle!Enqueue(e) \/ Lifecycle!CloseRead(e)
                \/ Lifecycle!CloseApply(e)
      PROVE  LifecycleInv' /\ NewsReopens
  BY <1>1, <1>3, RecordKeeps, EnqueueKeeps, CloseReadKeeps, CloseApplyKeeps
<1>4. CASE Lifecycle!Assign \/ Lifecycle!AssignRead \/ Lifecycle!AssignApply
  BY <1>1, <1>4, AssignKeeps, AssignReadKeeps, AssignApplyKeeps
<1>5. ASSUME NEW w \in Watchdogs, Lifecycle!Watch(w)
      PROVE  LifecycleInv' /\ NewsReopens
  BY <1>1, <1>5, SupersedeKeeps, CountKeeps, MarkKeeps, GiveUpKeeps DEF Lifecycle!Watch
<1>6. ASSUME NEW w \in Watchdogs, NEW i \in Lifecycle!Instances, Lifecycle!Scan(w, i)
      PROVE  LifecycleInv' /\ NewsReopens
  BY <1>1, <1>6, ScanKeeps
<1>7. CASE UNCHANGED Lifecycle!vars
  <2>1. UNCHANGED <<provider, ledger, inst, support, closing, assigner, watch>>
    BY <1>7 DEF Lifecycle!vars
  <2>2. LifecycleInv' /\ ClosedStay
    BY <2>1, LifecycleNames, RowRests, RowsMove DEF LifecycleInv, LifecycleTyped, IdentitiesHold
  <2> QED
    BY <1>1, <2>2
<1> QED
  BY <1>2, <1>3, <1>4, <1>5, <1>6, <1>7 DEF Lifecycle!Next

(***************************************************************************)
(* For any watchdogs, budgets, legacy rows and events: only the last       *)
(* attendance of a conversation may be open, and it is open exactly while  *)
(* the conversation's state is not terminal.                               *)
(***************************************************************************)
THEOREM AttendancesFollow == Lifecycle!Spec => []AttendanceFollowsState
<1>1. LifecycleInv => AttendanceFollowsState
  BY DEF LifecycleInv, RowsFollow, RowFollows, AttendanceFollowsState,
         Lifecycle!AttendanceFollowsState
<1> QED
  BY <1>1, LifecycleInitially, LifecycleStep, PTL DEF Lifecycle!Spec

(***************************************************************************)
(* Once the closure of a ticket is applied, none of its conversations has  *)
(* an open attendance until an entry is recorded that is not dated before  *)
(* the closure: the placeholder is not created again, and the cursors keep *)
(* older entries out, whatever times the webhooks share or lack.           *)
(***************************************************************************)
THEOREM ClosureQuiets == Lifecycle!Spec => []ClosedTicketIsQuiet
<1>1. LifecycleInv => ClosedTicketIsQuiet
  BY DEF LifecycleInv, QuietAfterClosure, RowIsQuiet, ClosedTicketIsQuiet,
         Lifecycle!ClosedTicketIsQuiet
<1> QED
  BY <1>1, LifecycleInitially, LifecycleStep, PTL DEF Lifecycle!Spec

(***************************************************************************)
(* A closed conversation is reopened only by an entry recorded then for    *)
(* the first time and not dated before the closure, in whatever order the  *)
(* events are recorded and whatever times they share or lack.              *)
(***************************************************************************)
THEOREM NewsAloneReopens == Lifecycle!Spec => OnlyNewsReopens
<1>1. NewsReopens =>
        [\A i \in Lifecycle!Instances :
            (inst[i].state = "CLOSED" /\ inst'[i].state \notin Lifecycle!Terminal) =>
                \E e \in ledger' \ ledger :
                    e.type = "entered" /\ Lifecycle!NotBefore(e, inst[i].closedAt)
        ]_Lifecycle!vars
  BY DEF NewsReopens
<1> QED
  BY <1>1, LifecycleInitially, LifecycleStep, PTL
     DEF Lifecycle!Spec, OnlyNewsReopens, Lifecycle!OnlyNewsReopens
-----------------------------------------------------------------------------
(***************************************************************************)
(* CalendarRules: what MCGuards instantiates is what CalendarRules_proofs  *)
(* is about.                                                               *)
(***************************************************************************)
Proved == INSTANCE CalendarRules_proofs WITH Payloads <- {
    [kind |-> "service", priority |-> 1, today |-> TRUE, hours |-> TRUE],
    [kind |-> "absence", priority |-> 0, today |-> TRUE, hours |-> FALSE]}

LEMMA SameEdits ==
    /\ Calendar!Init => Proved!Init
    /\ \A q \in Requests :
        /\ \A k \in AuditKeys, f \in Calendar!Prints :
            Calendar!Ask(q, k, f) => f \in Proved!Prints /\ Proved!Ask(q, k, f)
        /\ Calendar!Audit(q) => Proved!Audit(q)
        /\ \A r \in Rules : Calendar!Lock(q, r) => Proved!Lock(q, r)
        /\ Calendar!Conflict(q) => Proved!Conflict(q)
        /\ Calendar!Commit(q) => Proved!Commit(q)
        /\ Calendar!Rollback(q) => Proved!Rollback(q)
        /\ Calendar!RecordFailure(q) => Proved!RecordFailure(q)
        /\ Calendar!Crash(q) => Proved!Crash(q)
<1> USE DEF Calendar!NoRule, Proved!NoRule, Calendar!Free, Proved!Free, Calendar!Idle, Proved!Idle,
            Calendar!Answers, Proved!Answers, Calendar!Prints, Proved!Prints,
            Calendar!Does, Proved!Does, Calendar!RuleOf, Proved!RuleOf,
            Calendar!Says, Proved!Says, Calendar!Expects, Proved!Expects
<1>1. Calendar!Init => Proved!Init
  BY DEF Calendar!Init, Proved!Init, Calendar!NoReading, Proved!NoReading
<1>2. ASSUME NEW q \in Requests, NEW k \in AuditKeys, NEW f \in Calendar!Prints,
             Calendar!Ask(q, k, f)
      PROVE  f \in Proved!Prints /\ Proved!Ask(q, k, f)
  BY <1>2 DEF Calendar!Ask, Proved!Ask
<1>3. ASSUME NEW q \in Requests, Calendar!Audit(q) PROVE Proved!Audit(q)
  BY <1>3 DEF Calendar!Audit, Proved!Audit
<1>4. ASSUME NEW q \in Requests, NEW r \in Rules, Calendar!Lock(q, r) PROVE Proved!Lock(q, r)
  BY <1>4 DEF Calendar!Lock, Proved!Lock, Calendar!Locks, Proved!Locks,
              Calendar!IsFresh, Proved!IsFresh, Calendar!Exists, Proved!Exists
<1>5. ASSUME NEW q \in Requests, Calendar!Conflict(q) PROVE Proved!Conflict(q)
  BY <1>5 DEF Calendar!Conflict, Proved!Conflict
<1>6. ASSUME NEW q \in Requests, Calendar!Commit(q) PROVE Proved!Commit(q)
  BY <1>6 DEF Calendar!Commit, Proved!Commit, Calendar!Edited, Proved!Edited
<1>7. ASSUME NEW q \in Requests, Calendar!Rollback(q) PROVE Proved!Rollback(q)
  BY <1>7 DEF Calendar!Rollback, Proved!Rollback
<1>8. ASSUME NEW q \in Requests, Calendar!RecordFailure(q) PROVE Proved!RecordFailure(q)
  BY <1>8 DEF Calendar!RecordFailure, Proved!RecordFailure,
              Calendar!FailureRecorded, Proved!FailureRecorded
<1>9. ASSUME NEW q \in Requests, Calendar!Crash(q) PROVE Proved!Crash(q)
  BY <1>9 DEF Calendar!Crash, Proved!Crash
<1> QED
  BY <1>1, <1>2, <1>3, <1>4, <1>5, <1>6, <1>7, <1>8, <1>9

LEMMA SameReadings ==
  ASSUME NEW d \in Readers
  PROVE  (Calendar!ReadRules(d) \/ Calendar!ReadIntervals(d) \/ Calendar!Resolve(d) \/ Calendar!Use(d))
            => (Proved!ReadRules(d) \/ Proved!ReadIntervals(d) \/ Proved!Resolve(d) \/ Proved!Use(d))
<1>1. Calendar!ReadRules(d) => Proved!ReadRules(d)
  BY DEF Calendar!ReadRules, Proved!ReadRules
<1>2. Calendar!ReadIntervals(d) => Proved!ReadIntervals(d)
  BY DEF Calendar!ReadIntervals, Proved!ReadIntervals
<1>3. Calendar!Resolve(d) => Proved!Resolve(d)
  <2> DEFINE R == reader[d].rules
  <2>1. Calendar!Matching(R) = Proved!Matching(R)
    BY DEF Calendar!Matching, Proved!Matching
  <2>2. Calendar!Absences(R) = Proved!Absences(R)
    BY <2>1 DEF Calendar!Absences, Proved!Absences
  <2>3. Calendar!Chosen(R) = Proved!Chosen(R)
    BY <2>1, <2>2 DEF Calendar!Chosen, Proved!Chosen, Calendar!Highest, Proved!Highest
  <2>4. Calendar!IsOpen(R) = Proved!IsOpen(R)
    BY <2>3 DEF Calendar!IsOpen, Proved!IsOpen
  <2> SUFFICES ASSUME Calendar!Resolve(d) PROVE Proved!Resolve(d)
    OBVIOUS
  <2>5. PICK answer \in Calendar!IsOpen(R) :
          reader' = [reader EXCEPT ![d].pc = IF answer THEN "open" ELSE "closed"]
    BY DEF Calendar!Resolve
  <2>6. \E said \in Proved!IsOpen(R) :
          reader' = [reader EXCEPT ![d].pc = IF said THEN "open" ELSE "closed"]
    <3>1. answer \in Proved!IsOpen(R)
      BY <2>4
    <3> WITNESS answer \in Proved!IsOpen(R)
    <3> QED
      BY <2>5
  <2> QED
    BY <2>6 DEF Calendar!Resolve, Proved!Resolve
<1>4. Calendar!Use(d) => Proved!Use(d)
  BY DEF Calendar!Use, Proved!Use, Calendar!NoReading, Proved!NoReading
<1> QED
  BY <1>1, <1>2, <1>3, <1>4

LEMMA SameCalendar ==
    /\ Calendar!Init => Proved!Init
    /\ [Calendar!Next]_(Calendar!vars) => [Proved!Next]_(Proved!vars)
    /\ Proved!CalendarAssumption
<1>1. Calendar!Next => Proved!Next
  BY SameEdits, SameReadings DEF Calendar!Next, Proved!Next
<1>2. Proved!CalendarAssumption
  BY GuardsAssumption DEF Calendar!CalendarAssumption, Proved!CalendarAssumption,
     Calendar!IsFiniteSet, Proved!IsFiniteSet
<1> QED
  BY <1>1, <1>2, SameEdits DEF Calendar!vars, Proved!vars

(***************************************************************************)
(* The audit tells the truth: whatever is repeated, overlaps, fails or     *)
(* dies, an edit was applied once where its audit row says that it         *)
(* succeeded, and not at all where the row says anything else              *)
(* (execute_audited_action and its _record_failure).                       *)
(***************************************************************************)
THEOREM AuditIsTrue == Calendar!Spec => []AuditMatches
<1>1. Proved!Spec => []Proved!AuditMatches
  BY SameCalendar, Proved!AuditIsTrue, PTL
<1>2. Proved!AuditMatches => AuditMatches
  BY DEF Proved!AuditMatches, AuditMatches, Calendar!AuditMatches
<1> QED
  BY <1>1, <1>2, SameCalendar, PTL DEF Calendar!Spec, Proved!Spec

(***************************************************************************)
(* No edit of a rule is lost: each is saved over the version that the one  *)
(* before it left behind (save_rule and deactivate_rule, under the lock of *)
(* the rule).                                                              *)
(***************************************************************************)
THEOREM EditsAreKept == Calendar!Spec => []NoLostEdit
<1>1. Proved!Spec => []Proved!NoLostEdit
  BY SameCalendar, Proved!EditsAreKept, PTL
<1>2. Proved!NoLostEdit => NoLostEdit
  BY DEF Proved!NoLostEdit, NoLostEdit, Calendar!NoLostEdit
<1> QED
  BY <1>1, <1>2, SameCalendar, PTL DEF Calendar!Spec, Proved!Spec

(***************************************************************************)
(* An absence closes the day for every reader that began to read while it  *)
(* was there, whatever the other rules say, whatever their priorities, and *)
(* although the intervals are read after the rules (resolve_day).          *)
(***************************************************************************)
THEOREM AbsencesClose == Calendar!Spec => []AbsenceCloses
<1>1. Proved!Spec => []Proved!AbsenceCloses
  BY SameCalendar, Proved!AbsencesClose, PTL
<1>2. Proved!AbsenceCloses => AbsenceCloses
  BY DEF Proved!AbsenceCloses, AbsenceCloses, Calendar!AbsenceCloses, Proved!Absences,
         Calendar!Absences, Proved!Matching, Calendar!Matching
<1> QED
  BY <1>1, <1>2, SameCalendar, PTL DEF Calendar!Spec, Proved!Spec
=============================================================================
