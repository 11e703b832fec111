----------------------- MODULE DurableAssignment_proofs -----------------------
(***************************************************************************)
(* Proofs about DurableAssignment, for every set of tickets, cycles,       *)
(* agents, workers and every bound.  IInv is inductive; type correctness   *)
(* and the uniqueness of the live attempt of a cycle follow from it, and   *)
(* so does the refinement of CycleAssignment.  RecordsInv, about what the  *)
(* tables say of each other and of HubSpot, is inductive given IInv: that  *)
(* is the second part.                                                     *)
(***************************************************************************)
EXTENDS DurableAssignment, FiniteSetTheorems, TLAPS

(* The counters of the agents stay natural numbers, whatever owner is       *)
(* counted up or down (increment and decrement in queue_service.py).        *)
LEMMA CountersStayNat ==
    ASSUME NEW l \in [Agents -> Nat], NEW o
    PROVE  /\ Incremented(l, o) \in [Agents -> Nat]
           /\ Decremented(l, o) \in [Agents -> Nat]
BY DEF Incremented, Decremented

(* Deleting a queue row touches nothing of an attempt but its link.         *)
LEMMA UnlinkingKeepsAttempts ==
    ASSUME NEW attempts \in [Keys -> Attempt], NEW t
    PROVE  /\ Unlinked(attempts, t) \in [Keys -> Attempt]
           /\ \A k \in Keys : /\ Unlinked(attempts, t)[k].state = attempts[k].state
                              /\ Unlinked(attempts, t)[k].agent = attempts[k].agent
BY DEF Unlinked, Attempt

(* Keys are pairs, and each of them belongs to a ticket.                    *)
LEMMA KeysHaveTickets ==
    ASSUME NEW k \in Keys
    PROVE  k[1] \in Scopes /\ k = <<k[1], k[2]>> /\ KeyTicket(k) \in Tickets
<1>1. k[1] \in Scopes /\ k = <<k[1], k[2]>>
  BY DEF Keys
<1>2. ScopeTicket(k[1]) \in Tickets
  BY <1>1, CyclesAssumption DEF Scopes, ScopeTicket
<1> QED BY <1>1, <1>2 DEF KeyTicket

-----------------------------------------------------------------------------
(* IInv splits into the types of the variables and what is true of attempts *)
(* and workers.  The second part only reads the state and the agent of an   *)
(* attempt.                                                                 *)
Protocol == SingleLiveAttempt /\ KeysExist /\ LocksExclude /\ RetriesHold /\ IdleFree /\ AgentsKnown

AttemptsKept == \A k \in Keys : att'[k].state = att[k].state /\ att'[k].agent = att[k].agent


(* Without a new live attempt there is no second one of the same cycle.     *)
LEMMA NoSecondLive ==
    ASSUME SingleLiveAttempt, NEW k \in Keys,
           \A l \in Keys \ {k} : att'[l].state = att[l].state,
           att'[k].state \in Live =>
               att[k].state \in Live \/ LiveKeys(k[1]) \subseteq {k} \/ k[1] \notin Cycles
    PROVE  SingleLiveAttempt'
BY DEF SingleLiveAttempt, LiveKeys

(* A step that changes no state of an attempt, of one worker or of none.    *)
LEMMA WorkerStep ==
    ASSUME Protocol, AttemptsKept, WorkersTypeOK,
           NEW w, NEW r,
           worker' = [worker EXCEPT ![w] = r],
           r.pc # "idle" => r.key \in Keys /\ att[r.key].state # "none",
           r.tx # "no" => ~AttemptLocked(r.key, Others(w)),
           r.tx = "retry" \/ r.pc \in {"retry", "take"} =>
               r.tx # "no" /\ att[r.key].state = "retryable",
           r.pc = "idle" => r.tx = "no"
    PROVE  Protocol'
<1> USE DEF Protocol, WorkersTypeOK, AttemptsKept
<1>1. SingleLiveAttempt' /\ AgentsKnown'
  BY DEF SingleLiveAttempt, LiveKeys, AgentsKnown
<1>2. KeysExist' /\ IdleFree'
  BY DEF KeysExist, IdleFree
<1>3. LocksExclude'
  BY DEF LocksExclude, AttemptLocked, Others
<1>4. RetriesHold'
  BY DEF RetriesHold, IdleFree
<1> QED BY <1>1, <1>2, <1>3, <1>4

LEMMA QuietStep ==
    ASSUME Protocol, AttemptsKept, WorkersTypeOK, worker' = worker
    PROVE  Protocol'
<1> USE DEF Protocol, WorkersTypeOK, AttemptsKept
<1>1. SingleLiveAttempt' /\ AgentsKnown'
  BY DEF SingleLiveAttempt, LiveKeys, AgentsKnown
<1>2. KeysExist' /\ LocksExclude' /\ IdleFree'
  BY DEF KeysExist, LocksExclude, IdleFree
<1>3. RetriesHold'
  BY DEF RetriesHold, IdleFree
<1> QED BY <1>1, <1>2, <1>3

(* A step that concludes, marks or creates attempt k, whose row no other    *)
(* worker has locked, and ends the transaction of the worker that takes it. *)
LEMMA AttemptStep ==
    ASSUME Protocol, WorkersTypeOK, NEW k \in Keys,
           \A l \in Keys \ {k} : att'[l].state = att[l].state /\ att'[l].agent = att[l].agent,
           att'[k].state # "none",
           att'[k].agent \in Agents,
           att'[k].state \in Live =>
               att[k].state \in Live \/ LiveKeys(k[1]) \subseteq {k} \/ k[1] \notin Cycles,
           \A v \in Workers :
               \/ worker'[v] = worker[v] /\ (worker[v].tx # "no" => worker[v].key # k)
               \/ /\ worker'[v].tx = "no"
                  /\ worker'[v].pc \notin {"retry", "take"}
                  /\ worker'[v].pc # "idle" =>
                        worker'[v].key \in Keys /\ att'[worker'[v].key].state # "none"
    PROVE  Protocol'
<1> USE DEF Protocol, WorkersTypeOK
<1>1. SingleLiveAttempt'
  BY NoSecondLive
<1>2. AgentsKnown' /\ KeysExist' /\ IdleFree'
  BY DEF AgentsKnown, KeysExist, IdleFree
<1>3. LocksExclude'
  BY DEF LocksExclude
<1>4. RetriesHold'
  BY DEF RetriesHold, IdleFree
<1> QED BY <1>1, <1>2, <1>3, <1>4

-----------------------------------------------------------------------------
(* The same step, by the way the worker moves.                              *)
LEMMA GotoStep ==
    ASSUME Protocol, WorkersTypeOK, AttemptsKept,
           NEW w \in Workers, ~At(w, "idle"),
           NEW pc \in Steps \ {"idle"}, NEW arg \in Modes \cup Results \cup {"none"},
           pc \in {"retry", "take"} =>
               worker[w].tx # "no" /\ att[worker[w].key].state = "retryable",
           Goto(w, pc, arg)
    PROVE  Protocol' /\ WorkersTypeOK'
<1> DEFINE r == [worker[w] EXCEPT !.pc = pc, !.arg = arg]
<1>1. worker' = [worker EXCEPT ![w] = r] /\ r.pc = pc /\ r.key = worker[w].key /\ r.tx = worker[w].tx
  BY DEF Goto, WorkersTypeOK
<1>2. r.key \in Keys /\ att[r.key].state # "none"
  BY <1>1 DEF At, WorkersTypeOK, Protocol, KeysExist
<1>3. r.tx # "no" => ~AttemptLocked(r.key, Others(w))
  BY <1>1 DEF Protocol, LocksExclude, AttemptLocked, Others
<1>4. r.tx = "retry" => att[r.key].state = "retryable"
  BY <1>1 DEF Protocol, RetriesHold
<1>5. Protocol'
  <2> HIDE DEF r
  <2> QED BY <1>1, <1>2, <1>3, <1>4, WorkerStep
<1>6. WorkersTypeOK'
  BY <1>1, <1>2 DEF WorkersTypeOK
<1> QED BY <1>5, <1>6

LEMMA DoneStep ==
    ASSUME Protocol, WorkersTypeOK, AttemptsKept, NEW w \in Workers, Done(w)
    PROVE  Protocol' /\ WorkersTypeOK'
<1>1. WorkersTypeOK'
  BY DEF WorkersTypeOK, Done, Idle, Steps, Transactions
<1>2. Protocol'
  BY WorkerStep DEF Done, Idle
<1> QED BY <1>1, <1>2

LEMMA BeginStep ==
    ASSUME Protocol, WorkersTypeOK, AttemptsKept, NEW w \in Workers,
           NEW k \in Keys, att[k].state # "none", NEW pc \in {"start", "repair"},
           Begin(w, k, pc)
    PROVE  Protocol' /\ WorkersTypeOK'
<1>1. WorkersTypeOK'
  BY DEF WorkersTypeOK, Begin, Steps, Transactions
<1>2. Protocol'
  BY WorkerStep DEF Begin
<1> QED BY <1>1, <1>2

-----------------------------------------------------------------------------
(* The invariant, in the parts that the steps disturb.                      *)
LEMMA Parts ==
    /\ IInv <=> TypeOK /\ Protocol /\ ErasKnown
    /\ IInv' <=> TypeOK' /\ Protocol' /\ ErasKnown'
BY DEF IInv, Protocol

LEMMA InitInvariant == Init => IInv
<1> SUFFICES ASSUME Init PROVE TypeOK /\ Protocol /\ ErasKnown
  BY Parts
<1> USE DEF Init, RecordsInit
<1>1. RecordsTypeOK
  BY DEF RecordsTypeOK, CycleStates, Row, Attempt, NoRow, NoAttempt, Scopes
<1>2. TypeOK
  BY <1>1, BoundsAssumption DEF TypeOK, ProviderTypeOK, WorkersTypeOK, HandlersTypeOK,
                                SpentTypeOK, Idle, Steps, Transactions
<1>3. Protocol
  BY DEF Protocol, SingleLiveAttempt, LiveKeys, Live, KeysExist, LocksExclude, RetriesHold,
         IdleFree, AgentsKnown, Idle, NoAttempt
<1>4. ErasKnown
  BY DEF ErasKnown
<1> QED BY <1>2, <1>3, <1>4

-----------------------------------------------------------------------------
(* HubSpot.  No step of it touches the database.                            *)
LEMMA HubInvariant == ASSUME IInv, HubStep PROVE IInv'
<1> USE DEF TypeOK, ProviderTypeOK, SpentTypeOK, OwnerChange
<1>0. TypeOK /\ Protocol /\ ErasKnown
  BY Parts
<1>1. ASSUME UNCHANGED <<records, worker, handlers>>, ProviderTypeOK', SpentTypeOK', ErasKnown'
      PROVE  IInv'
  <2>1. TypeOK'
    BY <1>0, <1>1 DEF records, handlers, RecordsTypeOK, WorkersTypeOK, HandlersTypeOK
  <2>2. Protocol'
    BY <1>0, <1>1, QuietStep DEF AttemptsKept, records
  <2> QED BY <1>1, <2>1, <2>2, Parts
<1>2. ASSUME NEW c \in Cycles, HubEnterNovo(c) PROVE IInv'
  <2>1. TicketOf[c] \in Tickets
    BY CyclesAssumption
  <2>2. ProviderTypeOK' /\ SpentTypeOK' /\ ErasKnown'
    BY <1>0, <1>2, <2>1 DEF HubEnterNovo, ErasKnown
  <2> QED BY <1>1, <1>2, <2>2 DEF HubEnterNovo
<1>3. ASSUME NEW t \in Tickets, HubMoveOn(t) PROVE IInv'
  <2>1. ProviderTypeOK' /\ SpentTypeOK' /\ ErasKnown'
    BY <1>0, <1>3, BoundsAssumption DEF HubMoveOn, StageMove, ErasKnown
  <2> QED BY <1>1, <1>3, <2>1 DEF HubMoveOn
<1>4. ASSUME NEW t \in Tickets, HubClose(t) PROVE IInv'
  <2>1. ProviderTypeOK' /\ SpentTypeOK' /\ ErasKnown'
    BY <1>0, <1>4, BoundsAssumption DEF HubClose, StageMove, ErasKnown
  <2> QED BY <1>1, <1>4, <2>1 DEF HubClose
<1>5. ASSUME NEW t \in Tickets, NEW o \in Owners \cup {Nobody}, HubEditOwner(t, o) PROVE IInv'
  <2>1. ProviderTypeOK' /\ SpentTypeOK' /\ ErasKnown'
    BY <1>0, <1>5, BoundsAssumption DEF HubEditOwner, SetOwner, ErasKnown
  <2> QED BY <1>1, <1>5, <2>1 DEF HubEditOwner
<1> QED BY <1>2, <1>3, <1>4, <1>5 DEF HubStep

(* The queue entry changes no attempt.                                      *)
LEMMA EnqueueInvariant == ASSUME IInv, EnqueueStep PROVE IInv'
<1> USE DEF TypeOK, RecordsTypeOK, HandlersTypeOK, SpentTypeOK, EntryStep
<1>0. TypeOK /\ Protocol /\ ErasKnown
  BY Parts
<1>1. ASSUME UNCHANGED <<att, conv, load, provider, worker, closeReads, ownerTasks>>,
             cycle' \in [Cycles -> CycleStates], row' \in [Tickets -> Row],
             entry' \in [Cycles -> {"none", "read", "opened", "found"}], SpentTypeOK'
      PROVE  IInv'
  <2>1. TypeOK'
    BY <1>0, <1>1 DEF provider, ProviderTypeOK, WorkersTypeOK
  <2>2. Protocol'
    BY <1>0, <1>1, QuietStep DEF AttemptsKept
  <2>3. ErasKnown'
    BY <1>0, <1>1 DEF ErasKnown, provider
  <2> QED BY <2>1, <2>2, <2>3, Parts
<1> SUFFICES ASSUME NEW c \in Cycles,
                    \/ EnqueueRead(c) \/ OpenCycle(c) \/ FindRow(c) \/ PointRow(c) \/ EnqueueDies(c)
             PROVE  IInv'
  BY DEF EnqueueStep
<1>2. TicketOf[c] \in Tickets
  BY CyclesAssumption
<1>3. CASE EnqueueRead(c)
  BY <1>0, <1>1, <1>3, BoundsAssumption DEF EnqueueRead, records
<1>4. CASE OpenCycle(c)
  BY <1>0, <1>1, <1>4 DEF OpenCycle, CycleStates, Active
<1>5. CASE FindRow(c)
  <2>1. row[TicketOf[c]] \in Row
    BY <1>0, <1>2
  <2>2. row'[TicketOf[c]] \in Row /\ \A t \in Tickets \ {TicketOf[c]} : row'[t] = row[t]
    BY <1>0, <1>2, <1>5, <2>1 DEF FindRow, Row, Scopes
  <2>3. row' \in [Tickets -> Row]
    BY <1>0, <1>2, <1>5, <2>2 DEF FindRow
  <2> QED BY <1>0, <1>1, <1>5, <2>3 DEF FindRow
<1>6. CASE PointRow(c)
  <2>1. row' \in [Tickets -> Row]
    BY <1>0, <1>2, <1>6 DEF PointRow, Row, Scopes
  <2> QED BY <1>0, <1>1, <1>6, <2>1 DEF PointRow
<1>7. CASE EnqueueDies(c)
  BY <1>0, <1>1, <1>7, BoundsAssumption DEF EnqueueDies, Fault, records
<1> QED BY <1>3, <1>4, <1>5, <1>6, <1>7

-----------------------------------------------------------------------------
(* What one transaction of the protocol does to the tables.  rec is the     *)
(* attempt as the transaction reads it.                                     *)
LEMMA Compensated ==
    ASSUME RecordsTypeOK, NEW k \in Keys, NEW rec \in Attempt,
           NEW counters \in [Agents -> Nat], NEW mode,
           Compensate(k, rec, counters, mode)
    PROVE  /\ RecordsTypeOK'
           /\ \A l \in Keys \ {k} : att'[l] = att[l]
           /\ att'[k].agent = rec.agent
           /\ \/ att'[k].state = rec.state
              \/ /\ rec.state \notin Terminal
                 /\ att'[k].state \in {"retryable", "repair_required", "compensated"}
<1> USE DEF RecordsTypeOK, Compensate
<1>1. CompensatedState(mode) \in {"retryable", "repair_required", "compensated"}
  BY DEF CompensatedState
<1>2. /\ att' \in [Keys -> Attempt]
      /\ \A l \in Keys \ {k} : att'[l] = att[l]
      /\ att'[k].agent = rec.agent
      /\ \/ att'[k].state = rec.state
         \/ /\ rec.state \notin Terminal
            /\ att'[k].state \in {"retryable", "repair_required", "compensated"}
  <2>1. CASE CompensationSkipped(rec, mode)
    BY <2>1
  <2>2. CASE ~CompensationSkipped(rec, mode)
    <3> DEFINE new == [rec EXCEPT !.state = CompensatedState(mode), !.released = TRUE]
    <3>1. new \in Attempt /\ new.agent = rec.agent /\ new.state = CompensatedState(mode)
      BY <1>1 DEF Attempt, Live, Terminal
    <3>2. att' = [att EXCEPT ![k] = new]
      BY <2>2
    <3> HIDE DEF new
    <3> QED BY <1>1, <2>2, <3>1, <3>2 DEF CompensationSkipped
  <2> QED BY <2>1, <2>2
<1>3. load' \in [Agents -> Nat]
  BY CountersStayNat
<1>4. row' \in [Tickets -> Row]
  BY SMTT(30), KeysHaveTickets DEF Row
<1> QED BY <1>2, <1>3, <1>4

LEMMA Finalized ==
    ASSUME RecordsTypeOK, NEW k \in Keys, NEW rec \in Attempt, rec.agent \in Agents,
           NEW counters \in [Agents -> Nat],
           Finalize(k, rec, counters)
    PROVE  /\ RecordsTypeOK'
           /\ \A l \in Keys \ {k} : att'[l].state = att[l].state /\ att'[l].agent = att[l].agent
           /\ att'[k].state = "completed" /\ att'[k].agent = rec.agent
<1> USE DEF RecordsTypeOK, Finalize
<1>0. k[1] \in Scopes /\ KeyTicket(k) \in Tickets
  BY KeysHaveTickets
<1>1. /\ att' \in [Keys -> Attempt]
      /\ \A l \in Keys \ {k} : att'[l].state = att[l].state /\ att'[l].agent = att[l].agent
      /\ att'[k].state = "completed" /\ att'[k].agent = rec.agent
  <2> DEFINE base == IF rec.linked THEN Unlinked(att, KeyTicket(k)) ELSE att
             done == [rec EXCEPT !.state = "completed", !.linked = FALSE]
  <2>1. /\ base \in [Keys -> Attempt]
        /\ \A l \in Keys : base[l].state = att[l].state /\ base[l].agent = att[l].agent
    BY UnlinkingKeepsAttempts
  <2>2. done \in Attempt /\ done.state = "completed" /\ done.agent = rec.agent
    BY DEF Attempt, Terminal
  <2>3. att' = [base EXCEPT ![k] = done]
    OBVIOUS
  <2> HIDE DEF base, done
  <2> QED BY <2>1, <2>2, <2>3
<1>2. conv' \in [Scopes -> Owners \cup {NoConv}]
  BY <1>0 DEF Owners
<1>3. row' \in [Tickets -> Row]
  BY <1>0 DEF Row, NoRow, Scopes
<1>4. cycle' \in [Cycles -> CycleStates]
  BY DEF LeaveQueue, CycleStates, Active
<1> QED BY <1>1, <1>2, <1>3, <1>4

LEMMA Created ==
    ASSUME RecordsTypeOK, NEW k \in Keys, NEW a \in Agents, Create(k, a)
    PROVE  /\ RecordsTypeOK'
           /\ \A l \in Keys \ {k} : att'[l] = att[l]
           /\ att'[k].state = "reserved" /\ att'[k].agent = a
<1> USE DEF RecordsTypeOK, Create
<1>1. load' \in [Agents -> Nat]
  BY CountersStayNat
<1>2. att' \in [Keys -> Attempt]
  BY DEF Attempt, Live
<1> QED BY <1>1, <1>2

(* What a worker's transaction reads.                                       *)
LEMMA SeenAttempt ==
    ASSUME IInv, NEW w \in Workers, ~At(w, "idle")
    PROVE  /\ Key(w) \in Keys
           /\ Seen(w) \in Attempt /\ Seen(w).agent = att[Key(w)].agent
           /\ Seen(w).agent \in Agents
           /\ worker[w].tx # "retry" => Seen(w) = att[Key(w)]
           /\ worker[w].tx = "retry" => att[Key(w)].state = "retryable"
           /\ att[Key(w)].state # "none" /\ Seen(w).state # "none"
           /\ Counters(w) \in [Agents -> Nat]
<1>1. Key(w) \in Keys /\ att[Key(w)].state # "none" /\ att[Key(w)].agent \in Agents
  BY DEF IInv, TypeOK, WorkersTypeOK, KeysExist, AgentsKnown, Key, At
<1>2. att[Key(w)] \in Attempt /\ load \in [Agents -> Nat]
  BY <1>1 DEF IInv, TypeOK, RecordsTypeOK
<1>3. worker[w].tx = "retry" => att[Key(w)].state = "retryable"
  BY DEF IInv, RetriesHold, Key
<1>4. /\ Seen(w) \in Attempt /\ Seen(w).agent = att[Key(w)].agent
      /\ worker[w].tx # "retry" => Seen(w) = att[Key(w)]
      /\ Seen(w).state # "none"
  BY <1>1, <1>2 DEF Seen, Key, Attempt, Live
<1>5. Counters(w) \in [Agents -> Nat]
  BY <1>2, CountersStayNat DEF Counters
<1> QED BY <1>1, <1>3, <1>4, <1>5

-----------------------------------------------------------------------------
(* A step of a worker leaves HubSpot and the handlers alone.                *)
LEMMA Assembled ==
    ASSUME IInv, UNCHANGED <<provider, handlers>>,
           spent' = spent \/ Fault,
           RecordsTypeOK', WorkersTypeOK', Protocol'
    PROVE  IInv'
<1>1. SpentTypeOK'
  BY BoundsAssumption DEF IInv, TypeOK, SpentTypeOK, Fault
<1>2. ProviderTypeOK' /\ HandlersTypeOK' /\ ErasKnown'
  BY DEF IInv, TypeOK, ProviderTypeOK, HandlersTypeOK, ErasKnown, provider, handlers
<1> QED BY <1>1, <1>2, Parts DEF TypeOK

(* The same for a step that writes no row: it only moves the worker.        *)
LEMMA Moved ==
    ASSUME IInv, NEW w \in Workers,
           UNCHANGED <<records, provider, handlers>>,
           spent' = spent \/ Fault,
           \/ Done(w)
           \/ \E pc \in Steps \ {"idle"}, arg \in Modes \cup Results \cup {"none"} :
                 /\ Goto(w, pc, arg)
                 /\ ~At(w, "idle")
                 /\ pc \in {"retry", "take"} =>
                       worker[w].tx # "no" /\ att[worker[w].key].state = "retryable"
           \/ \E k \in Keys, pc \in {"start", "repair"} :
                 att[k].state # "none" /\ Begin(w, k, pc)
    PROVE  IInv'
<1>1. RecordsTypeOK' /\ AttemptsKept
  BY DEF IInv, TypeOK, RecordsTypeOK, AttemptsKept, records
<1>2. Protocol /\ WorkersTypeOK
  BY DEF IInv, Protocol, TypeOK
<1>3. Protocol' /\ WorkersTypeOK'
  BY <1>1, <1>2, DoneStep, GotoStep, BeginStep
<1> QED BY <1>1, <1>3, Assembled

(* Reservations.                                                            *)
LEMMA ReserveInvariant == ASSUME IInv, NEW w \in Workers, ReserveStep(w) PROVE IInv'
<1>0. TypeOK /\ Protocol /\ ErasKnown
  BY Parts
<1>1. ASSUME NEW t \in Tickets, ReserveStale(w, t) PROVE IInv'
  <2>1. RecordsTypeOK'
    BY <1>0, <1>1 DEF ReserveStale, TypeOK, RecordsTypeOK, Row
  <2>2. Protocol' /\ WorkersTypeOK'
    BY <1>0, <1>1, QuietStep DEF ReserveStale, AttemptsKept, TypeOK, WorkersTypeOK
  <2> QED BY <1>1, <2>1, <2>2, Assembled DEF ReserveStale
<1>2. ASSUME NEW t \in Tickets, NEW k \in Keys, ReserveExisting(w, t, k) PROVE IInv'
  <2>1. att[k].state # "none"
    BY <1>2 DEF ReserveExisting, LiveKeys, Live
  <2> QED BY <1>2, <2>1, Moved DEF ReserveExisting
<1>3. ASSUME NEW t \in Tickets, NEW ty \in Types, NEW a \in Agents, ReserveNew(w, t, ty, a)
      PROVE  IInv'
  <2> DEFINE k == <<row[t].scope, ty>>
  <2>1. k \in Keys /\ k[1] = row[t].scope
    BY <1>0 DEF TypeOK, RecordsTypeOK, Row, Keys
  <2>2. /\ att[k].state = "none" /\ LiveKeys(k[1]) = {} /\ Create(k, a)
        /\ Begin(w, k, "start") /\ At(w, "idle")
    BY <1>3, <2>1 DEF ReserveNew, Create
  <2> HIDE DEF k
  <2>3. /\ RecordsTypeOK' /\ \A l \in Keys \ {k} : att'[l] = att[l]
        /\ att'[k].state = "reserved" /\ att'[k].agent = a
    BY <1>0, <2>1, <2>2, Created DEF TypeOK
  <2>4. WorkersTypeOK'
    BY <1>0, <2>1, <2>2 DEF TypeOK, WorkersTypeOK, Begin, Steps, Transactions
  <2>5. \A v \in Workers \ {w} : worker'[v] = worker[v] /\ (worker[v].tx # "no" => worker[v].key # k)
    BY <1>0, <2>2 DEF TypeOK, WorkersTypeOK, Begin, Protocol, KeysExist, IdleFree
  <2>6. /\ worker'[w].tx = "no" /\ worker'[w].pc \notin {"retry", "take"}
        /\ worker'[w].key = k
    BY <1>0, <2>2 DEF TypeOK, WorkersTypeOK, Begin
  <2>7. Protocol'
    BY <1>0, <2>1, <2>2, <2>3, <2>5, <2>6, AttemptStep DEF TypeOK
  <2> QED BY <1>3, <2>3, <2>4, <2>7, Assembled DEF ReserveNew
<1> QED BY <1>1, <1>2, <1>3 DEF ReserveStep

(* A worker dies, or a repair raises.                                       *)
LEMMA CrashInvariant == ASSUME IInv, NEW w \in Workers, Crash(w) PROVE IInv'
BY Moved DEF Crash

(* A terminal attempt that no worker holds is deleted.                      *)
LEMMA PurgeInvariant == ASSUME IInv, NEW k \in Keys, Purge(k) PROVE IInv'
<1>0. TypeOK /\ Protocol
  BY Parts
<1>1. NoAttempt \in Attempt
  BY DEF NoAttempt, Attempt
<1>2. att' = [att EXCEPT ![k] = NoAttempt]
  BY DEF Purge
<1>3. RecordsTypeOK' /\ WorkersTypeOK'
  BY <1>0, <1>1, <1>2 DEF Purge, TypeOK, RecordsTypeOK, WorkersTypeOK
<1>4. SingleLiveAttempt'
  BY <1>0, <1>2, NoSecondLive DEF Protocol, TypeOK, RecordsTypeOK, NoAttempt, Live
<1>5. KeysExist' /\ LocksExclude' /\ RetriesHold' /\ IdleFree' /\ AgentsKnown'
  BY <1>0, <1>2 DEF Purge, Key, Protocol, TypeOK, RecordsTypeOK, WorkersTypeOK, NoAttempt,
     KeysExist, LocksExclude, RetriesHold, IdleFree, AgentsKnown
<1> QED BY <1>3, <1>4, <1>5, Assembled DEF Purge, Protocol

-----------------------------------------------------------------------------
(* A worker concludes, compensates or marks the attempt that it works on.   *)
LEMMA Concluded ==
    ASSUME IInv, NEW w \in Workers, ~At(w, "idle"),
           ~AttemptLocked(Key(w), Others(w)),
           RecordsTypeOK',
           \A l \in Keys \ {Key(w)} : att'[l].state = att[l].state /\ att'[l].agent = att[l].agent,
           att'[Key(w)].state # "none", att'[Key(w)].agent \in Agents,
           att'[Key(w)].state \in Live =>
               \/ att[Key(w)].state \in Live
               \/ LiveKeys(Key(w)[1]) \subseteq {Key(w)}
               \/ Key(w)[1] \notin Cycles,
           \/ Done(w)
           \/ worker[w].tx = "no" /\ Goto(w, "finalize", "none"),
           UNCHANGED <<provider, handlers, spent>>
    PROVE  IInv'
<1>0. TypeOK /\ Protocol
  BY Parts
<1>1. Key(w) \in Keys
  BY SeenAttempt
<1>2. WorkersTypeOK'
  BY <1>0, <1>1 DEF TypeOK, WorkersTypeOK, Done, Goto, Idle, Steps, Transactions, Key
<1>3. \A v \in Workers \ {w} :
        worker'[v] = worker[v] /\ (worker[v].tx # "no" => worker[v].key # Key(w))
  BY <1>0 DEF TypeOK, WorkersTypeOK, AttemptLocked, Others, Done, Goto
<1>4. /\ worker'[w].tx = "no" /\ worker'[w].pc \in {"idle", "finalize"}
      /\ worker'[w].pc # "idle" => worker'[w].key = Key(w)
  BY <1>0 DEF TypeOK, WorkersTypeOK, Done, Goto, Idle, Key
<1>5. Protocol'
  BY <1>0, <1>1, <1>3, <1>4, AttemptStep DEF TypeOK
<1> QED BY <1>2, <1>5, Assembled

LEMMA ExecuteInvariant == ASSUME IInv, NEW w \in Workers, ExecuteStep(w) PROVE IInv'
<1> USE DEF At
<1>0. TypeOK /\ Protocol /\ ErasKnown
  BY Parts
<1>1. CASE Start(w)
  BY <1>1, Moved DEF Start, Steps, Modes, Results
<1>2. CASE PreRead(w)
  BY <1>2, Moved DEF PreRead, Steps, Modes, Results
<1>3. CASE PatchApplied(w)
  <2>1. Key(w) \in Keys /\ Seen(w).agent \in Agents
    BY <1>3, SeenAttempt DEF PatchApplied
  <2>2. KeyTicket(Key(w)) \in Tickets
    BY <2>1, KeysHaveTickets
  <2>3. ProviderTypeOK' /\ ErasKnown'
    BY <1>0, <1>3, <2>1, <2>2 DEF PatchApplied, SetOwner, TypeOK, ProviderTypeOK, ErasKnown,
                                  OwnerChange, Owners
  <2>4. PICK result \in {"ok", "retryable"} : Goto(w, "readback", result)
    BY <1>3 DEF PatchApplied
  <2>5. Protocol' /\ WorkersTypeOK'
    BY <1>0, <1>3, <2>4, GotoStep DEF PatchApplied, TypeOK, AttemptsKept, records, Steps, Results
  <2>6. RecordsTypeOK' /\ HandlersTypeOK' /\ SpentTypeOK'
    BY <1>0, <1>3 DEF PatchApplied, TypeOK, RecordsTypeOK, HandlersTypeOK, SpentTypeOK,
                      records, handlers
  <2> QED BY <2>3, <2>5, <2>6, Parts DEF TypeOK
<1>4. CASE PatchRejected(w)
  BY <1>4, Moved DEF PatchRejected, Steps, Modes, Results
<1>5. CASE Readback(w)
  <2>1. worker[w].arg \in Modes \cup Results \cup {"none"}
    BY <1>0 DEF TypeOK, WorkersTypeOK
  <2>2. Goto(w, "compensate", "stale") \/ Goto(w, "reread", worker[w].arg)
    BY <1>5 DEF Readback
  <2>3. "stale" \in Modes /\ {"compensate", "reread"} \subseteq Steps \ {"idle"}
    BY DEF Modes, Steps
  <2> QED BY <1>5, <2>1, <2>2, <2>3, Moved DEF Readback
<1>6. CASE Reread(w)
  BY <1>6, Moved DEF Reread, Steps, Modes
<1>7. CASE CompensateStep(w)
  <2>1. /\ Key(w) \in Keys /\ Seen(w) \in Attempt /\ Seen(w).agent \in Agents
        /\ Counters(w) \in [Agents -> Nat]
        /\ worker[w].tx # "retry" => Seen(w) = att[Key(w)]
        /\ worker[w].tx = "retry" => att[Key(w)].state = "retryable"
        /\ Seen(w).state # "none"
    BY <1>7, SeenAttempt DEF CompensateStep
  <2>2. Compensate(Key(w), Seen(w), Counters(w), worker[w].arg)
    BY <1>7 DEF CompensateStep
  <2>3. /\ RecordsTypeOK'
        /\ \A l \in Keys \ {Key(w)} : att'[l] = att[l]
        /\ att'[Key(w)].agent = Seen(w).agent
        /\ \/ att'[Key(w)].state = Seen(w).state
           \/ /\ Seen(w).state \notin Terminal
              /\ att'[Key(w)].state \in {"retryable", "repair_required", "compensated"}
    BY <1>0, <2>1, <2>2, Compensated DEF TypeOK
  <2>4. att'[Key(w)].state \in Live => att[Key(w)].state \in Live
    BY <2>1, <2>3 DEF Attempt, Live
  <2>5. att'[Key(w)].state # "none"
    BY <2>1, <2>3
  <2> QED BY <1>7, <2>1, <2>3, <2>4, <2>5, Concluded DEF CompensateStep, CanLock
<1>8. CASE MarkExternalApplied(w)
  <2>1. Key(w) \in Keys /\ att[Key(w)].agent \in Agents
    BY <1>8, SeenAttempt DEF MarkExternalApplied
  <2>2. CASE att[Key(w)].state \in Markable
    <3>1. RecordsTypeOK'
      BY <1>0, <1>8, <2>1 DEF MarkExternalApplied, TypeOK, RecordsTypeOK, Attempt, Live
    <3>2. /\ \A l \in Keys \ {Key(w)} : att'[l] = att[l]
          /\ att'[Key(w)].state = "external_applied"
          /\ att'[Key(w)].agent = att[Key(w)].agent
      BY <1>0, <1>8, <2>1, <2>2 DEF MarkExternalApplied, TypeOK, RecordsTypeOK, Attempt
    <3> QED BY <1>8, <2>1, <2>2, <3>1, <3>2, Concluded DEF MarkExternalApplied, Markable, Live
  <2>3. CASE att[Key(w)].state \notin Markable
    BY <1>8, <2>3, Moved DEF MarkExternalApplied, records
  <2> QED BY <2>2, <2>3
<1>9. CASE FinalizeStep(w)
  <2>1. Key(w) \in Keys /\ att[Key(w)].agent \in Agents
    BY <1>9, SeenAttempt DEF FinalizeStep
  <2>2. CASE Finalize(Key(w), att[Key(w)], load)
    <3>1. att[Key(w)] \in Attempt /\ load \in [Agents -> Nat]
      BY <1>0, <2>1 DEF TypeOK, RecordsTypeOK
    <3> QED BY <1>0, <1>9, <2>1, <2>2, <3>1, Finalized, Concluded
            DEF TypeOK, FinalizeStep, CanLock, Live
  <2>3. CASE UNCHANGED records
    BY <1>9, <2>3, Moved DEF FinalizeStep
  <2> QED BY <1>9, <2>2, <2>3 DEF FinalizeStep
<1> QED BY <1>1, <1>2, <1>3, <1>4, <1>5, <1>6, <1>7, <1>8, <1>9 DEF ExecuteStep

(* The repair task.                                                         *)
LEMMA RepairInvariant == ASSUME IInv, NEW w \in Workers, RepairStep(w) PROVE IInv'
<1> USE DEF At
<1>0. TypeOK /\ Protocol /\ ErasKnown
  BY Parts
<1>1. ASSUME NEW k \in Keys, RepairScan(w, k) PROVE IInv'
  BY <1>1, Moved DEF RepairScan, Live
<1>2. CASE RepairLock(w)
  <2>1. CASE AttemptLocked(Key(w), Others(w))
    BY <1>2, <2>1, Moved DEF RepairLock
  <2>2. CASE ~AttemptLocked(Key(w), Others(w))
    <3> DEFINE retry == att[Key(w)].state = "retryable"
               r == [worker[w] EXCEPT !.tx = "repair",
                        !.pc = IF retry THEN "retry" ELSE "readback",
                        !.arg = IF retry THEN "none" ELSE "ok"]
    <3>1. Key(w) \in Keys /\ att[Key(w)].state # "none"
      BY <1>2, SeenAttempt DEF RepairLock
    <3>2. /\ worker' = [worker EXCEPT ![w] = r]
          /\ r.key = Key(w) /\ r.tx = "repair"
          /\ r.pc = (IF retry THEN "retry" ELSE "readback")
          /\ r.arg \in {"none", "ok"}
      BY <1>0, <1>2, <2>2 DEF RepairLock, TypeOK, WorkersTypeOK, Key
    <3>3. r \in [pc : Steps, key : Keys \cup {NoKey},
                 arg : Modes \cup Results \cup {"none"}, tx : Transactions]
      BY <1>0, <3>1 DEF TypeOK, WorkersTypeOK, Steps, Results, Transactions
    <3> HIDE DEF r
    <3>4. WorkersTypeOK'
      BY <1>0, <3>1, <3>2, <3>3 DEF TypeOK, WorkersTypeOK
    <3>5. RecordsTypeOK' /\ AttemptsKept
      BY <1>0, <1>2 DEF RepairLock, TypeOK, RecordsTypeOK, AttemptsKept, records
    <3>6. Protocol'
      BY <1>0, <2>2, <3>1, <3>2, <3>5, WorkerStep DEF TypeOK
    <3> QED BY <1>2, <3>4, <3>5, <3>6, Assembled DEF RepairLock
  <2> QED BY <2>1, <2>2
<1>3. CASE RetryCheck(w)
  <2>1. worker[w].tx # "no" /\ att[worker[w].key].state = "retryable"
    BY <1>0, <1>3 DEF RetryCheck, Protocol, RetriesHold
  <2> QED BY <1>3, <2>1, Moved DEF RetryCheck, Steps
<1>4. CASE RetryTake(w)
  <2>1. CASE Done(w)
    BY <1>4, <2>1, Moved DEF RetryTake
  <2>2. CASE worker' = [worker EXCEPT ![w].tx = "retry", ![w].pc = "start"]
    <3> DEFINE r == [worker[w] EXCEPT !.tx = "retry", !.pc = "start"]
    <3>1. /\ Key(w) \in Keys /\ worker[w].tx # "no"
          /\ att[Key(w)].state = "retryable"
      BY <1>0, <1>4, SeenAttempt DEF RetryTake, Protocol, RetriesHold, Key
    <3>2. /\ worker' = [worker EXCEPT ![w] = r]
          /\ r.key = Key(w) /\ r.tx = "retry" /\ r.pc = "start"
      BY <1>0, <2>2 DEF TypeOK, WorkersTypeOK, Key
    <3>3. r \in [pc : Steps, key : Keys \cup {NoKey},
                 arg : Modes \cup Results \cup {"none"}, tx : Transactions]
      BY <1>0 DEF TypeOK, WorkersTypeOK, Steps, Transactions
    <3> HIDE DEF r
    <3>4. WorkersTypeOK'
      BY <1>0, <3>1, <3>2, <3>3 DEF TypeOK, WorkersTypeOK
    <3>5. RecordsTypeOK' /\ AttemptsKept
      BY <1>0, <1>4 DEF RetryTake, TypeOK, RecordsTypeOK, AttemptsKept, records
    <3>6. ~AttemptLocked(Key(w), Others(w))
      BY <1>0, <3>1 DEF Protocol, LocksExclude, AttemptLocked, Others, Key
    <3>7. Protocol'
      BY <1>0, <3>1, <3>2, <3>5, <3>6, WorkerStep DEF TypeOK
    <3> QED BY <1>4, <3>4, <3>5, <3>7, Assembled DEF RetryTake
  <2> QED BY <1>4, <2>1, <2>2 DEF RetryTake
<1>5. ASSUME ~At(w, "idle"), UNCHANGED <<records, provider, handlers>>,
             spent' = spent \/ Fault,
             \E arg \in {"none", worker[w].arg} :
                worker' = [worker EXCEPT ![w].pc = "handler", ![w].arg = arg, ![w].tx = "no"]
      PROVE  IInv'
  <2>0. PICK arg \in {"none", worker[w].arg} :
          worker' = [worker EXCEPT ![w].pc = "handler", ![w].arg = arg, ![w].tx = "no"]
    BY <1>5
  <2> DEFINE r == [worker[w] EXCEPT !.pc = "handler", !.arg = arg, !.tx = "no"]
  <2>1. Key(w) \in Keys /\ att[Key(w)].state # "none"
    BY <1>5, SeenAttempt
  <2>2. /\ worker' = [worker EXCEPT ![w] = r]
        /\ r.key = Key(w) /\ r.tx = "no" /\ r.pc = "handler"
    BY <1>0, <2>0 DEF TypeOK, WorkersTypeOK, Key
  <2>3. r \in [pc : Steps, key : Keys \cup {NoKey},
               arg : Modes \cup Results \cup {"none"}, tx : Transactions]
    BY <1>0 DEF TypeOK, WorkersTypeOK, Steps, Transactions
  <2> HIDE DEF r
  <2>4. WorkersTypeOK'
    BY <1>0, <2>1, <2>2, <2>3 DEF TypeOK, WorkersTypeOK
  <2>5. RecordsTypeOK' /\ AttemptsKept
    BY <1>0, <1>5 DEF TypeOK, RecordsTypeOK, AttemptsKept, records
  <2>6. Protocol'
    BY <1>0, <2>1, <2>2, <2>5, WorkerStep DEF TypeOK
  <2> QED BY <1>5, <2>4, <2>5, <2>6, Assembled
<1>6. CASE RepairConfirm(w)
  <2>1. /\ Key(w) \in Keys /\ Seen(w) \in Attempt /\ Seen(w).agent \in Agents
        /\ Counters(w) \in [Agents -> Nat]
    BY <1>6, SeenAttempt DEF RepairConfirm
  <2>2. CASE Finalize(Key(w), Seen(w), Counters(w)) /\ Done(w)
    BY <1>0, <1>6, <2>1, <2>2, Finalized, Concluded DEF TypeOK, RepairConfirm, CanLock, Live
  <2>3. CASE UNCHANGED records /\ Done(w)
    BY <1>6, <2>3, Moved DEF RepairConfirm
  <2>4. CASE UNCHANGED records /\ worker' = [worker EXCEPT ![w].pc = "handler", ![w].tx = "no"]
    <3>1. worker' = [worker EXCEPT ![w].pc = "handler", ![w].arg = worker[w].arg, ![w].tx = "no"]
      BY <1>0, <2>4 DEF TypeOK, WorkersTypeOK
    <3> QED BY <1>5, <1>6, <2>4, <3>1 DEF RepairConfirm
  <2> QED BY <1>6, <2>2, <2>3, <2>4 DEF RepairConfirm
<1>7. CASE RepairRaises(w)
  <2>1. ~At(w, "idle")
    BY <1>0, <1>7 DEF RepairRaises, Protocol, IdleFree
  <2> QED BY <1>5, <1>7, <2>1 DEF RepairRaises
<1>8. CASE RepairHandler(w)
  <2>1. Key(w) \in Keys /\ att[Key(w)].agent \in Agents /\ att[Key(w)].state # "none"
    BY <1>8, SeenAttempt DEF RepairHandler
  <2>2. CASE UNCHANGED att
    <3>1. UNCHANGED records /\ Done(w)
      BY <1>8, <2>2 DEF RepairHandler, records
    <3> QED BY <1>8, <3>1, Moved DEF RepairHandler
  <2>3. CASE /\ Key(w)[1] \in Tickets \/ LiveKeys(Key(w)[1]) \ {Key(w)} = {}
             /\ att' = [att EXCEPT ![Key(w)].state = "repair_required"]
    <3>1. RecordsTypeOK'
      BY <1>0, <1>8, <2>1, <2>3 DEF RepairHandler, TypeOK, RecordsTypeOK, Attempt, Live
    <3>2. /\ \A l \in Keys \ {Key(w)} : att'[l] = att[l]
          /\ att'[Key(w)].state = "repair_required"
          /\ att'[Key(w)].agent = att[Key(w)].agent
      BY <1>0, <2>1, <2>3 DEF TypeOK, RecordsTypeOK, Attempt
    <3>3. LiveKeys(Key(w)[1]) \subseteq {Key(w)} \/ Key(w)[1] \notin Cycles
      BY <2>3, ScopesAssumption
    <3> QED BY <1>8, <2>1, <3>1, <3>2, <3>3, Concluded DEF RepairHandler
  <2> QED BY <1>8, <2>2, <2>3 DEF RepairHandler
<1> QED BY <1>1, <1>2, <1>3, <1>4, <1>6, <1>7, <1>8 DEF RepairStep

-----------------------------------------------------------------------------
(* Closures and owner changes hold no row lock across steps: they run in    *)
(* one transaction each.                                                    *)
LEMMA Handled ==
    ASSUME IInv, UNCHANGED <<provider, worker, entry, spent>>,
           closeReads' \subseteq Cycles, ownerTasks' \subseteq OwnerChange,
           RecordsTypeOK', Protocol'
    PROVE  IInv'
<1>1. /\ ProviderTypeOK' /\ WorkersTypeOK' /\ HandlersTypeOK' /\ SpentTypeOK'
      /\ ErasKnown'
  BY DEF IInv, TypeOK, ProviderTypeOK, WorkersTypeOK, HandlersTypeOK, SpentTypeOK, ErasKnown,
         provider
<1> QED BY <1>1, Parts DEF TypeOK

LEMMA CloseInvariant == ASSUME IInv, NEW c \in Cycles, CloseRead(c) \/ CloseApply(c) PROVE IInv'
<1>0. /\ TypeOK /\ Protocol
      /\ closeReads \subseteq Cycles /\ ownerTasks \subseteq OwnerChange
  BY Parts DEF TypeOK, HandlersTypeOK
<1>1. CASE CloseRead(c)
  <2>1. RecordsTypeOK' /\ Protocol'
    BY <1>0, <1>1, QuietStep DEF CloseRead, TypeOK, RecordsTypeOK, AttemptsKept, records
  <2> QED BY <1>0, <1>1, <2>1, Handled DEF CloseRead
<1>2. CASE CloseApply(c)
  <2>1. RecordsTypeOK' /\ AttemptsKept
    <3>1. CASE UNCHANGED records
      BY <1>0, <3>1 DEF TypeOK, RecordsTypeOK, AttemptsKept, records
    <3>2. ASSUME NEW d \in Cycles,
                 load' = Decremented(load, conv[d]),
                 conv' = [conv EXCEPT ![d] = NoConv],
                 cycle' = [cycle EXCEPT ![d] = "closed"],
                 \/ row' = [row EXCEPT ![TicketOf[c]] = NoRow(TicketOf[c])]
                    /\ att' = Unlinked(att, TicketOf[c])
                 \/ UNCHANGED <<row, att>>
          PROVE  RecordsTypeOK' /\ AttemptsKept
      <4>1. load' \in [Agents -> Nat]
        BY <1>0, <3>2, CountersStayNat DEF TypeOK, RecordsTypeOK
      <4>2. cycle' \in [Cycles -> CycleStates] /\ conv' \in [Scopes -> Owners \cup {NoConv}]
        BY <1>0, <3>2 DEF TypeOK, RecordsTypeOK, CycleStates
      <4>3. row' \in [Tickets -> Row]
        <5>1. TicketOf[c] \in Tickets /\ row \in [Tickets -> Row]
          BY <1>0, CyclesAssumption DEF TypeOK, RecordsTypeOK
        <5>2. NoRow(TicketOf[c]) \in Row
          BY <5>1 DEF Row, NoRow, Scopes
        <5> QED BY <3>2, <5>1, <5>2
      <4>4. att' \in [Keys -> Attempt] /\ AttemptsKept
        BY <1>0, <3>2, UnlinkingKeepsAttempts DEF TypeOK, RecordsTypeOK, AttemptsKept
      <4> QED BY <4>1, <4>2, <4>3, <4>4 DEF RecordsTypeOK
    <3> QED BY <1>2, <3>1, <3>2 DEF CloseApply
  <2>2. Protocol'
    BY <1>0, <1>2, <2>1, QuietStep DEF TypeOK, CloseApply
  <2> QED BY <1>0, <1>2, <2>1, <2>2, Handled DEF CloseApply
<1> QED BY <1>1, <1>2

(* The owner of a queued ticket takes over from its attempt.                *)
LEMMA ConvergeInvariant ==
    ASSUME IInv, NEW e \in OwnerChange, ConvergeQueued(e), worker' = worker
    PROVE  RecordsTypeOK' /\ Protocol'
<1> DEFINE t == e.ticket
<1>0. /\ TypeOK /\ Protocol /\ RecordsTypeOK /\ WorkersTypeOK
      /\ att \in [Keys -> Attempt] /\ load \in [Agents -> Nat]
  BY Parts DEF TypeOK, RecordsTypeOK
<1>1. t \in Tickets /\ e.new \in Owners
  BY DEF OwnerChange, ConvergeQueued
<1>2. ASSUME NEW attempts \in [Keys -> Attempt], NEW counters \in [Agents -> Nat],
             Adopt(t, e.new, attempts, counters)
      PROVE  /\ RecordsTypeOK'
             /\ \A l \in Keys : att'[l].state = attempts[l].state /\ att'[l].agent = attempts[l].agent
  <2>1. /\ att' \in [Keys -> Attempt]
        /\ \A l \in Keys : att'[l].state = attempts[l].state /\ att'[l].agent = attempts[l].agent
    BY <1>2, UnlinkingKeepsAttempts DEF Adopt
  <2>2. load' \in [Agents -> Nat]
    BY <1>2, CountersStayNat DEF Adopt
  <2>3. conv' \in [Scopes -> Owners \cup {NoConv}] /\ row' \in [Tickets -> Row]
    BY <1>0, <1>1, <1>2 DEF Adopt, RecordsTypeOK, Row, NoRow, Scopes
  <2>4. cycle' \in [Cycles -> CycleStates]
    BY <1>0, <1>2 DEF Adopt, RecordsTypeOK, LeaveQueue, CycleStates, Active
  <2> QED BY <2>1, <2>2, <2>3, <2>4 DEF RecordsTypeOK
<1>3. CASE Adopt(t, e.new, att, load)
  <2>1. RecordsTypeOK' /\ AttemptsKept
    BY <1>0, <1>2, <1>3 DEF AttemptsKept
  <2> QED BY <1>0, <2>1, QuietStep
<1>4. ASSUME NEW k \in Keys, att[k].state \in Live, ~AttemptLocked(k, Workers),
             \/ Finalize(k, att[k], load)
             \/ Adopt(t, e.new, [att EXCEPT ![k].state = "compensated", ![k].released = TRUE],
                      IF att[k].released THEN load ELSE Decremented(load, att[k].agent))
      PROVE  RecordsTypeOK' /\ Protocol'
  <2>1. att[k].state # "none" /\ att[k].agent \in Agents /\ att[k] \in Attempt
    BY <1>0, <1>4 DEF Live, Protocol, AgentsKnown
  <2>2. /\ RecordsTypeOK'
        /\ \A l \in Keys \ {k} : att'[l].state = att[l].state /\ att'[l].agent = att[l].agent
        /\ att'[k].state \in Terminal /\ att'[k].agent = att[k].agent
    <3>1. CASE Finalize(k, att[k], load)
      BY <1>0, <2>1, <3>1, Finalized DEF Terminal
    <3>2. CASE Adopt(t, e.new, [att EXCEPT ![k].state = "compensated", ![k].released = TRUE],
                     IF att[k].released THEN load ELSE Decremented(load, att[k].agent))
      <4> DEFINE attempts == [att EXCEPT ![k].state = "compensated", ![k].released = TRUE]
                 counters == IF att[k].released THEN load ELSE Decremented(load, att[k].agent)
      <4>1. /\ attempts \in [Keys -> Attempt]
            /\ \A l \in Keys \ {k} : attempts[l] = att[l]
            /\ attempts[k].state = "compensated" /\ attempts[k].agent = att[k].agent
        BY <1>0, <2>1 DEF Attempt, Terminal
      <4>2. counters \in [Agents -> Nat]
        BY <1>0, CountersStayNat
      <4>3. Adopt(t, e.new, attempts, counters)
        BY <3>2
      <4> HIDE DEF attempts, counters
      <4> QED BY <1>2, <4>1, <4>2, <4>3 DEF Terminal
    <3> QED BY <1>4, <3>1, <3>2
  <2>3. \A v \in Workers : worker'[v] = worker[v] /\ (worker[v].tx # "no" => worker[v].key # k)
    BY <1>4 DEF AttemptLocked
  <2>4. Protocol'
    BY <1>0, <1>4, <2>1, <2>2, <2>3, AttemptStep DEF Terminal, Live
  <2> QED BY <2>2, <2>4
<1> QED BY <1>3, <1>4 DEF ConvergeQueued, RowDeletable

LEMMA OwnerInvariant ==
    ASSUME IInv, NEW e \in ownerEvents \cup ownerTasks, OwnerRead(e) \/ OwnerApply(e) \/ OwnerDrop(e)
    PROVE  IInv'
<1>0. /\ TypeOK /\ Protocol
      /\ closeReads \subseteq Cycles /\ ownerTasks \subseteq OwnerChange
      /\ e \in OwnerChange
  BY Parts DEF TypeOK, HandlersTypeOK, ProviderTypeOK
<1>1. ASSUME UNCHANGED <<records, worker>> PROVE RecordsTypeOK' /\ Protocol'
  BY <1>0, <1>1, QuietStep DEF TypeOK, RecordsTypeOK, AttemptsKept, records
<1>2. CASE OwnerRead(e)
  <2>1. ownerTasks' \subseteq OwnerChange
    BY <1>0, <1>2 DEF OwnerRead, OwnerChange, TypeOK, ProviderTypeOK
  <2> QED BY <1>0, <1>1, <1>2, <2>1, Handled DEF OwnerRead
<1>3. CASE OwnerApply(e)
  <2>1. CASE ConvergeQueued(e)
    BY <1>0, <1>3, <2>1, ConvergeInvariant, Handled DEF OwnerApply
  <2>2. CASE Transfer(e)
    <3>1. /\ cycle' = cycle /\ row' = row /\ att' = att
          /\ conv' \in [Scopes -> Owners \cup {NoConv}]
      BY <1>0, <2>2 DEF Transfer, TypeOK, RecordsTypeOK, Held, OwnerChange
    <3>2. load' \in [Agents -> Nat]
      BY <1>0, <2>2, CountersStayNat DEF Transfer, TypeOK, RecordsTypeOK
    <3>3. RecordsTypeOK'
      BY <1>0, <3>1, <3>2 DEF TypeOK, RecordsTypeOK
    <3>4. Protocol'
      BY <1>0, <1>3, <3>1, QuietStep DEF OwnerApply, AttemptsKept, TypeOK
    <3> QED BY <1>0, <1>3, <3>3, <3>4, Handled DEF OwnerApply
  <2> QED BY <1>3, <2>1, <2>2 DEF OwnerApply
<1>4. CASE OwnerDrop(e)
  BY <1>0, <1>1, <1>4, Handled DEF OwnerDrop
<1> QED BY <1>2, <1>3, <1>4

-----------------------------------------------------------------------------
(* No step of the system falsifies the invariant.                           *)
LEMMA StepInvariant == IInv /\ [Next]_vars => IInv'
<1> SUFFICES ASSUME IInv, [Next]_vars PROVE IInv'
  OBVIOUS
<1>1. CASE UNCHANGED vars
  <2>1. RecordsTypeOK' /\ WorkersTypeOK' /\ AttemptsKept
    BY <1>1 DEF vars, records, IInv, TypeOK, RecordsTypeOK, WorkersTypeOK, AttemptsKept
  <2>2. Protocol'
    BY <1>1, <2>1, Parts, QuietStep DEF vars, TypeOK
  <2> QED BY <1>1, <2>1, <2>2, Assembled DEF vars
<1>2. CASE HubStep
  BY <1>2, HubInvariant
<1>3. CASE EnqueueStep
  BY <1>3, EnqueueInvariant
<1>4. ASSUME NEW w \in Workers, ReserveStep(w) \/ ExecuteStep(w) \/ RepairStep(w) \/ Crash(w)
      PROVE  IInv'
  BY <1>4, ReserveInvariant, ExecuteInvariant, RepairInvariant, CrashInvariant
<1>5. ASSUME NEW k \in Keys, Purge(k) PROVE IInv'
  BY <1>5, PurgeInvariant
<1>6. CASE WebhookStep
  BY <1>6, CloseInvariant, OwnerInvariant DEF WebhookStep
<1> QED BY <1>1, <1>2, <1>3, <1>4, <1>5, <1>6 DEF Next

(* The invariant holds in every state that the system reaches: everything a *)
(* worker, a repair or a webhook handler of the code may do preserves it.   *)
THEOREM Invariance == Spec => []IInv
BY InitInvariant, StepInvariant, PTL DEF Spec

(* Every table, event and worker keeps its type, and no agent counter goes  *)
(* below zero (decrement_agent_chat_count).                                 *)
THEOREM TypeCorrect == Spec => []TypeOK
<1>1. IInv => TypeOK
  BY DEF IInv
<1> QED BY <1>1, Invariance, PTL

(* A conversation cycle never has two live attempts, however many workers   *)
(* reserve, retry, repair and compensate at the same time                   *)
(* (uniq_live_assignment_cycle in models.py, and the code around it).       *)
THEOREM AttemptsAreSingle == Spec => []SingleLiveAttempt
<1>1. IInv => SingleLiveAttempt
  BY DEF IInv
<1> QED BY <1>1, Invariance, PTL

-----------------------------------------------------------------------------
(***************************************************************************)
(* The protocol keeps the promise of CycleAssignment: every step of it is  *)
(* a step of a cycle's life, or none.                                      *)
(***************************************************************************)
(* At most one cycle of a ticket is active (uniq_active_conv_cycle_ticket). *)
OneActive == \A c, d \in Cycles :
    TicketOf[c] = TicketOf[d] /\ cycle[c] \in Active /\ cycle[d] \in Active => c = d

Kept == Promise!Next \/ UNCHANGED Promise!vars

LEMMA StutterKept ==
    ASSUME UNCHANGED <<cycle, conv>>
    PROVE  UNCHANGED Promise!vars
BY DEF Promise!vars, Holder

(* A cycle is opened: no later one is known and none is active.             *)
LEMMA OpenKept ==
    ASSUME RecordsTypeOK, OneActive, NEW c \in Cycles, OpenCycle(c)
    PROVE  Kept /\ OneActive'
<1>1. CASE cycle' = cycle
  BY <1>1, StutterKept DEF OpenCycle, Kept, OneActive
<1>2. CASE cycle[c] = "none" /\ ~Blocked(c) /\ cycle' = [cycle EXCEPT ![c] = "queued"]
  <2>1. \A d \in Cycles : TicketOf[d] = TicketOf[c] /\ cycle[d] # "none" =>
          ~(d > c) /\ cycle[d] \notin Active
    BY <1>2 DEF Blocked, SameTicket
  <2>2. \A d \in Cycles : TicketOf[d] = TicketOf[c] /\ cycle[d] # "none" => d < c
    BY <1>2, <2>1, CyclesAssumption
  <2>3. [d \in Cycles |-> Holder(d)]' = [d \in Cycles |-> Holder(d)]
    BY <1>2 DEF OpenCycle, Holder, RecordsTypeOK
  <2>4. Promise!Open(c)
    BY <1>2, <2>1, <2>2, <2>3 DEF Promise!Open, Promise!SameTicket, Promise!Active, Active
  <2>5. OneActive'
    BY <1>2, <2>1 DEF OneActive, Active, RecordsTypeOK
  <2> QED BY <2>4, <2>5 DEF Kept, Promise!Next
<1> QED BY <1>1, <1>2 DEF OpenCycle

(* The assignment of ticket t's only active cycle changes hands.            *)
LEMMA ReassignKept ==
    ASSUME RecordsTypeOK, OneActive, UNCHANGED cycle,
           NEW t, NEW o \in Owners,
           \A c \in Cycles : TicketOf[c] # t => Holder(c)' = Holder(c),
           \A c \in Cycles : TicketOf[c] = t /\ cycle[c] = "assigned" => Holder(c)' \in {Holder(c), o}
    PROVE  Kept /\ OneActive'
<1>1. \A c \in Cycles : cycle[c] # "assigned" => Holder(c)' = Holder(c)
  BY DEF Holder
<1>2. (\A c \in Cycles : Holder(c)' = Holder(c)) => UNCHANGED Promise!vars
  BY DEF Promise!vars
<1>3. ASSUME NEW c \in Cycles, Holder(c)' # Holder(c)
      PROVE  Promise!Reassign(c, o)
  <2>1. TicketOf[c] = t /\ cycle[c] = "assigned" /\ Holder(c)' = o
    BY <1>1, <1>3
  <2>2. \A d \in Cycles \ {c} : Holder(d)' = Holder(d)
    BY <1>1, <2>1 DEF OneActive, Active
  <2> QED BY <2>1, <2>2 DEF Promise!Reassign
<1>4. OneActive'
  BY DEF OneActive
<1> QED BY <1>2, <1>3, <1>4 DEF Kept, Promise!Next

(* A queued cycle leaves the queue for owner o.                             *)
LEMMA AssignKept ==
    ASSUME RecordsTypeOK, OneActive,
           NEW c \in Cycles, NEW o \in Owners,
           cycle[c] = "queued",
           cycle' = [cycle EXCEPT ![c] = "assigned"],
           conv' = [conv EXCEPT ![c] = o]
    PROVE  Kept /\ OneActive'
<1>1. Holder(c)' = o
  BY OwnersAssumption, ConvAssumption DEF Holder, RecordsTypeOK, Owners, Scopes
<1>2. \A d \in Cycles \ {c} : Holder(d)' = Holder(d)
  <2> TAKE d \in Cycles \ {c}
  <2>1. cycle'[d] = cycle[d] /\ conv'[d] = conv[d]
    BY DEF RecordsTypeOK, Scopes
  <2>2. conv'[TicketOf[d]] = conv[TicketOf[d]]
    BY CyclesAssumption, ScopesAssumption DEF RecordsTypeOK, Scopes
  <2> QED BY <2>1, <2>2 DEF Holder
<1>3. Promise!Assign(c, o)
  BY <1>1, <1>2 DEF Promise!Assign
<1>4. OneActive'
  BY DEF OneActive, Active, RecordsTypeOK
<1> QED BY <1>3, <1>4 DEF Kept, Promise!Next

(* A finalization assigns the cycle of its attempt; that of an attempt      *)
(* without a cycle takes over whatever its ticket holds.                    *)
LEMMA FinalizeKept ==
    ASSUME RecordsTypeOK, OneActive, NEW k \in Keys, NEW rec, rec.agent \in Agents, NEW counters,
           Finalize(k, rec, counters)
    PROVE  Kept /\ OneActive'
<1> DEFINE t == KeyTicket(k)
<1>0. k[1] \in Scopes /\ t \in Tickets /\ rec.agent \in Owners /\ conv \in [Scopes -> Owners \cup {NoConv}]
  BY KeysHaveTickets DEF Owners, RecordsTypeOK
<1>1. CASE k[1] \in Cycles
  <2>1. k[1] \notin Tickets
    BY <1>1, ScopesAssumption
  <2>2. cycle[k[1]] = "queued" /\ cycle' = [cycle EXCEPT ![k[1]] = "assigned"]
    BY <1>1 DEF Finalize, Finalizable, OnQueue, LeaveQueue
  <2>3. conv' = [conv EXCEPT ![k[1]] = rec.agent]
    BY <1>0, <2>1 DEF Finalize
  <2> QED BY <1>0, <1>1, <2>2, <2>3, AssignKept
<1>2. CASE k[1] \in Tickets
  <2>1. k[1] \notin Cycles /\ t = k[1]
    BY <1>2, ScopesAssumption DEF KeyTicket, ScopeTicket
  <2>2. UNCHANGED cycle
    BY <2>1 DEF Finalize, LeaveQueue
  <2>3. conv' = [s \in Scopes |-> IF s = t THEN rec.agent
                                  ELSE IF s \in Held(t) THEN NoConv ELSE conv[s]]
    BY <1>2, <2>1 DEF Finalize
  <2>4. ASSUME NEW c \in Cycles, TicketOf[c] # t PROVE Holder(c)' = Holder(c)
    <3>1. c \in Scopes /\ TicketOf[c] \in Scopes /\ c # t /\ TicketOf[c] \notin Cycles
      BY <1>0, <2>1, CyclesAssumption, ScopesAssumption DEF Scopes
    <3>2. c \notin Held(t) /\ TicketOf[c] \notin Held(t)
      BY <2>4, <3>1 DEF Held, ScopeTicket
    <3>3. conv'[c] = conv[c] /\ conv'[TicketOf[c]] = conv[TicketOf[c]]
      BY <2>3, <2>4, <3>1, <3>2
    <3> QED BY <2>2, <3>3 DEF Holder
  <2>5. ASSUME NEW c \in Cycles, TicketOf[c] = t, cycle[c] = "assigned"
        PROVE  Holder(c)' = rec.agent
    <3>1. c \in Scopes /\ c # t /\ t \in Scopes /\ ScopeTicket(c) = t
      BY <1>0, <2>1, <2>5 DEF Scopes, ScopeTicket
    <3>2. conv'[c] = NoConv
      BY <1>0, <2>3, <3>1 DEF Held
    <3>3. conv'[t] = rec.agent
      BY <2>3, <3>1
    <3> QED BY <2>2, <2>5, <3>2, <3>3 DEF Holder
  <2> QED BY <1>0, <2>2, <2>4, <2>5, ReassignKept
<1> QED BY <1>0, <1>1, <1>2 DEF Scopes

(* An owner takes scope s over, whichever state its cycle is in.            *)
LEMMA MoveKept ==
    ASSUME RecordsTypeOK, OneActive, UNCHANGED cycle,
           NEW s \in Scopes, NEW o \in Owners,
           conv' = [conv EXCEPT ![s] = o]
    PROVE  Kept /\ OneActive'
<1>0. /\ conv'[s] = o /\ o # NoConv
      /\ \A u \in Scopes \ {s} : conv'[u] = conv[u]
  BY ConvAssumption, OwnersAssumption DEF RecordsTypeOK, Owners
<1>1. ASSUME NEW c \in Cycles
      PROVE  c \in Scopes /\ TicketOf[c] \in Tickets /\ TicketOf[c] \in Scopes
  BY <1>1, CyclesAssumption DEF Scopes
<1>2. CASE s \in Cycles
  <2>1. ASSUME NEW c \in Cycles, c # s PROVE Holder(c)' = Holder(c)
    <3>1. TicketOf[c] # s
      BY <1>1, <1>2, ScopesAssumption
    <3> QED BY <1>0, <1>1, <2>1, <3>1 DEF Holder
  <2>2. cycle[s] = "assigned" => Holder(s)' = o
    BY <1>0 DEF Holder
  <2>3. /\ \A c \in Cycles : TicketOf[c] # TicketOf[s] => Holder(c)' = Holder(c)
        /\ \A c \in Cycles : TicketOf[c] = TicketOf[s] /\ cycle[c] = "assigned" =>
              Holder(c)' \in {Holder(c), o}
    BY <2>1, <2>2
  <2> QED BY <2>3, ReassignKept
<1>3. CASE s \notin Cycles
  <2>1. ASSUME NEW c \in Cycles, TicketOf[c] # s PROVE Holder(c)' = Holder(c)
    BY <1>0, <1>1, <1>3, <2>1 DEF Holder
  <2>2. ASSUME NEW c \in Cycles, TicketOf[c] = s, cycle[c] = "assigned"
        PROVE  Holder(c)' \in {Holder(c), o}
    BY <1>0, <1>1, <1>3, <2>2 DEF Holder
  <2> QED BY <2>1, <2>2, ReassignKept
<1> QED BY <1>2, <1>3

LEMMA AdoptKept ==
    ASSUME RecordsTypeOK, OneActive, NEW t \in Tickets, NEW o \in Owners,
           NEW attempts, NEW counters, Adopt(t, o, attempts, counters)
    PROVE  Kept /\ OneActive'
<1> DEFINE s == row[t].scope
<1>0. s \in Scopes /\ conv' = [conv EXCEPT ![s] = o]
  BY DEF RecordsTypeOK, Row, Adopt
<1>1. CASE s \in Cycles /\ cycle[s] = "queued"
  <2>1. cycle' = [cycle EXCEPT ![s] = "assigned"]
    BY <1>1 DEF Adopt, OnQueue, LeaveQueue
  <2> QED BY <1>0, <1>1, <2>1, AssignKept
<1>2. CASE ~(s \in Cycles /\ cycle[s] = "queued")
  <2>1. UNCHANGED cycle
    BY <1>2 DEF Adopt, OnQueue, LeaveQueue
  <2> QED BY <1>0, <2>1, MoveKept
<1> QED BY <1>1, <1>2

LEMMA OwnerKept ==
    ASSUME IInv, OneActive, NEW e \in OwnerChange, ConvergeQueued(e) \/ Transfer(e)
    PROVE  Kept /\ OneActive'
<1>0. RecordsTypeOK /\ AgentsKnown /\ e.ticket \in Tickets /\ e.new \in Owners \cup {Nobody}
  BY DEF IInv, TypeOK, OwnerChange
<1>1. ASSUME ConvergeQueued(e),
             NEW k \in Keys, att[k].state \in Live, Finalize(k, att[k], load)
      PROVE  Kept /\ OneActive'
  <2>1. att[k].agent \in Agents
    BY <1>0, <1>1 DEF AgentsKnown, Live
  <2> QED BY <1>0, <1>1, <2>1, FinalizeKept
<1>2. ASSUME NEW attempts, NEW counters, e.new # Nobody, Adopt(e.ticket, e.new, attempts, counters)
      PROVE  Kept /\ OneActive'
  BY <1>0, <1>2, AdoptKept
<1>3. CASE ConvergeQueued(e)
  BY <1>1, <1>2, <1>3 DEF ConvergeQueued
<1>4. CASE Transfer(e)
  <2>1. PICK s \in Scopes : /\ conv' = [conv EXCEPT ![s] = e.new] /\ e.new # Nobody
                            /\ UNCHANGED cycle
    BY <1>4 DEF Transfer, Held
  <2> QED BY <1>0, <2>1, MoveKept
<1> QED BY <1>3, <1>4

LEMMA CloseKept ==
    ASSUME RecordsTypeOK, OneActive, NEW c \in Cycles, CloseApply(c)
    PROVE  Kept /\ OneActive'
<1>1. CASE UNCHANGED <<cycle, conv>>
  BY <1>1, StutterKept DEF Kept, OneActive
<1>2. ASSUME NEW d \in Cycles, cycle[d] \in Active,
             cycle' = [cycle EXCEPT ![d] = "closed"], conv' = [conv EXCEPT ![d] = NoConv]
      PROVE  Kept /\ OneActive'
  <2>1. \A f \in Cycles \ {d} : cycle'[f] = cycle[f] /\ conv'[f] = conv[f]
    BY <1>2 DEF RecordsTypeOK, Scopes
  <2>2. \A f \in Cycles : conv'[TicketOf[f]] = conv[TicketOf[f]]
    BY <1>2, CyclesAssumption, ScopesAssumption DEF RecordsTypeOK, Scopes
  <2>3. Holder(d)' = NoConv /\ \A f \in Cycles \ {d} : Holder(f)' = Holder(f)
    BY <1>2, <2>1, <2>2 DEF Holder, RecordsTypeOK
  <2>4. Promise!Close(d)
    BY <1>2, <2>3 DEF Promise!Close, Promise!Active, Active
  <2>5. OneActive'
    BY <1>2 DEF OneActive, Active, RecordsTypeOK
  <2> QED BY <2>4, <2>5 DEF Kept, Promise!Next
<1> QED BY <1>1, <1>2 DEF CloseApply, records

(* Every transaction of a worker is one step of a cycle's life, or none.    *)
LEMMA WorkerKept ==
    ASSUME IInv, OneActive, NEW w \in Workers,
           ReserveStep(w) \/ ExecuteStep(w) \/ RepairStep(w) \/ Crash(w)
    PROVE  Kept /\ OneActive'
<1>0. RecordsTypeOK
  BY DEF IInv, TypeOK
<1>1. CASE UNCHANGED <<cycle, conv>>
  BY <1>1, StutterKept DEF Kept, OneActive
<1>2. ASSUME ~At(w, "idle"), NEW counters, Finalize(Key(w), Seen(w), counters)
      PROVE  Kept /\ OneActive'
  BY <1>0, <1>2, SeenAttempt, FinalizeKept
<1>3. CASE ReserveStep(w)
  BY <1>1, <1>3 DEF ReserveStep, ReserveStale, ReserveExisting, ReserveNew, Create, records
<1>4. CASE FinalizeStep(w)
  <2>1. CASE worker[w].tx = "retry"
    BY <1>1, <1>4, <2>1, SeenAttempt DEF FinalizeStep, At, Key, records
  <2>2. CASE worker[w].tx # "retry"
    <3>1. Seen(w) = att[Key(w)]
      BY <2>2 DEF Seen, Key
    <3> QED BY <1>1, <1>2, <1>4, <3>1 DEF FinalizeStep, At, records
  <2> QED BY <2>1, <2>2
<1>5. CASE ExecuteStep(w) /\ ~FinalizeStep(w)
  BY <1>1, <1>5 DEF ExecuteStep, Start, PreRead, PatchApplied, PatchRejected, Readback, Reread,
                    CompensateStep, Compensate, MarkExternalApplied, records
<1>6. CASE RepairConfirm(w)
  BY <1>1, <1>2, <1>6 DEF RepairConfirm, At, records
<1>7. CASE RepairStep(w) /\ ~RepairConfirm(w)
  BY <1>1, <1>7 DEF RepairStep, RepairScan, RepairLock, RetryCheck, RetryTake, RepairRaises,
                    RepairHandler, records
<1>8. CASE Crash(w)
  BY <1>1, <1>8 DEF Crash, records
<1> QED BY <1>3, <1>4, <1>5, <1>6, <1>7, <1>8

(* Every step of the protocol keeps the promise.                            *)
LEMMA StepKept == IInv /\ OneActive /\ [Next]_vars => Kept /\ OneActive'
<1> SUFFICES ASSUME IInv, OneActive, [Next]_vars PROVE Kept /\ OneActive'
  OBVIOUS
<1>0. RecordsTypeOK /\ ownerEvents \cup ownerTasks \subseteq OwnerChange
  BY DEF IInv, TypeOK, ProviderTypeOK, HandlersTypeOK
<1>1. CASE UNCHANGED <<cycle, conv>>
  BY <1>1, StutterKept DEF Kept, OneActive
<1>2. CASE UNCHANGED vars
  BY <1>1, <1>2 DEF vars, records
<1>3. CASE HubStep
  BY <1>1, <1>3 DEF HubStep, HubEnterNovo, HubMoveOn, HubClose, HubEditOwner, records
<1>4. CASE EnqueueStep
  BY <1>0, <1>1, <1>4, OpenKept DEF EnqueueStep, EnqueueRead, FindRow, PointRow, EnqueueDies, records
<1>5. CASE \E w \in Workers : ReserveStep(w) \/ ExecuteStep(w) \/ RepairStep(w) \/ Crash(w)
  BY <1>5, WorkerKept
<1>6. CASE \E k \in Keys : Purge(k)
  BY <1>1, <1>6 DEF Purge
<1>7. CASE WebhookStep
  <2>1. ASSUME NEW c \in Cycles, CloseRead(c) \/ CloseApply(c) PROVE Kept /\ OneActive'
    BY <1>0, <1>1, <2>1, CloseKept DEF CloseRead, records
  <2>2. ASSUME NEW e \in ownerEvents \cup ownerTasks, OwnerRead(e) \/ OwnerApply(e) \/ OwnerDrop(e)
        PROVE  Kept /\ OneActive'
    BY <1>0, <1>1, <2>2, OwnerKept DEF OwnerRead, OwnerApply, OwnerDrop, records
  <2> QED BY <1>7, <2>1, <2>2 DEF WebhookStep
<1> QED BY <1>2, <1>3, <1>4, <1>5, <1>6, <1>7 DEF Next

LEMMA InitKept == Init => Promise!Init /\ OneActive
<1> SUFFICES ASSUME Init PROVE Promise!Init /\ OneActive
  OBVIOUS
<1>1. cycle = [c \in Cycles |-> "none"]
  BY DEF Init, RecordsInit
<1>2. [c \in Cycles |-> Holder(c)] = [c \in Cycles |-> NoConv]
  BY <1>1 DEF Holder
<1> QED BY <1>1, <1>2 DEF Promise!Init, OneActive, Active

(* At most one cycle of a ticket is queued or assigned, however its NOVO    *)
(* entries, closures and assignments interleave (open_or_get_cycle).        *)
THEOREM OneCycleIsActive == Spec => []OneActive
BY InitKept, StepKept, Invariance, PTL DEF Spec

(* The protocol implements the life of a cycle: queued once, held by one    *)
(* owner at a time, closed for good, whichever of the workers, the repair,  *)
(* the webhooks and the closures takes the step.                            *)
THEOREM PromiseKept == Spec => CyclesKeepTheirPromise
<1>1. Kept => [Promise!Next]_(Promise!vars)
  BY DEF Kept
<1>2. IInv /\ OneActive /\ [Next]_vars => [Promise!Next]_(Promise!vars)
  BY <1>1, StepKept
<1> QED BY <1>2, InitKept, Invariance, OneCycleIsActive, PTL
        DEF Spec, CyclesKeepTheirPromise, Promise!Spec

-----------------------------------------------------------------------------
(***************************************************************************)
(* What the tables of the assignment protocol say of each other and of     *)
(* HubSpot.  From RecordsInv follow that an assignment is finalized once   *)
(* and only for an announced owner, that it agrees with its cycle, and     *)
(* that capacity is neither leaked nor overbooked.                         *)
(***************************************************************************)
(* Counting.  What an agent is charged with changes by one attempt and one  *)
(* assignment at a time.                                                    *)
One(b) == IF b THEN 1 ELSE 0

LEMMA OneMoreOrLess ==
    ASSUME NEW S, NEW T, IsFiniteSet(S), NEW x,
           \A y : y # x => (y \in S <=> y \in T)
    PROVE  /\ IsFiniteSet(T)
           /\ Cardinality(S) \in Nat /\ Cardinality(T) \in Nat
           /\ Cardinality(T) + One(x \in S) = Cardinality(S) + One(x \in T)
           /\ One(x \in T) <= Cardinality(T)
<1>1. Cardinality(S) \in Nat /\ (S = {} <=> Cardinality(S) = 0)
  BY FS_CardinalityType, FS_EmptySet
<1>2. CASE x \in T
  <2>1. T = S \cup {x}
    BY <1>2
  <2> QED BY <1>1, <1>2, <2>1, FS_AddElement DEF One
<1>3. CASE x \notin T
  <2>1. T = S \ {x}
    BY <1>3
  <2>2. x \in S => Cardinality(S) # 0
    BY <1>1
  <2>3. /\ IsFiniteSet(T)
        /\ Cardinality(T) = IF x \in S THEN Cardinality(S) - 1 ELSE Cardinality(S)
    BY <2>1, FS_RemoveElement
  <2> QED BY <1>1, <1>3, <2>2, <2>3 DEF One
<1> QED BY <1>2, <1>3

ChargeKept(l) ==
    att'[l].state = att[l].state /\ att'[l].agent = att[l].agent
                                 /\ att'[l].released = att[l].released

LEMMA ChargesCounted ==
    ASSUME ChargesFinite, NEW k, \A l \in Keys : l # k => ChargeKept(l), NEW a \in Agents
    PROVE  /\ IsFiniteSet(Charged(a)')
           /\ Cardinality(Charged(a)) \in Nat /\ Cardinality(Charged(a)') \in Nat
           /\ Cardinality(Charged(a)') + One(k \in Charged(a)) =
                 Cardinality(Charged(a)) + One(k \in Charged(a)')
<1>1. IsFiniteSet(Charged(a))
  BY DEF ChargesFinite
<1>2. \A l : l # k => (l \in Charged(a) <=> l \in Charged(a)')
  BY DEF Charged, ChargeKept
<1> QED BY <1>1, <1>2, OneMoreOrLess

LEMMA HoldingsCounted ==
    ASSUME ChargesFinite, NEW s, \A u \in Scopes : u # s => conv'[u] = conv[u], NEW a \in Agents
    PROVE  /\ IsFiniteSet(HeldBy(a)')
           /\ Cardinality(HeldBy(a)) \in Nat /\ Cardinality(HeldBy(a)') \in Nat
           /\ Cardinality(HeldBy(a)') + One(s \in HeldBy(a)) =
                 Cardinality(HeldBy(a)) + One(s \in HeldBy(a)')
           /\ One(s \in HeldBy(a)') <= Cardinality(HeldBy(a)')
<1>1. IsFiniteSet(HeldBy(a))
  BY DEF ChargesFinite
<1>2. \A u : u # s => (u \in HeldBy(a) <=> u \in HeldBy(a)')
  BY DEF HeldBy
<1> QED BY <1>1, <1>2, OneMoreOrLess

(* Attempt k and scope s change; every agent's counter moves with them, or  *)
(* is zero.                                                                 *)
LEMMA CapacityStep ==
    ASSUME RecordsTypeOK, RecordsTypeOK', ChargesFinite, NoCapacityLeak,
           NEW k, \A l \in Keys : l # k => ChargeKept(l),
           NEW s, \A u \in Scopes : u # s => conv'[u] = conv[u],
           (\A t \in Tickets : Untangled(t))' =>
               /\ \A t \in Tickets : Untangled(t)
               /\ \A a \in Agents :
                     \/ load'[a] <= One(s \in HeldBy(a)')
                     \/ load'[a] + One(k \in Charged(a)) + One(s \in HeldBy(a)) <=
                           load[a] + One(k \in Charged(a)') + One(s \in HeldBy(a)')
    PROVE  ChargesFinite' /\ NoCapacityLeak'
<1>1. ChargesFinite'
  BY ChargesCounted, HoldingsCounted DEF ChargesFinite
<1>2. ASSUME (\A t \in Tickets : Untangled(t))', NEW a \in Agents
      PROVE  load'[a] <= Cardinality(Charged(a)') + Cardinality(HeldBy(a)')
  <2>1. load[a] <= Cardinality(Charged(a)) + Cardinality(HeldBy(a))
    BY <1>2 DEF NoCapacityLeak
  <2>2. load[a] \in Nat /\ load'[a] \in Nat
    BY DEF RecordsTypeOK
  <2>3. /\ Cardinality(Charged(a)) \in Nat /\ Cardinality(Charged(a)') \in Nat
        /\ Cardinality(Charged(a)') + One(k \in Charged(a)) =
              Cardinality(Charged(a)) + One(k \in Charged(a)')
    BY ChargesCounted
  <2>4. /\ Cardinality(HeldBy(a)) \in Nat /\ Cardinality(HeldBy(a)') \in Nat
        /\ Cardinality(HeldBy(a)') + One(s \in HeldBy(a)) =
              Cardinality(HeldBy(a)) + One(s \in HeldBy(a)')
        /\ One(s \in HeldBy(a)') <= Cardinality(HeldBy(a)')
    BY HoldingsCounted
  <2>5. \/ load'[a] <= One(s \in HeldBy(a)')
        \/ load'[a] + One(k \in Charged(a)) + One(s \in HeldBy(a)) <=
              load[a] + One(k \in Charged(a)') + One(s \in HeldBy(a)')
    BY <1>2
  <2> QED BY <2>1, <2>2, <2>3, <2>4, <2>5 DEF One
<1>3. NoCapacityLeak'
  BY <1>2 DEF NoCapacityLeak
<1> QED BY <1>1, <1>3

-----------------------------------------------------------------------------
(* RecordsInv splits into what the tables say of each other, which the      *)
(* transactions change, and what they say of HubSpot and of the workers.    *)
Tables == RowsOpened /\ RetryableReleased /\ CompletedOnce /\ ProjectionAgrees
                     /\ ChargesFinite /\ NoCapacityLeak

(* The attempt that a transaction reads, and the counters with it: those of *)
(* the tables, or those of a retry that has not committed yet.              *)
Read(k, rec, counters) ==
    \/ rec = att[k] /\ counters = load
    \/ /\ att[k].state = "retryable"
       /\ rec = [att[k] EXCEPT !.state = "reserved", !.released = FALSE]
       /\ counters = Incremented(load, att[k].agent)

(* A counter after one increment or decrement.                              *)
LEMMA CountersMove ==
    ASSUME NEW l \in [Agents -> Nat], NEW o, NEW a \in Agents
    PROVE  /\ Incremented(l, o)[a] = l[a] + One(a = o)
           /\ \/ a = o /\ Decremented(l, o)[a] = 0
              \/ Decremented(l, o)[a] + One(a = o) = l[a]
           /\ o \in Agents => Decremented(Incremented(l, o), o)[a] = l[a]
BY DEF Incremented, Decremented, One

(* A transaction that keeps the assignments, the cycles and the entries,    *)
(* and changes attempt k only.                                              *)
LEMMA AttemptTables ==
    ASSUME RecordsTypeOK, RecordsTypeOK', Tables, UNCHANGED <<cycle, conv, entry>>,
           \A t \in Tickets : row'[t].scope = row[t].scope,
           NEW k, \A l \in Keys : l # k => ChargeKept(l),
           k \in Keys /\ att'[k].state = "completed" => att[k].state = "completed",
           k \in Keys /\ att'[k].state = "retryable" => att'[k].released,
           \A a \in Agents : load'[a] = 0 \/
               load'[a] + One(k \in Charged(a)) <= load[a] + One(k \in Charged(a)')
    PROVE  Tables'
<1>1. RowsOpened'
  BY DEF Tables, RowsOpened
<1>2. RetryableReleased'
  BY DEF Tables, RetryableReleased, ChargeKept
<1>3. CompletedOnce'
  BY DEF Tables, CompletedOnce, ChargeKept
<1>4. ProjectionAgrees'
  BY DEF Tables, ProjectionAgrees, Untangled
<1>5. ChargesFinite' /\ NoCapacityLeak'
  <2>1. \A a \in Agents : NoKey \in HeldBy(a) <=> NoKey \in HeldBy(a)'
    BY DEF HeldBy
  <2>2. ASSUME NEW a \in Agents
        PROVE  \/ load'[a] <= One(NoKey \in HeldBy(a)')
               \/ load'[a] + One(k \in Charged(a)) + One(NoKey \in HeldBy(a)) <=
                     load[a] + One(k \in Charged(a)') + One(NoKey \in HeldBy(a)')
    <3>1. load[a] \in Nat /\ load'[a] \in Nat
      BY DEF RecordsTypeOK
    <3>2. One(NoKey \in HeldBy(a)) = One(NoKey \in HeldBy(a)') /\ One(NoKey \in HeldBy(a)) \in {0, 1}
          /\ One(k \in Charged(a)) \in {0, 1} /\ One(k \in Charged(a)') \in {0, 1}
      BY <2>1 DEF One
    <3>3. load'[a] = 0 \/ load'[a] + One(k \in Charged(a)) <= load[a] + One(k \in Charged(a)')
      OBVIOUS
    <3> QED BY <3>1, <3>2, <3>3
  <2>3. (\A t \in Tickets : Untangled(t))' =>
           /\ \A t \in Tickets : Untangled(t)
           /\ \A a \in Agents :
                \/ load'[a] <= One(NoKey \in HeldBy(a)')
                \/ load'[a] + One(k \in Charged(a)) + One(NoKey \in HeldBy(a)) <=
                      load[a] + One(k \in Charged(a)') + One(NoKey \in HeldBy(a)')
    BY <2>2 DEF Untangled
  <2>4. \A u \in Scopes : u # NoKey => conv'[u] = conv[u]
    OBVIOUS
  <2> HIDE DEF NoKey
  <2> QED BY <2>3, <2>4, CapacityStep DEF Tables
<1> QED BY <1>1, <1>2, <1>3, <1>4, <1>5 DEF Tables

LEMMA CompensateTables ==
    ASSUME RecordsTypeOK, RecordsTypeOK', Tables, entry' = entry,
           NEW k \in Keys, att[k].agent \in Agents,
           NEW rec, NEW counters, Read(k, rec, counters), NEW mode,
           Compensate(k, rec, counters, mode)
    PROVE  Tables'
<1>1. /\ UNCHANGED <<cycle, conv>>
      /\ \A t \in Tickets : row'[t].scope = row[t].scope
  BY DEF Compensate, RecordsTypeOK, Row
<1>2. \A l \in Keys : l # k => ChargeKept(l)
  BY DEF Compensate, ChargeKept, RecordsTypeOK
<1>3. CompensatedState(mode) \in {"retryable", "repair_required", "compensated"}
  BY DEF CompensatedState
<1>4. att[k] \in Attempt
  BY DEF RecordsTypeOK
<1>5. CASE rec = att[k] /\ counters = load
  <2>1. CASE CompensationSkipped(rec, mode)
    <3>1. att' = att /\ load' = load
      BY <1>5, <2>1 DEF Compensate, RecordsTypeOK
    <3>2. \A a \in Agents : Charged(a)' = Charged(a)
      BY <3>1 DEF Charged
    <3>3. \A a \in Agents : load'[a] + One(k \in Charged(a)) <= load[a] + One(k \in Charged(a)')
      BY <3>1, <3>2 DEF One, RecordsTypeOK
    <3> QED BY <1>1, <1>2, <3>1, <3>3, AttemptTables DEF Tables, RetryableReleased
  <2>2. CASE ~CompensationSkipped(rec, mode)
    <3>1. /\ att'[k].state = CompensatedState(mode) /\ att'[k].released
          /\ att[k].state # "completed"
      BY <1>4, <1>5, <2>2 DEF Compensate, RecordsTypeOK, CompensationSkipped, Terminal, Attempt
    <3>2. load' = IF att[k].released THEN load ELSE Decremented(load, att[k].agent)
      BY <1>5, <2>2 DEF Compensate
    <3>3. ASSUME NEW a \in Agents
          PROVE  load'[a] = 0 \/ load'[a] + One(k \in Charged(a)) <= load[a] + One(k \in Charged(a)')
      <4>1. k \notin Charged(a)' /\ (k \in Charged(a) => a = att[k].agent /\ ~att[k].released)
        BY <3>1 DEF Charged
      <4>2. /\ load[a] \in Nat /\ load'[a] \in Nat
            /\ \/ Decremented(load, att[k].agent)[a] = 0
               \/ Decremented(load, att[k].agent)[a] + One(a = att[k].agent) = load[a]
        BY CountersMove DEF RecordsTypeOK
      <4> QED BY <3>2, <4>1, <4>2 DEF One
    <3> QED BY <1>1, <1>2, <1>3, <3>1, <3>3, AttemptTables
  <2> QED BY <2>1, <2>2
<1>6. CASE /\ att[k].state = "retryable"
           /\ rec = [att[k] EXCEPT !.state = "reserved", !.released = FALSE]
           /\ counters = Incremented(load, att[k].agent)
  <2>0. rec.state = "reserved" /\ ~rec.released /\ rec.agent = att[k].agent /\ rec \in Attempt
    BY <1>4, <1>6 DEF Attempt, Live
  <2>1. ~CompensationSkipped(rec, mode)
    BY <2>0 DEF CompensationSkipped, Terminal
  <2>2. att' = [att EXCEPT ![k] = [rec EXCEPT !.state = CompensatedState(mode), !.released = TRUE]]
    BY <2>1 DEF Compensate
  <2>3. att'[k].state = CompensatedState(mode) /\ att'[k].released
    BY <2>0, <2>2 DEF RecordsTypeOK, Attempt
  <2>4. load' = Decremented(Incremented(load, att[k].agent), att[k].agent)
    BY <1>6, <2>0, <2>1 DEF Compensate
  <2>5. att[k].released
    BY <1>6 DEF Tables, RetryableReleased
  <2>6. ASSUME NEW a \in Agents
        PROVE  load'[a] + One(k \in Charged(a)) <= load[a] + One(k \in Charged(a)')
    <3>1. k \notin Charged(a) /\ k \notin Charged(a)'
      BY <2>3, <2>5 DEF Charged
    <3>2. load'[a] = load[a] /\ load[a] \in Nat
      BY <2>4, CountersMove DEF RecordsTypeOK
    <3> QED BY <3>1, <3>2 DEF One
  <2> QED BY <1>1, <1>2, <1>3, <2>3, <2>6, AttemptTables
<1> QED BY <1>5, <1>6 DEF Read

(* An attempt is marked, created or purged.                                 *)
LEMMA MarkTables ==
    ASSUME RecordsTypeOK, RecordsTypeOK', Tables, UNCHANGED <<cycle, row, conv, load, entry>>,
           NEW k \in Keys, NEW state \in {"external_applied", "repair_required"},
           att' = [att EXCEPT ![k].state = state]
    PROVE  Tables'
<1>1. /\ \A l \in Keys : l # k => ChargeKept(l)
      /\ att'[k].state = state /\ att'[k].agent = att[k].agent
                               /\ att'[k].released = att[k].released
  BY DEF ChargeKept, RecordsTypeOK, Attempt
<1>2. ASSUME NEW a \in Agents
      PROVE  load'[a] + One(k \in Charged(a)) <= load[a] + One(k \in Charged(a)')
  <2>1. k \in Charged(a) => k \in Charged(a)'
    BY <1>1 DEF Charged, Live
  <2> QED BY <2>1 DEF One, RecordsTypeOK
<1> QED BY <1>1, <1>2, AttemptTables

LEMMA CreateTables ==
    ASSUME RecordsTypeOK, RecordsTypeOK', Tables, entry' = entry,
           NEW k \in Keys, NEW o \in Agents, Create(k, o)
    PROVE  Tables'
<1>1. /\ \A l \in Keys : l # k => ChargeKept(l)
      /\ att'[k] = [state |-> "reserved", agent |-> o, released |-> FALSE, linked |-> TRUE]
      /\ att[k].state = "none"
      /\ UNCHANGED <<cycle, row, conv>>
  BY DEF Create, ChargeKept, RecordsTypeOK, Attempt
<1>2. ASSUME NEW a \in Agents
      PROVE  load'[a] + One(k \in Charged(a)) <= load[a] + One(k \in Charged(a)')
  <2>1. k \notin Charged(a) /\ (k \in Charged(a)' <=> a = o)
    BY <1>1 DEF Charged, Live
  <2>2. load'[a] = load[a] + One(a = o) /\ load[a] \in Nat
    BY CountersMove DEF Create, RecordsTypeOK
  <2> QED BY <2>1, <2>2 DEF One
<1> QED BY <1>1, <1>2, AttemptTables

LEMMA PurgeTables ==
    ASSUME RecordsTypeOK, RecordsTypeOK', Tables, NEW k \in Keys, Purge(k)
    PROVE  Tables'
<1>1. /\ \A l \in Keys : l # k => ChargeKept(l)
      /\ att'[k] = NoAttempt
      /\ UNCHANGED <<cycle, row, conv, load, entry>>
  BY DEF Purge, handlers, ChargeKept, RecordsTypeOK, Attempt
<1>2. ASSUME NEW a \in Agents
      PROVE  load'[a] + One(k \in Charged(a)) <= load[a] + One(k \in Charged(a)')
  <2>1. k \notin Charged(a) /\ k \notin Charged(a)'
    BY <1>1 DEF Purge, Charged, NoAttempt, Live, Terminal
  <2> QED BY <1>1, <2>1 DEF One, RecordsTypeOK
<1> QED BY <1>1, <1>2, AttemptTables DEF NoAttempt

-----------------------------------------------------------------------------
(* Scopes, and rows that are deleted.                                       *)
LEMMA ScopesSplit ==
    /\ \A c \in Cycles : c \in Scopes /\ c \notin Tickets /\ ScopeTicket(c) = TicketOf[c]
                         /\ TicketOf[c] \in Tickets
    /\ \A t \in Tickets : t \in Scopes /\ t \notin Cycles /\ ScopeTicket(t) = t
    /\ \A s \in Scopes : s \in Cycles \/ s \in Tickets
BY CyclesAssumption, ScopesAssumption DEF Scopes, ScopeTicket

LEMMA UnlinkingKeepsCharges ==
    ASSUME NEW attempts \in [Keys -> Attempt], NEW t, NEW k \in Keys
    PROVE  /\ Unlinked(attempts, t)[k].state = attempts[k].state
           /\ Unlinked(attempts, t)[k].agent = attempts[k].agent
           /\ Unlinked(attempts, t)[k].released = attempts[k].released
BY DEF Unlinked, Attempt

(* The rows after one of them was deleted, and cycles that only go on.      *)
LEMMA RowsAfterDelete ==
    ASSUME RecordsTypeOK, RowsOpened, entry' = entry,
           NEW t \in Tickets,
           row' = row \/ row' = [row EXCEPT ![t] = NoRow(t)],
           \A c \in Cycles : cycle[c] # "none" => cycle'[c] # "none"
    PROVE  RowsOpened'
<1>1. \A u \in Tickets : row'[u].scope = row[u].scope \/ row'[u].scope = u
  BY DEF RecordsTypeOK, NoRow
<1> QED BY <1>1, ScopesSplit DEF RowsOpened

LEMMA FinalizeTables ==
    ASSUME RecordsTypeOK, RecordsTypeOK', Tables, entry' = entry,
           NEW k \in Keys, att[k].agent \in Agents, att[k].state \in Live,
           NEW rec, NEW counters, Read(k, rec, counters),
           Finalize(k, rec, counters)
    PROVE  Tables'
<1> DEFINE s == k[1]
           t == KeyTicket(k)
           o == att[k].agent
<1>0. /\ s \in Scopes /\ t \in Tickets /\ k = <<k[1], k[2]>> /\ t = ScopeTicket(s)
      /\ o # NoConv
  BY KeysHaveTickets, ConvAssumption DEF KeyTicket
<1>1. /\ rec.agent = o
      /\ att \in [Keys -> Attempt]
  BY DEF Read, RecordsTypeOK, Attempt
<1>2. /\ \A l \in Keys : l # k => ChargeKept(l)
      /\ att'[k].state = "completed"
  BY <1>1, UnlinkingKeepsCharges, UnlinkingKeepsAttempts DEF Finalize, ChargeKept, Attempt, Read
<1>3. RetryableReleased'
  BY <1>2 DEF Tables, RetryableReleased, ChargeKept
<1>4. RowsOpened'
  <2>1. \A c \in Cycles : cycle[c] # "none" => cycle'[c] # "none"
    BY DEF Finalize, LeaveQueue, RecordsTypeOK
  <2> QED BY <1>0, <2>1, RowsAfterDelete DEF Finalize, Tables
<1>5. CASE s \in Cycles
  <2>1. /\ s \notin Tickets /\ t = TicketOf[s]
        /\ cycle[s] = "queued" /\ cycle' = [cycle EXCEPT ![s] = "assigned"]
    BY <1>0, <1>5, ScopesSplit DEF Finalize, Finalizable, OnQueue, LeaveQueue
  <2>2. conv' = [conv EXCEPT ![s] = o]
    BY <1>0, <1>1, <2>1 DEF Finalize, RecordsTypeOK
  <2>3. CompletedOnce'
    <3>1. \A l \in Keys : l[1] = s => att[l].state # "completed"
      BY <1>5, <2>1 DEF Tables, CompletedOnce
    <3>2. \A l \in Keys : att'[l].state = "completed" <=> l = k \/ att[l].state = "completed"
      BY <1>2 DEF ChargeKept
    <3>3. \A c \in Cycles : cycle'[c] = IF c = s THEN "assigned" ELSE cycle[c]
      BY <2>1 DEF RecordsTypeOK
    <3> QED BY <3>1, <3>2, <3>3 DEF Tables, CompletedOnce
  <2>4. \A u \in Tickets : conv'[u] = conv[u]
    BY <2>1, <2>2, ScopesSplit DEF RecordsTypeOK
  <2>5. ProjectionAgrees'
    BY <1>0, <1>5, <2>1, <2>2, <2>4, ScopesSplit DEF Tables, ProjectionAgrees, Untangled, RecordsTypeOK
  <2>6. (\A u \in Tickets : Untangled(u))' => /\ \A u \in Tickets : Untangled(u)
                                               /\ conv[s] = NoConv
    BY <1>0, <1>5, <2>1, <2>4 DEF Untangled, Tables, ProjectionAgrees
  <2>7. ASSUME (\A u \in Tickets : Untangled(u))', NEW a \in Agents
        PROVE  load'[a] + One(k \in Charged(a)) + One(s \in HeldBy(a)) <=
                  load[a] + One(k \in Charged(a)') + One(s \in HeldBy(a)')
    <3>1. /\ s \notin HeldBy(a) /\ (s \in HeldBy(a)' <=> a = o)
          /\ k \notin Charged(a)' /\ (k \in Charged(a) => a = o)
      BY <1>0, <1>2, <2>2, <2>6, <2>7, ConvAssumption DEF HeldBy, Charged, RecordsTypeOK, Live
    <3>2. load[a] \in Nat
      BY DEF RecordsTypeOK
    <3>3. CASE counters = load
      BY <3>1, <3>2, <3>3 DEF Finalize, One
    <3>4. CASE att[k].state = "retryable" /\ counters = Incremented(load, o)
      <4>1. k \notin Charged(a)
        BY <3>4 DEF Tables, RetryableReleased, Charged
      <4>2. load'[a] = load[a] + One(a = o)
        BY <3>4, CountersMove DEF Finalize, RecordsTypeOK
      <4> QED BY <3>1, <3>2, <4>1, <4>2 DEF One
    <3> QED BY <3>3, <3>4 DEF Read
  <2>8. ChargesFinite' /\ NoCapacityLeak'
    <3>1. \A u \in Scopes : u # s => conv'[u] = conv[u]
      BY <2>2 DEF RecordsTypeOK
    <3> QED BY SMTT(30), <1>2, <2>6, <2>7, <3>1, CapacityStep DEF Tables
  <2> QED BY <1>3, <1>4, <2>3, <2>5, <2>8 DEF Tables
<1>6. CASE s \in Tickets
  <2>1. s \notin Cycles /\ t = s /\ cycle' = cycle
    BY <1>0, <1>6, ScopesSplit DEF Finalize, LeaveQueue
  <2>2. \A u \in Scopes : conv'[u] = IF u = s THEN o ELSE IF u \in Held(s) THEN NoConv ELSE conv[u]
    BY <1>1, <1>6, <2>1 DEF Finalize
  <2>3. CompletedOnce'
    BY <1>2, <2>1 DEF Tables, CompletedOnce, ChargeKept
  <2>4. ~Untangled(s)'
    BY <1>0, <2>2 DEF Untangled
  <2>5. ProjectionAgrees'
    <3> SUFFICES ASSUME NEW c \in Cycles, Untangled(TicketOf[c])'
                 PROVE  /\ cycle[c] = "assigned" => conv'[c] # NoConv
                        /\ cycle[c] \in {"none", "queued"} => conv'[c] = NoConv
      BY <2>1 DEF ProjectionAgrees
    <3>1. TicketOf[c] # s /\ TicketOf[c] \in Scopes /\ c \in Scopes /\ c # s
      BY <1>6, <2>4, ScopesSplit
    <3>2. c \notin Held(s) /\ TicketOf[c] \notin Held(s)
      BY <3>1, ScopesSplit DEF Held
    <3>3. conv'[c] = conv[c] /\ conv'[TicketOf[c]] = conv[TicketOf[c]]
      BY <2>2, <3>1, <3>2
    <3> QED BY <3>3 DEF Tables, ProjectionAgrees, Untangled
  <2>6. ChargesFinite'
    <3> SUFFICES ASSUME NEW a \in Agents PROVE IsFiniteSet(Charged(a)') /\ IsFiniteSet(HeldBy(a)')
      BY DEF ChargesFinite
    <3>1. IsFiniteSet(Charged(a)')
      BY <1>2, ChargesCounted DEF Tables
    <3>2. HeldBy(a)' \subseteq HeldBy(a) \cup {s}
      BY <2>2, ConvAssumption DEF HeldBy
    <3>3. IsFiniteSet(HeldBy(a) \cup {s})
      BY FS_AddElement DEF Tables, ChargesFinite
    <3> QED BY <3>1, <3>2, <3>3, FS_Subset
  <2>7. NoCapacityLeak'
    BY <1>6, <2>4 DEF NoCapacityLeak
  <2> QED BY <1>3, <1>4, <2>3, <2>5, <2>6, <2>7 DEF Tables
<1> QED BY <1>0, <1>5, <1>6, ScopesSplit

(* A transaction that gives scope s another owner, or none, and changes at  *)
(* most attempt k.                                                          *)
LEMMA HolderTables ==
    ASSUME RecordsTypeOK, RecordsTypeOK', Tables, RowsOpened',
           NEW k, \A l \in Keys : l # k => ChargeKept(l),
           k \in Keys /\ att'[k].state = "completed" => att[k].state = "completed",
           k \in Keys /\ att'[k].state = "retryable" => att'[k].released,
           NEW s \in Scopes, NEW o \in Owners \cup {NoConv},
           conv' = [conv EXCEPT ![s] = o],
           s \in Tickets => o # NoConv,
           \A c \in Cycles : c # s => cycle'[c] = cycle[c],
           s \in Cycles /\ cycle[s] \in {"assigned", "closed"} => cycle'[s] \in {"assigned", "closed"},
           s \in Cycles /\ Untangled(TicketOf[s]) =>
               /\ cycle'[s] = "assigned" => o # NoConv
               /\ cycle'[s] \in {"none", "queued"} => o = NoConv,
           \A a \in Agents : load'[a] <= One(o = a) \/
               load'[a] + One(k \in Charged(a)) + One(conv[s] = a) <=
                  load[a] + One(k \in Charged(a)') + One(o = a)
    PROVE  Tables'
<1>1. /\ conv'[s] = o
      /\ \A u \in Scopes : u # s => conv'[u] = conv[u]
  BY DEF RecordsTypeOK
<1>2. RetryableReleased'
  BY DEF Tables, RetryableReleased, ChargeKept
<1>3. CompletedOnce'
  BY DEF Tables, CompletedOnce, ChargeKept
<1>4. (\A t \in Tickets : Untangled(t)' => Untangled(t) /\ t # s)
  BY <1>1, ScopesSplit DEF Untangled
<1>5. ProjectionAgrees'
  BY <1>1, <1>4, ScopesSplit DEF Tables, ProjectionAgrees
<1>6. ASSUME NEW a \in Agents
      PROVE  \/ load'[a] <= One(s \in HeldBy(a)')
             \/ load'[a] + One(k \in Charged(a)) + One(s \in HeldBy(a)) <=
                   load[a] + One(k \in Charged(a)') + One(s \in HeldBy(a)')
  <2>1. (s \in HeldBy(a) <=> conv[s] = a) /\ (s \in HeldBy(a)' <=> o = a)
    BY <1>1 DEF HeldBy
  <2>2. \/ load'[a] <= One(o = a)
        \/ load'[a] + One(k \in Charged(a)) + One(conv[s] = a) <=
              load[a] + One(k \in Charged(a)') + One(o = a)
    OBVIOUS
  <2> QED BY <2>1, <2>2 DEF One
<1>7. (\A t \in Tickets : Untangled(t))' =>
         /\ \A t \in Tickets : Untangled(t)
         /\ \A a \in Agents :
              \/ load'[a] <= One(s \in HeldBy(a)')
              \/ load'[a] + One(k \in Charged(a)) + One(s \in HeldBy(a)) <=
                    load[a] + One(k \in Charged(a)') + One(s \in HeldBy(a)')
  BY <1>4, <1>6
<1>8. ChargesFinite' /\ NoCapacityLeak'
  BY <1>1, <1>7, CapacityStep DEF Tables
<1> QED BY <1>2, <1>3, <1>5, <1>8 DEF Tables

(* The same without an attempt that changes.                                *)
LEMMA SameCharges ==
    ASSUME \A l \in Keys : ChargeKept(l)
    PROVE  /\ \A l \in Keys : l # NoKey => ChargeKept(l)
           /\ NoKey \in Keys /\ att'[NoKey].state = "completed" => att[NoKey].state = "completed"
           /\ NoKey \in Keys => att'[NoKey].state = att[NoKey].state
                                /\ att'[NoKey].released = att[NoKey].released
           /\ \A a \in Agents : One(NoKey \in Charged(a)) = One(NoKey \in Charged(a)')
                                /\ One(NoKey \in Charged(a)) \in {0, 1}
<1>1. \A a \in Agents : NoKey \in Charged(a) <=> NoKey \in Charged(a)'
  BY DEF Charged, ChargeKept
<1> QED BY <1>1 DEF ChargeKept, One

LEMMA CloseTables ==
    ASSUME RecordsTypeOK, RecordsTypeOK', Tables, entry' = entry,
           NEW t \in Tickets, NEW d \in Cycles,
           load' = Decremented(load, conv[d]),
           conv' = [conv EXCEPT ![d] = NoConv],
           cycle' = [cycle EXCEPT ![d] = "closed"],
           \/ row' = [row EXCEPT ![t] = NoRow(t)] /\ att' = Unlinked(att, t)
           \/ UNCHANGED <<row, att>>
    PROVE  Tables'
<1>1. \A l \in Keys : ChargeKept(l)
  BY UnlinkingKeepsCharges DEF ChargeKept, RecordsTypeOK
<1>2. RowsOpened'
  <2>1. \A c \in Cycles : cycle[c] # "none" => cycle'[c] # "none"
    BY DEF RecordsTypeOK
  <2> QED BY <2>1, RowsAfterDelete DEF Tables
<1>3. cycle'[d] = "closed" /\ \A c \in Cycles : c # d => cycle'[c] = cycle[c]
  BY DEF RecordsTypeOK
<1>4. ASSUME NEW a \in Agents
      PROVE  load'[a] <= One(NoConv = a) \/ load'[a] + One(NoKey \in Charged(a)) + One(conv[d] = a) <=
                                load[a] + One(NoKey \in Charged(a)') + One(NoConv = a)
  <2>1. NoConv # a /\ load[a] \in Nat /\ load'[a] \in Nat
    BY ConvAssumption DEF RecordsTypeOK
  <2>2. load'[a] = 0 \/ load'[a] + One(a = conv[d]) = load[a]
    BY CountersMove DEF RecordsTypeOK
  <2>3. One(NoKey \in Charged(a)) = One(NoKey \in Charged(a)') /\ One(NoKey \in Charged(a)) \in {0, 1}
    BY <1>1, SameCharges
  <2> QED BY <2>1, <2>2, <2>3 DEF One
<1>5. NoKey \in Keys /\ att'[NoKey].state = "retryable" => att'[NoKey].released
  BY <1>1 DEF ChargeKept, Tables, RetryableReleased
<1>6. /\ \A l \in Keys : l # NoKey => ChargeKept(l)
      /\ NoKey \in Keys /\ att'[NoKey].state = "completed" => att[NoKey].state = "completed"
  BY <1>1, SameCharges
<1>7. /\ d \in Scopes /\ NoConv \in Owners \cup {NoConv}
      /\ d \in Tickets => NoConv # NoConv
      /\ d \in Cycles /\ cycle[d] \in {"assigned", "closed"} => cycle'[d] \in {"assigned", "closed"}
      /\ d \in Cycles /\ Untangled(TicketOf[d]) =>
               /\ cycle'[d] = "assigned" => NoConv # NoConv
               /\ cycle'[d] \in {"none", "queued"} => NoConv = NoConv
  BY <1>3, ScopesSplit
<1> HIDE DEF NoKey
<1> QED BY <1>2, <1>3, <1>4, <1>5, <1>6, <1>7, HolderTables

LEMMA TransferTables ==
    ASSUME RecordsTypeOK, RecordsTypeOK', Tables, entry' = entry,
           NEW e \in OwnerChange, Transfer(e)
    PROVE  Tables'
<1>1. PICK s \in Scopes : /\ conv[s] # NoConv /\ e.new \notin {Nobody, conv[s]}
                          /\ load' = Incremented(Decremented(load, conv[s]), e.new)
                          /\ conv' = [conv EXCEPT ![s] = e.new]
                          /\ UNCHANGED <<cycle, row, att>>
  BY DEF Transfer, Held
<1>2. e.new \in Owners /\ e.new # NoConv
  BY <1>1, ConvAssumption DEF OwnerChange, Owners
<1>3. \A l \in Keys : ChargeKept(l)
  BY <1>1 DEF ChargeKept
<1>4. RowsOpened'
  BY <1>1 DEF Tables, RowsOpened
<1>5. ASSUME NEW a \in Agents
      PROVE  load'[a] <= One(e.new = a) \/ load'[a] + One(NoKey \in Charged(a)) + One(conv[s] = a) <=
                                load[a] + One(NoKey \in Charged(a)') + One(e.new = a)
  <2>1. Decremented(load, conv[s]) \in [Agents -> Nat] /\ load[a] \in Nat
    BY CountersStayNat DEF RecordsTypeOK
  <2>2. load'[a] = Decremented(load, conv[s])[a] + One(a = e.new)
    BY <1>1, <2>1, CountersMove
  <2>3. \/ a = conv[s] /\ Decremented(load, conv[s])[a] = 0
        \/ Decremented(load, conv[s])[a] + One(a = conv[s]) = load[a]
    BY CountersMove DEF RecordsTypeOK
  <2>4. Decremented(load, conv[s])[a] \in Nat
    BY <2>1
  <2>5. One(NoKey \in Charged(a)) = One(NoKey \in Charged(a)') /\ One(NoKey \in Charged(a)) \in {0, 1}
    BY <1>3, SameCharges
  <2> QED BY <1>1, <2>1, <2>2, <2>3, <2>4, <2>5 DEF One
<1>6. NoKey \in Keys /\ att'[NoKey].state = "retryable" => att'[NoKey].released
  BY <1>3 DEF ChargeKept, Tables, RetryableReleased
<1>7. s \in Cycles /\ Untangled(TicketOf[s]) => cycle[s] \notin {"none", "queued"}
  BY <1>1 DEF Tables, ProjectionAgrees
<1>8. /\ \A l \in Keys : l # NoKey => ChargeKept(l)
      /\ NoKey \in Keys /\ att'[NoKey].state = "completed" => att[NoKey].state = "completed"
  BY <1>3, SameCharges
<1>9. /\ e.new \in Owners \cup {NoConv}
      /\ s \in Tickets => e.new # NoConv
      /\ \A c \in Cycles : c # s => cycle'[c] = cycle[c]
      /\ s \in Cycles /\ cycle[s] \in {"assigned", "closed"} => cycle'[s] \in {"assigned", "closed"}
      /\ s \in Cycles /\ Untangled(TicketOf[s]) =>
               /\ cycle'[s] = "assigned" => e.new # NoConv
               /\ cycle'[s] \in {"none", "queued"} => e.new = NoConv
      /\ conv' = [conv EXCEPT ![s] = e.new]
  BY <1>1, <1>2, <1>7
<1> HIDE DEF NoKey
<1> QED BY ZenonT(60), <1>4, <1>5, <1>6, <1>8, <1>9, HolderTables

(* The queue entry opens a cycle, finds or repoints a row.                  *)
LEMMA EntryTables ==
    ASSUME Tables, RowsOpened', UNCHANGED <<att, conv, load>>,
           \A c \in Cycles : \/ cycle'[c] = cycle[c]
                             \/ cycle[c] = "none" /\ cycle'[c] = "queued"
    PROVE  Tables'
<1>1. RetryableReleased' /\ CompletedOnce'
  BY DEF Tables, RetryableReleased, CompletedOnce
<1>2. ProjectionAgrees'
  BY DEF Tables, ProjectionAgrees, Untangled
<1>3. \A a \in Agents : Charged(a)' = Charged(a) /\ HeldBy(a)' = HeldBy(a)
  BY DEF Charged, HeldBy
<1>4. ChargesFinite' /\ NoCapacityLeak'
  BY <1>3 DEF Tables, ChargesFinite, NoCapacityLeak, Untangled
<1> QED BY <1>1, <1>2, <1>4 DEF Tables

(* The owner of a queued ticket takes it over; attempt k, if it is one, was *)
(* compensated before.                                                      *)
LEMMA AdoptTables ==
    ASSUME RecordsTypeOK, RecordsTypeOK', Tables, entry' = entry,
           NEW t \in Tickets, Held(t) = {}, NEW o \in Owners,
           NEW k, NEW attempts \in [Keys -> Attempt],
           \A l \in Keys : l # k => attempts[l] = att[l],
           k \in Keys => attempts[k].state \in {att[k].state, "compensated"}
                         /\ (attempts[k].state = "retryable" => attempts[k].released),
           NEW counters \in [Agents -> Nat],
           \A a \in Agents : \/ counters[a] = 0
                             \/ counters[a] + One(k \in Charged(a)) <= load[a] + One(k \in Charged(a)'),
           Adopt(t, o, attempts, counters)
    PROVE  Tables'
<1> DEFINE s == row[t].scope
<1>0. /\ s \in Scopes /\ ScopeTicket(s) = t /\ o # NoConv
      /\ s \in Cycles => cycle[s] # "none" /\ t = TicketOf[s]
  BY ConvAssumption, ScopesSplit DEF RecordsTypeOK, Row, Tables, RowsOpened, Owners
<1>1. conv[s] = NoConv /\ conv' = [conv EXCEPT ![s] = o]
  BY <1>0 DEF Held, Adopt
<1>2. \A c \in Cycles : cycle'[c] = cycle[c] \/ (c = s /\ cycle[c] = "queued" /\ cycle'[c] = "assigned")
  BY <1>0 DEF Adopt, OnQueue, LeaveQueue, RecordsTypeOK
<1>3. /\ \A l \in Keys : l # k => ChargeKept(l)
      /\ k \in Keys /\ att'[k].state = "completed" => att[k].state = "completed"
      /\ k \in Keys /\ att'[k].state = "retryable" => att'[k].released
  BY UnlinkingKeepsCharges DEF ChargeKept, Adopt
<1>4. RowsOpened'
  <2>1. \A c \in Cycles : cycle[c] # "none" => cycle'[c] # "none"
    BY <1>2
  <2> QED BY <2>1, RowsAfterDelete DEF Tables, Adopt
<1>5. ASSUME NEW a \in Agents
      PROVE  load'[a] <= One(o = a) \/ load'[a] + One(k \in Charged(a)) + One(conv[s] = a) <=
                                          load[a] + One(k \in Charged(a)') + One(o = a)
  <2>1. load'[a] = counters[a] + One(a = o) /\ counters[a] \in Nat /\ load[a] \in Nat
    BY CountersMove DEF Adopt, RecordsTypeOK
  <2>2. One(conv[s] = a) = 0
    BY <1>1, ConvAssumption DEF One
  <2>3. \/ counters[a] = 0
        \/ counters[a] + One(k \in Charged(a)) <= load[a] + One(k \in Charged(a)')
    OBVIOUS
  <2> QED BY <2>1, <2>2, <2>3 DEF One
<1>6. /\ s \in Tickets => o # NoConv
      /\ \A c \in Cycles : c # s => cycle'[c] = cycle[c]
      /\ s \in Cycles /\ cycle[s] \in {"assigned", "closed"} => cycle'[s] \in {"assigned", "closed"}
      /\ o \in Owners \cup {NoConv}
  BY <1>0, <1>2
<1>7. s \in Cycles /\ Untangled(TicketOf[s]) =>
               /\ cycle'[s] = "assigned" => o # NoConv
               /\ cycle'[s] \in {"none", "queued"} => o = NoConv
  <2>1. s \in Cycles => cycle'[s] \notin {"none", "queued"}
    BY <1>0 DEF Adopt, OnQueue, LeaveQueue, RecordsTypeOK
  <2> QED BY <1>0, <2>1
<1> HIDE DEF s
<1> QED BY <1>0, <1>1, <1>3, <1>4, <1>5, <1>6, <1>7, HolderTables

LEMMA ConvergeTables ==
    ASSUME RecordsTypeOK, RecordsTypeOK', AgentsKnown, Tables, entry' = entry,
           NEW e \in OwnerChange, ConvergeQueued(e)
    PROVE  Tables'
<1> DEFINE t == e.ticket
<1>0. /\ t \in Tickets /\ e.new \in Owners /\ Held(t) = {}
      /\ att \in [Keys -> Attempt] /\ load \in [Agents -> Nat]
  BY DEF OwnerChange, ConvergeQueued, RecordsTypeOK
<1>1. CASE Adopt(t, e.new, att, load)
  <2>1. NoKey \in Keys /\ att[NoKey].state = "retryable" => att[NoKey].released
    BY DEF Tables, RetryableReleased
  <2>2. \A l \in Keys : ChargeKept(l)
    BY <1>0, <1>1, UnlinkingKeepsCharges DEF ChargeKept, Adopt
  <2>3. \A a \in Agents : load[a] + One(NoKey \in Charged(a)) <= load[a] + One(NoKey \in Charged(a)')
    BY <1>0, <2>2, SameCharges
  <2> HIDE DEF NoKey
  <2> QED BY <1>0, <1>1, <2>1, <2>3, AdoptTables
<1>2. ASSUME NEW k \in Keys, att[k].state \in Live, Finalize(k, att[k], load)
      PROVE  Tables'
  <2>1. att[k].agent \in Agents
    BY <1>2 DEF AgentsKnown, Live
  <2> QED BY <1>2, <2>1, FinalizeTables DEF Read
<1>3. ASSUME NEW k \in Keys,
             Adopt(t, e.new, [att EXCEPT ![k].state = "compensated", ![k].released = TRUE],
                      IF att[k].released THEN load ELSE Decremented(load, att[k].agent))
      PROVE  Tables'
  <2> DEFINE attempts == [att EXCEPT ![k].state = "compensated", ![k].released = TRUE]
             counters == IF att[k].released THEN load ELSE Decremented(load, att[k].agent)
  <2>1. /\ attempts \in [Keys -> Attempt]
        /\ \A l \in Keys : l # k => attempts[l] = att[l]
        /\ attempts[k].state = "compensated"
    BY <1>0 DEF Attempt, Terminal
  <2>2. counters \in [Agents -> Nat]
    BY <1>0, CountersStayNat
  <2>3. att'[k].state = "compensated"
    BY ZenonT(60), <1>3, <2>1, UnlinkingKeepsCharges DEF Adopt
  <2>4. ASSUME NEW a \in Agents
        PROVE  \/ counters[a] = 0
               \/ counters[a] + One(k \in Charged(a)) <= load[a] + One(k \in Charged(a)')
    <3>1. k \notin Charged(a)' /\ (k \in Charged(a) => a = att[k].agent /\ ~att[k].released)
      BY <2>3 DEF Charged, Live
    <3>2. /\ load[a] \in Nat /\ counters[a] \in Nat
          /\ \/ a = att[k].agent /\ Decremented(load, att[k].agent)[a] = 0
             \/ Decremented(load, att[k].agent)[a] + One(a = att[k].agent) = load[a]
      BY <1>0, <2>2, CountersMove
    <3> QED BY <3>1, <3>2 DEF One
  <2>5. Adopt(t, e.new, attempts, counters)
    BY <1>3
  <2> HIDE DEF attempts, counters
  <2> QED BY <1>0, <2>1, <2>2, <2>4, <2>5, AdoptTables
<1> QED BY <1>1, <1>2, <1>3 DEF ConvergeQueued

-----------------------------------------------------------------------------
(* Every step of the system keeps the tables in agreement.                  *)
LEMMA EnqueueTables ==
    ASSUME IInv, Tables, EnqueueStep
    PROVE  Tables'
<1>0. RecordsTypeOK /\ entry \in [Cycles -> {"none", "read", "opened", "found"}]
  BY DEF IInv, TypeOK, HandlersTypeOK
<1> SUFFICES ASSUME NEW c \in Cycles,
                    \/ EnqueueRead(c) \/ OpenCycle(c) \/ FindRow(c) \/ PointRow(c) \/ EnqueueDies(c)
             PROVE  Tables'
  BY DEF EnqueueStep
<1> DEFINE t == TicketOf[c]
<1>1. t \in Tickets /\ ScopeTicket(c) = t /\ c \in Scopes
  BY ScopesSplit
<1> USE DEF EntryStep
<1>2. CASE EnqueueRead(c) \/ EnqueueDies(c)
  <2>1. UNCHANGED records /\ \A d \in Cycles : entry'[d] \in {"opened", "found"} => entry'[d] = entry[d]
    BY <1>0, <1>2 DEF EnqueueRead, EnqueueDies
  <2>2. RowsOpened'
    BY <2>1 DEF Tables, RowsOpened, records
  <2> QED BY <2>1, <2>2, EntryTables DEF records
<1>3. CASE OpenCycle(c)
  <2>1. /\ \A d \in Cycles : d # c => entry'[d] = entry[d]
        /\ cycle'[c] # "none" \/ entry'[c] = "none"
        /\ \A d \in Cycles : cycle'[d] = cycle[d] \/ (cycle[d] = "none" /\ cycle'[d] = "queued")
        /\ UNCHANGED <<row, att, conv, load>>
    <3>1. CASE cycle' = cycle /\ cycle[c] # "none" /\ entry' = [entry EXCEPT ![c] = "opened"]
      BY <1>0, <1>3, <3>1 DEF OpenCycle
    <3>2. CASE cycle' = cycle /\ entry' = [entry EXCEPT ![c] = "none"]
      BY <1>0, <1>3, <3>2 DEF OpenCycle
    <3>3. CASE /\ cycle[c] = "none" /\ entry' = [entry EXCEPT ![c] = "opened"]
               /\ cycle' = [cycle EXCEPT ![c] = "queued"]
      BY <1>0, <1>3, <3>3 DEF OpenCycle, RecordsTypeOK
    <3> QED BY <1>3, <3>1, <3>2, <3>3 DEF OpenCycle
  <2>2. RowsOpened'
    BY <2>1 DEF Tables, RowsOpened
  <2> QED BY <2>1, <2>2, EntryTables
<1>4. CASE FindRow(c)
  <2>1. /\ \A d \in Cycles : d # c => entry'[d] = entry[d]
        /\ entry[c] = "opened"
        /\ \A u \in Tickets : row'[u].scope = row[u].scope
        /\ UNCHANGED <<cycle, att, conv, load>>
    <3>1. row' = row \/ row' = [row EXCEPT ![t].status = "ready", ![t].notFound = FALSE]
      BY <1>4 DEF FindRow
    <3>2. row \in [Tickets -> Row] /\ \A r \in Row : [r EXCEPT !.status = "ready", !.notFound = FALSE].scope = r.scope
      BY <1>0 DEF RecordsTypeOK, Row
    <3>3. row' = row \/ row' = [row EXCEPT ![t] = [@ EXCEPT !.status = "ready", !.notFound = FALSE]]
      BY <1>1, <3>1, <3>2
    <3>4. \A u \in Tickets : row'[u].scope = row[u].scope
      BY <3>2, <3>3
    <3> QED BY <1>0, <1>4, <3>4 DEF FindRow
  <2>2. RowsOpened'
    BY <2>1 DEF Tables, RowsOpened
  <2> QED BY <2>1, <2>2, EntryTables
<1>5. CASE PointRow(c)
  <2>1. /\ \A d \in Cycles : entry'[d] \in {"opened", "found"} => entry'[d] = entry[d]
        /\ entry[c] = "found"
        /\ \A u \in Tickets : row'[u].scope = row[u].scope \/ (u = t /\ row'[u].scope = c)
        /\ UNCHANGED <<cycle, att, conv, load>>
    <3>1. row' = row \/ row' = [row EXCEPT ![t].scope = c]
      BY <1>5 DEF PointRow
    <3>2. \A u \in Tickets : row'[u].scope = row[u].scope \/ (u = t /\ row'[u].scope = c)
      BY <1>0, <3>1 DEF RecordsTypeOK, Row
    <3> QED BY <1>0, <1>5, <3>2 DEF PointRow
  <2>2. RowsOpened'
    BY <1>1, <2>1 DEF Tables, RowsOpened
  <2> QED BY <2>1, <2>2, EntryTables
<1> QED BY <1>2, <1>3, <1>4, <1>5

LEMMA SeenIsRead ==
    ASSUME IInv, NEW w \in Workers, ~At(w, "idle")
    PROVE  Read(Key(w), Seen(w), Counters(w)) /\ Key(w) \in Keys /\ att[Key(w)].agent \in Agents
<1>1. /\ Key(w) \in Keys /\ Seen(w).agent = att[Key(w)].agent /\ Seen(w).agent \in Agents
      /\ worker[w].tx = "retry" => att[Key(w)].state = "retryable"
  BY SeenAttempt
<1> QED BY <1>1 DEF Read, Seen, Counters, Key

LEMMA WorkerTables ==
    ASSUME IInv, IInv', Tables, NEW w \in Workers,
           ReserveStep(w) \/ ExecuteStep(w) \/ RepairStep(w) \/ Crash(w)
    PROVE  Tables'
<1>0. /\ RecordsTypeOK /\ RecordsTypeOK'
      /\ entry' = entry
  BY DEF IInv, TypeOK, handlers, ReserveStep, ReserveStale, ReserveExisting, ReserveNew,
         ExecuteStep, Start, PreRead, PatchApplied, PatchRejected, Readback, Reread, CompensateStep,
         MarkExternalApplied, FinalizeStep,
         RepairStep, RepairScan, RepairLock, RetryCheck, RetryTake, RepairConfirm, RepairRaises,
         RepairHandler, Crash
<1>1. ASSUME UNCHANGED <<cycle, att, conv, load>>, \A t \in Tickets : row'[t].scope = row[t].scope
      PROVE  Tables'
  <2>1. RowsOpened'
    BY <1>0, <1>1 DEF Tables, RowsOpened
  <2> QED BY <1>1, <2>1, EntryTables
<1>2. CASE UNCHANGED records
  BY <1>1, <1>2 DEF records
<1>3. ASSUME NEW t \in Tickets, ReserveStale(w, t) PROVE Tables'
  <2>1. \A u \in Tickets : row'[u].scope = row[u].scope
    BY <1>0, <1>3 DEF ReserveStale, RecordsTypeOK, Row
  <2> QED BY <1>1, <1>3, <2>1 DEF ReserveStale
<1>4. ASSUME NEW t \in Tickets, NEW ty \in Types, NEW a \in Agents, ReserveNew(w, t, ty, a)
      PROVE  Tables'
  <2>1. <<row[t].scope, ty>> \in Keys
    BY <1>0 DEF RecordsTypeOK, Row, Keys
  <2> QED BY <1>0, <1>4, <2>1, CreateTables DEF ReserveNew
<1>5. CASE CompensateStep(w)
  <2>1. ~At(w, "idle") /\ Compensate(Key(w), Seen(w), Counters(w), worker[w].arg)
    BY <1>5 DEF CompensateStep, At
  <2> QED BY <1>0, <2>1, SeenIsRead, CompensateTables
<1>6. CASE MarkExternalApplied(w)
  <2>1. Key(w) \in Keys
    BY <1>6, SeenIsRead DEF MarkExternalApplied, At
  <2>2. UNCHANGED att \/ att' = [att EXCEPT ![Key(w)].state = "external_applied"]
    BY <1>6 DEF MarkExternalApplied
  <2>3. UNCHANGED <<cycle, row, conv, load>>
    BY <1>6 DEF MarkExternalApplied
  <2> QED BY <1>0, <1>1, <2>1, <2>2, <2>3, MarkTables
<1>7. CASE RepairHandler(w)
  <2>1. Key(w) \in Keys
    BY <1>7, SeenIsRead DEF RepairHandler, At
  <2>2. UNCHANGED att \/ att' = [att EXCEPT ![Key(w)].state = "repair_required"]
    BY <1>7 DEF RepairHandler
  <2>3. UNCHANGED <<cycle, row, conv, load>>
    BY <1>7 DEF RepairHandler
  <2> QED BY <1>0, <1>1, <2>1, <2>2, <2>3, MarkTables
<1>8. CASE FinalizeStep(w)
  <2>1. CASE att[Key(w)].state = "external_applied" /\ Finalize(Key(w), att[Key(w)], load)
    <3>1. Key(w) \in Keys /\ att[Key(w)].agent \in Agents
      BY <1>8, SeenIsRead DEF FinalizeStep, At
    <3> QED BY <1>0, <2>1, <3>1, FinalizeTables DEF Read, Live
  <2> QED BY <1>2, <1>8, <2>1 DEF FinalizeStep
<1>9. CASE RepairConfirm(w)
  <2>1. CASE Seen(w).state \in Markable /\ Finalize(Key(w), Seen(w), Counters(w))
    <3>1. Read(Key(w), Seen(w), Counters(w)) /\ Key(w) \in Keys /\ att[Key(w)].agent \in Agents
      <4>1. ~At(w, "idle")
        BY <1>9 DEF RepairConfirm, At
      <4> QED BY <4>1, SeenIsRead
    <3>2. att[Key(w)].state \in Live
      BY <2>1, <3>1 DEF Read, Markable, Live
    <3> QED BY <1>0, <2>1, <3>1, <3>2, FinalizeTables
  <2> QED BY <1>2, <1>9, <2>1 DEF RepairConfirm
<1>10. \/ UNCHANGED records
       \/ \E t \in Tickets : ReserveStale(w, t)
       \/ \E t \in Tickets, ty \in Types, a \in Agents : ReserveNew(w, t, ty, a)
       \/ CompensateStep(w) \/ MarkExternalApplied(w) \/ FinalizeStep(w)
       \/ RepairConfirm(w) \/ RepairHandler(w)
  BY DEF ReserveStep, ReserveExisting,
         ExecuteStep, Start, PreRead, PatchApplied, PatchRejected, Readback, Reread,
         RepairStep, RepairScan, RepairLock, RetryCheck, RetryTake, RepairRaises, Crash
<1> QED BY <1>2, <1>3, <1>4, <1>5, <1>6, <1>7, <1>8, <1>9, <1>10

LEMMA WebhookTables ==
    ASSUME IInv, IInv', Tables, WebhookStep
    PROVE  Tables'
<1>0. RecordsTypeOK /\ RecordsTypeOK' /\ AgentsKnown /\ entry' = entry
  BY DEF IInv, TypeOK, WebhookStep, CloseRead, CloseApply, OwnerRead, OwnerApply, OwnerDrop
<1>1. CASE UNCHANGED records
  <2>1. RowsOpened'
    BY <1>0, <1>1 DEF Tables, RowsOpened, records
  <2> QED BY <1>1, <2>1, EntryTables DEF records
<1>2. ASSUME NEW c \in Cycles, CloseApply(c) PROVE Tables'
  <2>1. TicketOf[c] \in Tickets
    BY CyclesAssumption
  <2>2. CASE \E d \in Cycles :
          /\ load' = Decremented(load, conv[d])
          /\ conv' = [conv EXCEPT ![d] = NoConv]
          /\ cycle' = [cycle EXCEPT ![d] = "closed"]
          /\ \/ row' = [row EXCEPT ![TicketOf[c]] = NoRow(TicketOf[c])] /\ att' = Unlinked(att, TicketOf[c])
             \/ UNCHANGED <<row, att>>
    BY <1>0, <2>1, <2>2, CloseTables
  <2> QED BY <1>1, <1>2, <2>2 DEF CloseApply
<1>3. ASSUME NEW e \in ownerEvents \cup ownerTasks, OwnerApply(e) PROVE Tables'
  <2>1. e \in OwnerChange
    BY DEF IInv, TypeOK, ProviderTypeOK, HandlersTypeOK
  <2> QED BY <1>0, <1>3, <2>1, ConvergeTables, TransferTables DEF OwnerApply
<1>4. \/ UNCHANGED records
      \/ \E c \in Cycles : CloseApply(c)
      \/ \E e \in ownerEvents \cup ownerTasks : OwnerApply(e)
  BY DEF WebhookStep, CloseRead, OwnerRead, OwnerDrop
<1> QED BY <1>1, <1>2, <1>3, <1>4

LEMMA TablesStep ==
    ASSUME IInv, IInv', Tables, [Next]_vars
    PROVE  Tables'
<1>1. CASE UNCHANGED vars \/ HubStep
  <2>1. UNCHANGED records /\ entry' = entry
    BY <1>1 DEF vars, handlers, HubStep, HubEnterNovo, HubMoveOn, HubClose, HubEditOwner
  <2>2. RowsOpened'
    BY <2>1 DEF Tables, RowsOpened, records
  <2> QED BY <2>1, <2>2, EntryTables DEF records
<1>2. ASSUME NEW k \in Keys, Purge(k) PROVE Tables'
  BY <1>2, PurgeTables DEF IInv, TypeOK
<1> QED BY <1>1, <1>2, EnqueueTables, WorkerTables, WebhookTables DEF Next

-----------------------------------------------------------------------------
(* How a worker moves, and that it moves alone.                             *)
LEMMA DoneMoves ==
    ASSUME WorkersTypeOK, NEW w \in Workers, Done(w)
    PROVE  worker'[w] = Idle /\ \A v \in Others(w) : worker'[v] = worker[v]
BY DEF WorkersTypeOK, Done, Others

LEMMA BeginMoves ==
    ASSUME WorkersTypeOK, NEW w \in Workers, NEW k, NEW pc, Begin(w, k, pc)
    PROVE  /\ worker'[w].pc = pc /\ worker'[w].key = k /\ worker'[w].tx = "no"
           /\ \A v \in Others(w) : worker'[v] = worker[v]
BY DEF WorkersTypeOK, Begin, Others

LEMMA GotoMoves ==
    ASSUME WorkersTypeOK, NEW w \in Workers, NEW pc, NEW arg, Goto(w, pc, arg)
    PROVE  /\ worker'[w].pc = pc /\ worker'[w].key = worker[w].key /\ worker'[w].tx = worker[w].tx
           /\ \A v \in Others(w) : worker'[v] = worker[v]
BY DEF WorkersTypeOK, Goto, Others

(* What a worker's step can do to the work of the others: it keeps the      *)
(* agents of the attempts that exist, and raises a counter only when no     *)
(* other retry holds that agent, and not above the agent's maximum.         *)
Touches(w) ==
    /\ \A v \in Others(w) : worker'[v] = worker[v]
    /\ \A l \in Keys : att[l].state # "none" => att'[l].agent = att[l].agent
    /\ \A a \in Agents : \/ load'[a] <= load[a]
                         \/ load'[a] <= MaxChats /\ ~AgentLocked(a, Others(w))
    /\ worker'[w].tx = "retry" =>
          /\ UNCHANGED <<att, load>>
          /\ load[att[worker'[w].key].agent] < MaxChats

LEMMA MovesTouch ==
    ASSUME IInv, RetriesHaveRoom, NEW w \in Workers, UNCHANGED records,
           \/ Done(w)
           \/ \E k, pc : Begin(w, k, pc)
           \/ \E pc, arg : Goto(w, pc, arg)
           \/ /\ worker'[w].tx = "retry" => load[att[worker'[w].key].agent] < MaxChats
              /\ \A v \in Others(w) : worker'[v] = worker[v]
    PROVE  Touches(w)
<1>1. /\ UNCHANGED <<att, load>>
      /\ \A a \in Agents : load'[a] <= load[a]
  BY DEF IInv, TypeOK, RecordsTypeOK, records
<1>2. /\ \A v \in Others(w) : worker'[v] = worker[v]
      /\ worker'[w].tx = "retry" => load[att[worker'[w].key].agent] < MaxChats
  <2>0. WorkersTypeOK
    BY DEF IInv, TypeOK
  <2>1. CASE Done(w)
    BY <2>0, <2>1, DoneMoves DEF Idle
  <2>2. ASSUME NEW k, NEW pc, Begin(w, k, pc)
        PROVE  worker'[w].tx = "no" /\ \A v \in Others(w) : worker'[v] = worker[v]
    BY <2>0, <2>2, BeginMoves
  <2>3. ASSUME NEW pc, NEW arg, Goto(w, pc, arg)
        PROVE  /\ worker'[w].tx = "retry" => load[att[worker'[w].key].agent] < MaxChats
               /\ \A v \in Others(w) : worker'[v] = worker[v]
    BY <2>0, <2>3, GotoMoves DEF RetriesHaveRoom
  <2> QED BY <2>1, <2>2, <2>3
<1> QED BY <1>1, <1>2 DEF Touches

LEMMA ReserveTouches ==
    ASSUME IInv, RetriesHaveRoom, NEW w \in Workers, ReserveStep(w)
    PROVE  Touches(w)
<1>0. RecordsTypeOK /\ WorkersTypeOK /\ IdleFree /\ MaxChats \in Nat
  BY MaxChatsAssumption DEF IInv, TypeOK
<1>1. ASSUME NEW t \in Tickets, ReserveStale(w, t) PROVE Touches(w)
  <2>1. UNCHANGED <<att, load, worker>>
    BY <1>1 DEF ReserveStale
  <2>2. worker[w].tx # "retry"
    BY <1>0, <1>1 DEF ReserveStale, At, IdleFree
  <2> QED BY <1>0, <2>1, <2>2 DEF Touches, RecordsTypeOK
<1>2. ASSUME NEW t \in Tickets, NEW k \in Keys, ReserveExisting(w, t, k) PROVE Touches(w)
  BY <1>2, MovesTouch DEF ReserveExisting
<1>3. ASSUME NEW t \in Tickets, NEW ty \in Types, NEW o \in Agents, ReserveNew(w, t, ty, o)
      PROVE  Touches(w)
  <2> DEFINE k == <<row[t].scope, ty>>
  <2>1. Create(k, o) /\ Begin(w, k, "start") /\ ~AgentLocked(o, Others(w))
    BY <1>3 DEF ReserveNew
  <2> HIDE DEF k
  <2>2. worker'[w].tx = "no" /\ \A v \in Others(w) : worker'[v] = worker[v]
    BY <1>0, <2>1, BeginMoves
  <2>3. \A l \in Keys : att[l].state # "none" => att'[l].agent = att[l].agent
    BY <1>0, <2>1 DEF Create, RecordsTypeOK
  <2>4. ASSUME NEW a \in Agents
        PROVE  load'[a] <= load[a] \/ (load'[a] <= MaxChats /\ ~AgentLocked(a, Others(w)))
    <3>1. load'[a] = load[a] + One(a = o) /\ load[a] \in Nat /\ (a = o => load[a] < MaxChats)
      BY <1>0, <2>1, CountersMove DEF Create, RecordsTypeOK
    <3> QED BY <1>0, <2>1, <3>1 DEF One
  <2> QED BY <2>2, <2>3, <2>4 DEF Touches
<1> QED BY <1>1, <1>2, <1>3 DEF ReserveStep

(* A worker ends its transaction on the attempt that it read.               *)
LEMMA ConcludeTouches ==
    ASSUME IInv, IInv', RetriesHaveRoom, RetryableReleased, NEW w \in Workers, ~At(w, "idle"),
           \A v \in Others(w) : worker'[v] = worker[v],
           worker'[w].tx # "retry",
           \A l \in Keys : att'[l].agent = att[l].agent,
           \/ load' = load
           \/ \E mode : Compensate(Key(w), Seen(w), Counters(w), mode)
           \/ load' = Counters(w) /\ CanLock(w, Key(w))
    PROVE  Touches(w)
<1> DEFINE o == att[Key(w)].agent
<1>0. RecordsTypeOK /\ WorkersTypeOK /\ MaxChats \in Nat /\ load \in [Agents -> Nat]
  BY MaxChatsAssumption DEF IInv, TypeOK, RecordsTypeOK
<1>1. /\ Read(Key(w), Seen(w), Counters(w)) /\ Key(w) \in Keys /\ o \in Agents
      /\ Seen(w).agent = o
  BY SeenIsRead, SeenAttempt
<1>2. ASSUME NEW a \in Agents
      PROVE  load'[a] <= load[a] \/ (load'[a] <= MaxChats /\ ~AgentLocked(a, Others(w)))
  <2>1. CASE load' = load
    BY <1>0, <2>1
  <2>2. ASSUME NEW mode, Compensate(Key(w), Seen(w), Counters(w), mode) PROVE load'[a] <= load[a]
    <3>1. CASE worker[w].tx # "retry"
      <4>1. Counters(w) = load
        BY <3>1 DEF Counters
      <4>2. load' = load \/ load' = Decremented(load, o)
        BY <1>1, <2>2, <4>1 DEF Compensate
      <4> QED BY <1>0, <4>2 DEF Decremented
    <3>2. CASE worker[w].tx = "retry"
      <4>1. ~Seen(w).released /\ Seen(w).state = "reserved"
        BY <1>0, <1>1, <3>2 DEF Seen, Key, RecordsTypeOK, Attempt
      <4>2. load' = Decremented(Incremented(load, o), o)
        BY <1>1, <2>2, <3>2, <4>1 DEF Compensate, CompensationSkipped, Terminal, Counters
      <4> QED BY <1>0, <1>1, <4>2, CountersMove
    <3> QED BY <3>1, <3>2
  <2>3. CASE load' = Counters(w) /\ CanLock(w, Key(w))
    <3>1. CASE worker[w].tx # "retry"
      BY <1>0, <2>3, <3>1 DEF Counters
    <3>2. CASE worker[w].tx = "retry"
      <4>1. load[o] < MaxChats
        BY <3>2 DEF RetriesHaveRoom, Key
      <4>2. load'[a] = load[a] + One(a = o) /\ load[a] \in Nat
        BY <1>0, <1>1, <2>3, <3>2, CountersMove DEF Counters
      <4>3. ~AgentLocked(o, Others(w))
        BY <2>3 DEF CanLock
      <4> QED BY <1>0, <4>1, <4>2, <4>3 DEF One
    <3> QED BY <3>1, <3>2
  <2> QED BY <2>1, <2>2, <2>3
<1> QED BY <1>2 DEF Touches

LEMMA WorkerTouches ==
    ASSUME IInv, IInv', RetriesHaveRoom, RetryableReleased, NEW w \in Workers,
           ReserveStep(w) \/ ExecuteStep(w) \/ RepairStep(w) \/ Crash(w)
    PROVE  Touches(w)
<1> USE DEF At
<1>0. RecordsTypeOK /\ WorkersTypeOK /\ IdleFree
  BY DEF IInv, TypeOK
<1>1. ASSUME Done(w) \/ (worker[w].tx = "no" /\ Goto(w, "finalize", "none"))
      PROVE  worker'[w].tx # "retry" /\ \A v \in Others(w) : worker'[v] = worker[v]
  BY <1>0, <1>1, DoneMoves, GotoMoves DEF Idle
<1>2. CASE ReserveStep(w)
  BY <1>2, ReserveTouches
<1>3. CASE Start(w) \/ PreRead(w) \/ PatchRejected(w) \/ Readback(w) \/ Reread(w)
  BY <1>3, MovesTouch DEF Start, PreRead, PatchRejected, Readback, Reread
<1>4. CASE PatchApplied(w)
  BY <1>4, MovesTouch DEF PatchApplied
<1>5. CASE CompensateStep(w)
  <2>1. \A l \in Keys : att'[l].agent = att[l].agent
    <3>1. /\ Key(w) \in Keys /\ Seen(w) \in Attempt /\ Seen(w).agent = att[Key(w)].agent
          /\ Counters(w) \in [Agents -> Nat]
      BY <1>5, SeenAttempt DEF CompensateStep
    <3> QED BY <1>0, <1>5, <3>1, Compensated DEF CompensateStep
  <2> QED BY <1>1, <1>5, <2>1, ConcludeTouches DEF CompensateStep
<1>6. CASE MarkExternalApplied(w)
  <2>1. \A l \in Keys : att'[l].agent = att[l].agent
    BY <1>0, <1>6 DEF MarkExternalApplied, RecordsTypeOK, Attempt
  <2> QED BY <1>1, <1>6, <2>1, ConcludeTouches DEF MarkExternalApplied
<1>7. CASE FinalizeStep(w)
  <2>1. Key(w) \in Keys /\ att[Key(w)] \in Attempt /\ att[Key(w)].agent \in Agents
    BY <1>0, <1>7, SeenAttempt DEF FinalizeStep, RecordsTypeOK
  <2>2. CASE Finalize(Key(w), att[Key(w)], load)
    <3>1. \A l \in Keys : att'[l].agent = att[l].agent
      BY <1>0, <2>1, <2>2, Finalized DEF RecordsTypeOK
    <3> QED BY <1>1, <1>7, <2>2, <3>1, ConcludeTouches DEF FinalizeStep, Finalize
  <2> QED BY <1>7, <2>2, MovesTouch DEF FinalizeStep
<1>8. CASE RepairConfirm(w)
  <2>1. CASE Finalize(Key(w), Seen(w), Counters(w)) /\ Done(w)
    <3>1. /\ Key(w) \in Keys /\ Seen(w) \in Attempt /\ Seen(w).agent \in Agents
          /\ Seen(w).agent = att[Key(w)].agent /\ Counters(w) \in [Agents -> Nat]
      BY <1>8, SeenAttempt DEF RepairConfirm
    <3>2. \A l \in Keys : att'[l].agent = att[l].agent
      BY <1>0, <2>1, <3>1, Finalized
    <3> QED BY <1>1, <1>8, <2>1, <3>2, ConcludeTouches DEF RepairConfirm, Finalize
  <2>2. CASE UNCHANGED records /\ Done(w)
    BY <2>2, MovesTouch
  <2>3. CASE UNCHANGED records /\ worker' = [worker EXCEPT ![w].pc = "handler", ![w].tx = "no"]
    <3>1. worker'[w].tx = "no" /\ \A v \in Others(w) : worker'[v] = worker[v]
      BY <1>0, <2>3 DEF WorkersTypeOK, Others
    <3> QED BY <2>3, <3>1, MovesTouch
  <2> QED BY <1>8, <2>1, <2>2, <2>3 DEF RepairConfirm
<1>9. ASSUME NEW k \in Keys, RepairScan(w, k) PROVE Touches(w)
  BY <1>9, MovesTouch DEF RepairScan
<1>10. CASE RepairLock(w)
  <2>1. CASE ~AttemptLocked(Key(w), Others(w))
    <3>1. worker'[w].tx = "repair" /\ \A v \in Others(w) : worker'[v] = worker[v]
      BY <1>0, <1>10, <2>1 DEF RepairLock, WorkersTypeOK, Others
    <3> QED BY <1>10, <3>1, MovesTouch DEF RepairLock
  <2> QED BY <1>10, <2>1, MovesTouch DEF RepairLock
<1>11. CASE RetryCheck(w)
  BY <1>11, MovesTouch DEF RetryCheck
<1>12. CASE RetryTake(w)
  <2>1. CASE Done(w)
    BY <1>12, <2>1, MovesTouch DEF RetryTake
  <2>2. CASE /\ load[att[Key(w)].agent] < MaxChats
             /\ worker' = [worker EXCEPT ![w].tx = "retry", ![w].pc = "start"]
    <3>1. worker'[w].key = Key(w) /\ \A v \in Others(w) : worker'[v] = worker[v]
      BY <1>0, <2>2 DEF WorkersTypeOK, Others, Key
    <3> QED BY <1>12, <2>2, <3>1, MovesTouch DEF RetryTake
  <2> QED BY <1>12, <2>1, <2>2 DEF RetryTake
<1>13. CASE RepairRaises(w)
  <2>1. worker'[w].tx = "no" /\ \A v \in Others(w) : worker'[v] = worker[v]
    BY <1>0, <1>13 DEF RepairRaises, WorkersTypeOK, Others
  <2> QED BY <1>13, <2>1, MovesTouch DEF RepairRaises
<1>14. CASE RepairHandler(w)
  <2>1. \A l \in Keys : att'[l].agent = att[l].agent
    BY <1>0, <1>14 DEF RepairHandler, RecordsTypeOK, Attempt
  <2> QED BY <1>1, <1>14, <2>1, ConcludeTouches DEF RepairHandler
<1>15. CASE Crash(w)
  BY <1>15, MovesTouch DEF Crash
<1> QED BY <1>2, <1>3, <1>4, <1>5, <1>6, <1>7, <1>8, <1>9, <1>10, <1>11, <1>12, <1>13, <1>14, <1>15
        DEF ExecuteStep, RepairStep

-----------------------------------------------------------------------------
(* An agent that a retry reserves again keeps the room for it.              *)
LEMMA RoomKept ==
    ASSUME IInv, IInv', RetriesHaveRoom, NEW v \in Workers,
           worker'[v] = worker[v],
           worker[v].tx = "retry" =>
              /\ att'[worker[v].key].agent = att[worker[v].key].agent
              /\ load'[att[worker[v].key].agent] <= load[att[worker[v].key].agent]
    PROVE  worker'[v].tx = "retry" => load'[att'[worker'[v].key].agent] < MaxChats
<1> SUFFICES ASSUME worker[v].tx = "retry" PROVE load'[att[worker[v].key].agent] < MaxChats
  OBVIOUS
<1>1. /\ load \in [Agents -> Nat] /\ load' \in [Agents -> Nat] /\ MaxChats \in Nat
      /\ load[att[worker[v].key].agent] < MaxChats
  BY MaxChatsAssumption DEF IInv, TypeOK, RecordsTypeOK, RetriesHaveRoom
<1>2. att[worker[v].key].agent \in Agents
  BY DEF IInv, TypeOK, WorkersTypeOK, IdleFree, KeysExist, AgentsKnown
<1> QED BY <1>1, <1>2

LEMMA LockedByRetry ==
    ASSUME IInv, NEW others, NEW v \in others, v \in Workers, worker[v].tx = "retry"
    PROVE  /\ worker[v].key \in Keys /\ att[worker[v].key].state # "none"
           /\ att[worker[v].key].agent \in Agents
           /\ AgentLocked(att[worker[v].key].agent, others)
BY DEF IInv, TypeOK, WorkersTypeOK, IdleFree, KeysExist, AgentsKnown, AgentLocked

LEMMA WorkerRoom ==
    ASSUME IInv, IInv', RetriesHaveRoom, NEW w \in Workers, Touches(w)
    PROVE  RetriesHaveRoom'
<1> SUFFICES ASSUME NEW v \in Workers
             PROVE  worker'[v].tx = "retry" => load'[att'[worker'[v].key].agent] < MaxChats
  BY DEF RetriesHaveRoom
<1>1. CASE v = w
  BY <1>1 DEF Touches
<1>2. CASE v # w
  <2>1. v \in Others(w)
    BY <1>2 DEF Others
  <2>2. worker[v].tx = "retry" =>
          /\ att'[worker[v].key].agent = att[worker[v].key].agent
          /\ load'[att[worker[v].key].agent] <= load[att[worker[v].key].agent]
    BY <2>1, LockedByRetry DEF Touches
  <2> QED BY <2>1, <2>2, RoomKept DEF Touches
<1> QED BY <1>1, <1>2

LEMMA WebhookLoads ==
    ASSUME IInv, IInv', WebhookStep
    PROVE  /\ UNCHANGED <<worker, provider>>
           /\ \A l \in Keys : /\ att'[l].agent = att[l].agent
                              /\ att'[l].state # att[l].state =>
                                    \/ att'[l].state = "compensated"
                                    \/ att[l].state = "external_applied"
           /\ \A a \in Agents : load'[a] <= load[a] \/ ~AgentLocked(a, Workers)
<1>0. /\ RecordsTypeOK /\ load \in [Agents -> Nat] /\ load' \in [Agents -> Nat]
      /\ att \in [Keys -> Attempt]
  BY DEF IInv, TypeOK, RecordsTypeOK
<1>1. UNCHANGED <<worker, provider>>
  BY DEF WebhookStep, CloseRead, CloseApply, OwnerRead, OwnerApply, OwnerDrop
<1>2. CASE UNCHANGED records
  BY <1>0, <1>1, <1>2 DEF records
<1>3. ASSUME NEW c \in Cycles, NEW d \in Cycles,
             load' = Decremented(load, conv[d]),
             att' = Unlinked(att, TicketOf[c]) \/ UNCHANGED <<row, att>>
      PROVE  /\ \A l \in Keys : att'[l].agent = att[l].agent /\ att'[l].state = att[l].state
             /\ \A a \in Agents : load'[a] <= load[a]
  BY <1>0, <1>3, UnlinkingKeepsAttempts DEF Decremented
<1>4. ASSUME NEW e \in OwnerChange, Transfer(e)
      PROVE  /\ att' = att
             /\ \A a \in Agents : load'[a] <= load[a] \/ ~AgentLocked(a, Workers)
  <2>1. PICK s : /\ load' = Incremented(Decremented(load, conv[s]), e.new)
                 /\ ~AgentLocked(e.new, Workers)
                 /\ att' = att
    BY <1>4 DEF Transfer
  <2>2. ASSUME NEW a \in Agents PROVE load'[a] <= load[a] \/ ~AgentLocked(a, Workers)
    <3>1. Decremented(load, conv[s]) \in [Agents -> Nat]
      BY <1>0, CountersStayNat
    <3>2. load'[a] = Decremented(load, conv[s])[a] + One(a = e.new)
      BY <2>1, <3>1, CountersMove
    <3>3. Decremented(load, conv[s])[a] <= load[a]
      BY <1>0 DEF Decremented
    <3> QED BY <1>0, <2>1, <3>1, <3>2, <3>3 DEF One
  <2> QED BY <2>1, <2>2
<1>5. ASSUME NEW e \in OwnerChange, ConvergeQueued(e)
      PROVE  /\ \A l \in Keys : /\ att'[l].agent = att[l].agent
                                /\ att'[l].state # att[l].state =>
                                      \/ att'[l].state = "compensated"
                                      \/ att[l].state = "external_applied"
             /\ \A a \in Agents : load'[a] <= load[a] \/ ~AgentLocked(a, Workers)
  <2>0. ~AgentLocked(e.new, Workers)
    BY <1>5 DEF ConvergeQueued
  <2>1. ASSUME NEW attempts \in [Keys -> Attempt], NEW counters \in [Agents -> Nat],
               \A a \in Agents : counters[a] <= load[a],
               Adopt(e.ticket, e.new, attempts, counters)
        PROVE  /\ \A l \in Keys : att'[l].agent = attempts[l].agent /\ att'[l].state = attempts[l].state
               /\ \A a \in Agents : load'[a] <= load[a] \/ ~AgentLocked(a, Workers)
    <3>1. \A l \in Keys : att'[l].agent = attempts[l].agent /\ att'[l].state = attempts[l].state
      BY <2>1, UnlinkingKeepsAttempts DEF Adopt
    <3>2. ASSUME NEW a \in Agents PROVE load'[a] <= load[a] \/ ~AgentLocked(a, Workers)
      <4>1. load'[a] = counters[a] + One(a = e.new)
        BY <2>1, CountersMove DEF Adopt
      <4> QED BY <1>0, <2>0, <2>1, <4>1 DEF One
    <3> QED BY <3>1, <3>2
  <2>3. ASSUME NEW k \in Keys, att[k].state = "external_applied", Finalize(k, att[k], load)
        PROVE  /\ \A l \in Keys : /\ att'[l].agent = att[l].agent
                                  /\ l # k => att'[l].state = att[l].state
               /\ load' = load
    <3>1. att[k].agent \in Agents /\ att[k] \in Attempt
      BY <1>0, <2>3 DEF IInv, AgentsKnown
    <3>2. \A l \in Keys : att'[l].agent = att[l].agent /\ (l # k => att'[l].state = att[l].state)
      BY <1>0, <2>3, <3>1, Finalized
    <3>3. load' = load
      BY <2>3 DEF Finalize
    <3> QED BY <3>2, <3>3
  <2>4. ASSUME NEW k \in Keys,
               Adopt(e.ticket, e.new, [att EXCEPT ![k].state = "compensated", ![k].released = TRUE],
                     IF att[k].released THEN load ELSE Decremented(load, att[k].agent))
        PROVE  /\ \A l \in Keys : /\ att'[l].agent = att[l].agent
                                  /\ att'[l].state \in {att[l].state, "compensated"}
               /\ \A a \in Agents : load'[a] <= load[a] \/ ~AgentLocked(a, Workers)
    <3> DEFINE attempts == [att EXCEPT ![k].state = "compensated", ![k].released = TRUE]
               counters == IF att[k].released THEN load ELSE Decremented(load, att[k].agent)
    <3>1. /\ attempts \in [Keys -> Attempt]
          /\ \A l \in Keys : /\ attempts[l].agent = att[l].agent
                             /\ attempts[l].state \in {att[l].state, "compensated"}
      BY ZenonT(60), <1>0 DEF Attempt, Terminal
    <3>2. counters \in [Agents -> Nat] /\ \A a \in Agents : counters[a] <= load[a]
      BY <1>0 DEF Decremented
    <3>3. Adopt(e.ticket, e.new, attempts, counters)
      BY <2>4
    <3> HIDE DEF attempts, counters
    <3> QED BY <2>1, <3>1, <3>2, <3>3
  <2>5. \/ Adopt(e.ticket, e.new, att, load)
        \/ \E k \in Keys : att[k].state = "external_applied" /\ Finalize(k, att[k], load)
        \/ \E k \in Keys :
              Adopt(e.ticket, e.new, [att EXCEPT ![k].state = "compensated", ![k].released = TRUE],
                    IF att[k].released THEN load ELSE Decremented(load, att[k].agent))
    BY <1>5 DEF ConvergeQueued
  <2>6. \A a \in Agents : load[a] <= load[a] /\ load[a] \in Nat
    BY <1>0
  <2>7. CASE \E k \in Keys : att[k].state = "external_applied" /\ Finalize(k, att[k], load)
    BY <2>3, <2>6, <2>7
  <2>8. CASE \E k \in Keys :
              Adopt(e.ticket, e.new, [att EXCEPT ![k].state = "compensated", ![k].released = TRUE],
                    IF att[k].released THEN load ELSE Decremented(load, att[k].agent))
    BY <2>4, <2>8
  <2>9. CASE Adopt(e.ticket, e.new, att, load)
    BY <1>0, <2>1, <2>6, <2>9
  <2> QED BY <2>5, <2>7, <2>8, <2>9
<1>6. ASSUME NEW e \in ownerEvents \cup ownerTasks PROVE e \in OwnerChange
  BY DEF IInv, TypeOK, ProviderTypeOK, HandlersTypeOK
<1> QED BY <1>1, <1>2, <1>3, <1>4, <1>5, <1>6
        DEF WebhookStep, CloseRead, CloseApply, OwnerRead, OwnerApply, OwnerDrop

LEMMA RoomStep ==
    ASSUME IInv, IInv', RetriesHaveRoom, RetryableReleased, [Next]_vars
    PROVE  RetriesHaveRoom'
<1>1. ASSUME NEW w \in Workers, ReserveStep(w) \/ ExecuteStep(w) \/ RepairStep(w) \/ Crash(w)
      PROVE  RetriesHaveRoom'
  BY <1>1, WorkerTouches, WorkerRoom
<1>2. ASSUME worker' = worker,
             \A v \in Workers : worker[v].tx = "retry" =>
                 /\ att'[worker[v].key].agent = att[worker[v].key].agent
                 /\ load'[att[worker[v].key].agent] <= load[att[worker[v].key].agent]
      PROVE  RetriesHaveRoom'
  <2>1. \A v \in Workers : worker'[v].tx = "retry" => load'[att'[worker'[v].key].agent] < MaxChats
    BY <1>2, RoomKept
  <2> QED BY <2>1 DEF RetriesHaveRoom
<1>3. CASE UNCHANGED vars \/ HubStep \/ EnqueueStep
  <2>1. UNCHANGED <<worker, att, load>>
    BY <1>3 DEF vars, records, HubStep, HubEnterNovo, HubMoveOn, HubClose, HubEditOwner,
                EnqueueStep, EnqueueRead, OpenCycle, FindRow, PointRow, EnqueueDies
  <2> QED BY <2>1 DEF RetriesHaveRoom
<1>4. ASSUME NEW k \in Keys, Purge(k) PROVE RetriesHaveRoom'
  <2>1. UNCHANGED <<worker, load>> /\ att' = [att EXCEPT ![k] = NoAttempt]
    BY <1>4 DEF Purge
  <2>2. \A v \in Workers : worker[v].key # k
    BY <1>4 DEF Purge, Key
  <2>3. \A v \in Workers : worker[v].tx = "retry" => att'[worker[v].key].agent = att[worker[v].key].agent
    BY <2>1, <2>2, LockedByRetry DEF IInv, TypeOK, RecordsTypeOK
  <2> QED BY <2>1, <2>3 DEF RetriesHaveRoom
<1>5. CASE WebhookStep
  <2>1. /\ worker' = worker
        /\ \A l \in Keys : att'[l].agent = att[l].agent
        /\ \A a \in Agents : load'[a] <= load[a] \/ ~AgentLocked(a, Workers)
    BY <1>5, WebhookLoads
  <2>2. \A v \in Workers : worker[v].tx = "retry" =>
                 /\ att'[worker[v].key].agent = att[worker[v].key].agent
                 /\ load'[att[worker[v].key].agent] <= load[att[worker[v].key].agent]
    BY <2>1, LockedByRetry
  <2> QED BY <1>2, <2>1, <2>2
<1> QED BY <1>1, <1>3, <1>4, <1>5 DEF Next

-----------------------------------------------------------------------------
(* What HubSpot announced.  A step shows an owner that was announced, or    *)
(* the one it showed before.                                                *)
LEMMA EffectsStep ==
    ASSUME EffectsAnnounced, ownerEvents \subseteq ownerEvents',
           \A t \in Tickets : hub'[t].owner \in {hub[t].owner, Nobody} \/ Announced(t, hub[t].owner)',
           \A k \in Keys : att'[k].state \in {"external_applied", "completed"} =>
               \/ /\ att[k].state \in {"external_applied", "completed"}
                  /\ att'[k].agent = att[k].agent
               \/ Announced(KeyTicket(k), att'[k].agent),
           \A w \in Workers : worker'[w].pc = "confirm" =>
               \/ /\ worker[w].pc = "confirm" /\ worker'[w].key = worker[w].key
                  /\ att'[worker[w].key].agent = att[worker[w].key].agent
               \/ Announced(KeyTicket(worker'[w].key), att'[worker'[w].key].agent)
    PROVE  EffectsAnnounced'
<1>1. ASSUME NEW t \in Tickets, hub'[t].owner # Nobody PROVE Announced(t, hub[t].owner)'
  BY <1>1 DEF EffectsAnnounced, Announced
<1>2. ASSUME NEW k \in Keys, att'[k].state \in {"external_applied", "completed"}
      PROVE  Announced(KeyTicket(k), att[k].agent)'
  BY <1>2 DEF EffectsAnnounced, Announced
<1>3. ASSUME NEW w \in Workers, worker'[w].pc = "confirm"
      PROVE  Announced(KeyTicket(worker[w].key), att[worker[w].key].agent)'
  BY <1>3 DEF EffectsAnnounced, Announced
<1> QED BY <1>1, <1>2, <1>3 DEF EffectsAnnounced

LEMMA HubEffects ==
    ASSUME IInv, EffectsAnnounced, HubStep
    PROVE  EffectsAnnounced'
<1>1. UNCHANGED <<att, worker>>
  BY DEF records, HubStep, HubEnterNovo, HubMoveOn, HubClose, HubEditOwner
<1>2. hub \in [Tickets -> [stage : {"none", "novo", "working", "closed"},
                           owner : Owners \cup {Nobody}, era : Cycles \cup {0}]]
  BY DEF IInv, TypeOK, ProviderTypeOK
<1>3. ASSUME NEW t \in Tickets, NEW o,
             \A u \in Tickets : u # t => hub'[u] = hub[u],
             hub'[t].owner = o,
             o # hub[t].owner =>
                ownerEvents' = ownerEvents \cup {[ticket |-> t, prev |-> hub[t].owner, new |-> o]},
             ownerEvents \subseteq ownerEvents'
      PROVE  EffectsAnnounced'
  <2>1. o # hub[t].owner => Announced(t, o)'
    <3> DEFINE e == [ticket |-> t, prev |-> hub[t].owner, new |-> o]
    <3>1. e.ticket = t /\ e.new = o
      OBVIOUS
    <3>2. o # hub[t].owner => e \in ownerEvents'
      BY <1>3
    <3> HIDE DEF e
    <3> QED BY <3>1, <3>2 DEF Announced
  <2>2. \A u \in Tickets : hub'[u].owner \in {hub[u].owner, Nobody} \/ Announced(u, hub[u].owner)'
    BY <1>3, <2>1
  <2> QED BY <1>1, <1>3, <2>2, EffectsStep
<1>4. ASSUME NEW c \in Cycles, HubEnterNovo(c) PROVE EffectsAnnounced'
  <2>1. TicketOf[c] \in Tickets
    BY CyclesAssumption
  <2> QED BY <1>2, <1>3, <1>4, <2>1 DEF HubEnterNovo
<1>5. ASSUME NEW t \in Tickets, HubMoveOn(t) \/ HubClose(t) PROVE EffectsAnnounced'
  BY <1>2, <1>3, <1>5 DEF HubMoveOn, HubClose
<1>6. ASSUME NEW t \in Tickets, NEW o \in Owners \cup {Nobody}, HubEditOwner(t, o)
      PROVE  EffectsAnnounced'
  BY <1>2, <1>3, <1>6 DEF HubEditOwner, SetOwner
<1> QED BY <1>4, <1>5, <1>6 DEF HubStep

(* A worker confirms an owner only when it has read it from HubSpot.        *)
LEMMA ConfirmsAnnounced ==
    ASSUME IInv, EffectsAnnounced, NEW w \in Workers, ~At(w, "idle"), Confirms(w)
    PROVE  Announced(KeyTicket(Key(w)), att[Key(w)].agent)
<1>1. Key(w) \in Keys /\ Seen(w).agent = att[Key(w)].agent /\ Seen(w).agent \in Agents
  BY SeenAttempt
<1>2. KeyTicket(Key(w)) \in Tickets
  BY <1>1, KeysHaveTickets
<1> QED BY <1>1, <1>2, OwnersAssumption DEF Confirms, HubOf, EffectsAnnounced

(* A worker's step that leaves HubSpot alone.                               *)
LEMMA WorkerEffectsStep ==
    ASSUME IInv, EffectsAnnounced, NEW w \in Workers, Touches(w), UNCHANGED provider,
           \A k \in Keys : att'[k].state \in {"external_applied", "completed"} =>
               \/ att[k].state \in {"external_applied", "completed"}
               \/ att[k].state # "none" /\ Announced(KeyTicket(k), att[k].agent),
           worker'[w].pc # "confirm" \/
               (~At(w, "idle") /\ worker'[w].key = Key(w) /\ Confirms(w))
    PROVE  EffectsAnnounced'
<1>1. \A k \in Keys : att[k].state # "none" => att'[k].agent = att[k].agent
  BY DEF Touches
<1>2. \A k \in Keys : att'[k].state \in {"external_applied", "completed"} =>
               \/ /\ att[k].state \in {"external_applied", "completed"}
                  /\ att'[k].agent = att[k].agent
               \/ Announced(KeyTicket(k), att'[k].agent)
  BY <1>1
<1>3. ASSUME NEW v \in Workers, worker'[v].pc = "confirm"
      PROVE  \/ /\ worker[v].pc = "confirm" /\ worker'[v].key = worker[v].key
                /\ att'[worker[v].key].agent = att[worker[v].key].agent
             \/ Announced(KeyTicket(worker'[v].key), att'[worker'[v].key].agent)
  <2>1. ASSUME NEW u \in Workers, worker[u].pc # "idle"
        PROVE  att'[worker[u].key].agent = att[worker[u].key].agent
    BY <1>1, <2>1 DEF IInv, TypeOK, WorkersTypeOK, KeysExist
  <2>2. CASE v = w
    <3>1. Announced(KeyTicket(Key(w)), att[Key(w)].agent)
      BY <1>3, <2>2, ConfirmsAnnounced
    <3>2. att'[Key(w)].agent = att[Key(w)].agent /\ worker'[w].key = Key(w)
      BY <1>3, <2>1, <2>2 DEF At, Key
    <3> QED BY <2>2, <3>1, <3>2
  <2>3. CASE v # w
    <3>1. worker'[v] = worker[v]
      BY <2>3 DEF Touches, Others
    <3> QED BY <1>3, <2>1, <3>1
  <2> QED BY <2>2, <2>3
<1>4. /\ ownerEvents \subseteq ownerEvents'
      /\ \A t \in Tickets : hub'[t].owner \in {hub[t].owner, Nobody}
  BY DEF provider
<1> QED BY <1>2, <1>3, <1>4, EffectsStep

LEMMA WorkerEffects ==
    ASSUME IInv, IInv', RetriesHaveRoom, RetryableReleased, EffectsAnnounced, NEW w \in Workers,
           ReserveStep(w) \/ ExecuteStep(w) \/ RepairStep(w) \/ Crash(w)
    PROVE  EffectsAnnounced'
<1> USE DEF At
<1>0. Touches(w) /\ RecordsTypeOK /\ WorkersTypeOK
  BY WorkerTouches DEF IInv, TypeOK
<1>1. ASSUME UNCHANGED provider, UNCHANGED att, worker'[w].pc # "confirm"
      PROVE  EffectsAnnounced'
  BY <1>0, <1>1, WorkerEffectsStep
<1>2. ASSUME Done(w) PROVE worker'[w].pc # "confirm"
  BY <1>0, <1>2, DoneMoves DEF Idle
<1>3. ASSUME NEW pc, NEW arg, Goto(w, pc, arg) PROVE worker'[w].pc = pc /\ worker'[w].key = Key(w)
  BY <1>0, <1>3, GotoMoves DEF Key
<1>4. ASSUME NEW k, NEW pc, Begin(w, k, pc) PROVE worker'[w].pc = pc
  BY <1>0, <1>4, BeginMoves
<1>5. CASE ReserveStep(w)
  <2>1. ASSUME NEW t \in Tickets, ReserveStale(w, t) PROVE EffectsAnnounced'
    BY <1>1, <2>1 DEF ReserveStale
  <2>2. ASSUME NEW t \in Tickets, NEW k \in Keys, ReserveExisting(w, t, k) PROVE EffectsAnnounced'
    BY <1>1, <1>4, <2>2 DEF ReserveExisting, records
  <2>3. ASSUME NEW t \in Tickets, NEW ty \in Types, NEW a \in Agents, ReserveNew(w, t, ty, a)
        PROVE  EffectsAnnounced'
    <3>1. UNCHANGED provider /\ worker'[w].pc # "confirm"
      BY <1>4, <2>3 DEF ReserveNew
    <3>2. \A k \in Keys : att'[k].state \in {"external_applied", "completed"} => att'[k] = att[k]
      BY <1>0, <2>3 DEF ReserveNew, Create, RecordsTypeOK
    <3> QED BY <1>0, <3>1, <3>2, WorkerEffectsStep
  <2> QED BY <1>5, <2>1, <2>2, <2>3 DEF ReserveStep
<1>6. CASE Start(w)
  BY <1>1, <1>2, <1>3, <1>6 DEF Start, records
<1>7. CASE PreRead(w) \/ Reread(w)
  <2>1. UNCHANGED <<provider, att>> /\ ~At(w, "idle")
    BY <1>7 DEF PreRead, Reread, records
  <2>2. worker'[w].pc # "confirm" \/ (worker'[w].key = Key(w) /\ Confirms(w))
    BY <1>3, <1>7 DEF PreRead, Reread
  <2> QED BY <1>0, <2>1, <2>2, WorkerEffectsStep
<1>8. CASE PatchRejected(w) \/ Readback(w)
  BY <1>1, <1>3, <1>8 DEF PatchRejected, Readback, records
<1>9. CASE PatchApplied(w)
  <2>0. PICK t, o : t = KeyTicket(Key(w)) /\ o = Seen(w).agent
    OBVIOUS
  <2>1. /\ t \in Tickets /\ hub \in [Tickets -> [stage : {"none", "novo", "working", "closed"},
                           owner : Owners \cup {Nobody}, era : Cycles \cup {0}]]
    BY <1>9, <2>0, SeenAttempt, KeysHaveTickets DEF PatchApplied, IInv, TypeOK, ProviderTypeOK
  <2>2. /\ \A u \in Tickets : u # t => hub'[u] = hub[u]
        /\ hub'[t].owner = o
        /\ ownerEvents \subseteq ownerEvents'
        /\ hub[t].owner # o => [ticket |-> t, prev |-> hub[t].owner, new |-> o] \in ownerEvents'
    BY <1>9, <2>0, <2>1 DEF PatchApplied, SetOwner
  <2>3. hub[t].owner # o => Announced(t, o)'
    <3> DEFINE e == [ticket |-> t, prev |-> hub[t].owner, new |-> o]
    <3>1. e.ticket = t /\ e.new = o /\ (hub[t].owner # o => e \in ownerEvents')
      BY <2>2
    <3> HIDE DEF e
    <3> QED BY <3>1 DEF Announced
  <2>4. \A u \in Tickets : hub'[u].owner \in {hub[u].owner, Nobody} \/ Announced(u, hub[u].owner)'
    BY <2>2, <2>3
  <2>5. /\ att' = att
        /\ \A v \in Workers : worker'[v].pc = "confirm" => worker'[v] = worker[v]
    BY <1>0, <1>3, <1>9 DEF PatchApplied, records, Touches, Others
  <2> QED BY <2>2, <2>4, <2>5, EffectsStep
<1>10. CASE CompensateStep(w)
  <2>1. UNCHANGED provider /\ worker'[w].pc # "confirm"
    BY SMTT(30), <1>2, <1>10 DEF CompensateStep
  <2>2. /\ Key(w) \in Keys /\ Seen(w) \in Attempt /\ Counters(w) \in [Agents -> Nat]
        /\ Seen(w) = att[Key(w)] \/ Seen(w).state = "reserved"
    BY <1>0, <1>10, SeenAttempt DEF CompensateStep, Seen, Key, RecordsTypeOK, Attempt
  <2>3. /\ \A l \in Keys \ {Key(w)} : att'[l] = att[l]
        /\ \/ att'[Key(w)].state = Seen(w).state
           \/ att'[Key(w)].state \in {"retryable", "repair_required", "compensated"}
    BY <1>0, <1>10, <2>2, Compensated DEF CompensateStep
  <2> QED BY <1>0, <2>1, <2>2, <2>3, WorkerEffectsStep
<1>11. ASSUME UNCHANGED provider, worker'[w].pc # "confirm", ~At(w, "idle"),
              Announced(KeyTicket(Key(w)), att[Key(w)].agent),
              \A l \in Keys \ {Key(w)} : att'[l].state = att[l].state
       PROVE  EffectsAnnounced'
  <2>1. att[Key(w)].state # "none"
    BY <1>11, SeenAttempt
  <2> QED BY <1>0, <1>11, <2>1, WorkerEffectsStep
<1>12. CASE MarkExternalApplied(w)
  <2>1. Announced(KeyTicket(Key(w)), att[Key(w)].agent)
    BY <1>12 DEF MarkExternalApplied, EffectsAnnounced, Key
  <2>2. UNCHANGED provider /\ worker'[w].pc # "confirm" /\ ~At(w, "idle")
    BY <1>2, <1>3, <1>12 DEF MarkExternalApplied
  <2>3. \A l \in Keys \ {Key(w)} : att'[l].state = att[l].state
    BY <1>0, <1>12 DEF MarkExternalApplied, RecordsTypeOK
  <2> QED BY <1>11, <2>1, <2>2, <2>3
<1>13. CASE FinalizeStep(w)
  <2>1. UNCHANGED provider /\ worker'[w].pc # "confirm" /\ ~At(w, "idle")
    BY <1>2, <1>13 DEF FinalizeStep
  <2>2. CASE att[Key(w)].state = "external_applied" /\ Finalize(Key(w), att[Key(w)], load)
    <3>1. Key(w) \in Keys /\ att[Key(w)] \in Attempt /\ att[Key(w)].agent \in Agents
      BY <1>0, <2>1, SeenAttempt DEF RecordsTypeOK
    <3>2. Announced(KeyTicket(Key(w)), att[Key(w)].agent)
      BY <2>2, <3>1 DEF EffectsAnnounced
    <3>3. \A l \in Keys \ {Key(w)} : att'[l].state = att[l].state
      BY <1>0, <2>2, <3>1, Finalized DEF RecordsTypeOK
    <3> QED BY <1>11, <2>1, <3>2, <3>3
  <2> QED BY <1>1, <1>13, <2>1, <2>2 DEF FinalizeStep, records
<1>14. CASE RepairConfirm(w)
  <2>1. UNCHANGED provider /\ ~At(w, "idle")
    BY <1>14 DEF RepairConfirm
  <2>2. CASE Finalize(Key(w), Seen(w), Counters(w)) /\ Done(w)
    <3>1. /\ Key(w) \in Keys /\ Seen(w) \in Attempt /\ Seen(w).agent \in Agents
          /\ Counters(w) \in [Agents -> Nat]
      BY <2>1, SeenAttempt
    <3>2. Announced(KeyTicket(Key(w)), att[Key(w)].agent)
      BY <1>14 DEF RepairConfirm, EffectsAnnounced, Key
    <3>3. \A l \in Keys \ {Key(w)} : att'[l].state = att[l].state
      BY <1>0, <2>2, <3>1, Finalized
    <3> QED BY <1>2, <1>11, <2>1, <2>2, <3>2, <3>3
  <2>3. CASE UNCHANGED records /\ Done(w)
    BY <1>1, <1>2, <2>1, <2>3 DEF records
  <2>4. CASE UNCHANGED records /\ worker' = [worker EXCEPT ![w].pc = "handler", ![w].tx = "no"]
    <3>1. worker'[w].pc # "confirm"
      BY <1>0, <2>4 DEF WorkersTypeOK
    <3> QED BY <1>1, <2>1, <2>4, <3>1 DEF records
  <2> QED BY <1>14, <2>2, <2>3, <2>4 DEF RepairConfirm
<1>15. ASSUME NEW k \in Keys, RepairScan(w, k) PROVE EffectsAnnounced'
  BY <1>1, <1>4, <1>15 DEF RepairScan, records
<1>16. CASE RepairLock(w) \/ RetryTake(w) \/ RepairRaises(w)
  <2>1. UNCHANGED <<provider, att>>
    BY <1>16 DEF RepairLock, RetryTake, RepairRaises, records
  <2>2. worker'[w].pc # "confirm"
    BY <1>0, <1>2, <1>16 DEF RepairLock, RetryTake, RepairRaises, WorkersTypeOK
  <2> QED BY <1>1, <2>1, <2>2
<1>17. CASE RetryCheck(w) \/ Crash(w)
  BY <1>1, <1>2, <1>3, <1>17 DEF RetryCheck, Crash, records
<1>18. CASE RepairHandler(w)
  <2>1. UNCHANGED provider /\ worker'[w].pc # "confirm"
    BY <1>2, <1>18 DEF RepairHandler
  <2>2. \A l \in Keys : att'[l].state \in {att[l].state, "repair_required"}
    BY <1>0, <1>18 DEF RepairHandler, RecordsTypeOK
  <2> QED BY <1>0, <2>1, <2>2, WorkerEffectsStep
<1> QED BY <1>5, <1>6, <1>7, <1>8, <1>9, <1>10, <1>12, <1>13, <1>14, <1>15, <1>16, <1>17, <1>18
        DEF ExecuteStep, RepairStep

LEMMA EffectsKept ==
    ASSUME IInv, IInv', RetriesHaveRoom, RetryableReleased, EffectsAnnounced, [Next]_vars
    PROVE  EffectsAnnounced'
<1>1. CASE UNCHANGED vars \/ EnqueueStep
  <2>1. UNCHANGED <<provider, att, worker>>
    BY <1>1 DEF vars, records, EnqueueStep, EnqueueRead, OpenCycle, FindRow, PointRow, EnqueueDies
  <2> QED BY <2>1 DEF provider, EffectsAnnounced, Announced
<1>2. ASSUME NEW k \in Keys, Purge(k) PROVE EffectsAnnounced'
  <2>1. UNCHANGED <<provider, worker>> /\ att' = [att EXCEPT ![k] = NoAttempt]
    BY <1>2 DEF Purge
  <2>2. \A v \in Workers : worker[v].key # k
    BY <1>2 DEF Purge, Key
  <2>3. \A l \in Keys : l # k => att'[l] = att[l]
    BY <2>1 DEF IInv, TypeOK, RecordsTypeOK
  <2>4. att'[k].state = "none"
    BY <2>1 DEF IInv, TypeOK, RecordsTypeOK, NoAttempt
  <2>5. ASSUME NEW v \in Workers, worker'[v].pc = "confirm"
        PROVE  /\ worker[v].pc = "confirm" /\ worker'[v].key = worker[v].key
               /\ att'[worker[v].key].agent = att[worker[v].key].agent
    <3>1. worker[v].key \in Keys
      BY <2>1, <2>5 DEF IInv, TypeOK, WorkersTypeOK
    <3> QED BY <2>1, <2>2, <2>3, <2>5, <3>1
  <2>6. /\ ownerEvents \subseteq ownerEvents'
        /\ \A t \in Tickets : hub'[t].owner \in {hub[t].owner, Nobody}
    BY <2>1 DEF provider
  <2> QED BY <2>3, <2>4, <2>5, <2>6, EffectsStep
<1>3. CASE WebhookStep
  <2>1. /\ UNCHANGED <<worker, provider>>
        /\ \A l \in Keys : /\ att'[l].agent = att[l].agent
                           /\ att'[l].state # att[l].state =>
                                 \/ att'[l].state = "compensated"
                                 \/ att[l].state = "external_applied"
    BY <1>3, WebhookLoads
  <2>2. \A v \in Workers : worker[v].pc = "confirm" =>
            att'[worker[v].key].agent = att[worker[v].key].agent
    BY <2>1 DEF IInv, TypeOK, WorkersTypeOK
  <2>3. /\ ownerEvents \subseteq ownerEvents'
        /\ \A t \in Tickets : hub'[t].owner \in {hub[t].owner, Nobody}
    BY <2>1 DEF provider
  <2> QED BY <2>1, <2>2, <2>3, EffectsStep
<1> QED BY <1>1, <1>2, <1>3, HubEffects, WorkerEffects DEF Next

-----------------------------------------------------------------------------
(* The tables of an empty database agree.                                   *)
LEMMA InitRecordsInv == Init => RecordsInv
<1> SUFFICES ASSUME Init PROVE RecordsInv
  OBVIOUS
<1> USE DEF Init, RecordsInit
<1>1. EffectsAnnounced
  BY DEF EffectsAnnounced, NoAttempt, Idle
<1>2. RowsOpened
  BY ScopesSplit DEF RowsOpened, NoRow
<1>3. RetryableReleased /\ RetriesHaveRoom
  BY DEF RetryableReleased, RetriesHaveRoom, NoAttempt, Idle
<1>4. CompletedOnce
  BY DEF CompletedOnce, NoAttempt
<1>5. ProjectionAgrees
  BY DEF ProjectionAgrees, Scopes
<1>6. \A a \in Agents : Charged(a) = {} /\ HeldBy(a) = {}
  BY ConvAssumption DEF Charged, HeldBy, NoAttempt, Live
<1>7. ChargesFinite /\ NoCapacityLeak
  <2>1. IsFiniteSet({}) /\ Cardinality({}) = 0
    BY FS_EmptySet
  <2>2. \A a \in Agents : /\ IsFiniteSet(Charged(a)) /\ IsFiniteSet(HeldBy(a))
                          /\ Cardinality(Charged(a)) = 0 /\ Cardinality(HeldBy(a)) = 0
    BY <1>6, <2>1
  <2> HIDE DEF Init
  <2>3. \A a \in Agents : load[a] = 0
    BY DEF Init
  <2> QED BY <2>2, <2>3 DEF ChargesFinite, NoCapacityLeak
<1> QED BY <1>1, <1>2, <1>3, <1>4, <1>5, <1>7 DEF RecordsInv

(* No step of the system falsifies the second invariant.                    *)
LEMMA StepRecordsInv == IInv /\ IInv' /\ RecordsInv /\ [Next]_vars => RecordsInv'
<1> SUFFICES ASSUME IInv, IInv', RecordsInv, [Next]_vars PROVE RecordsInv'
  OBVIOUS
<1>1. Tables'
  BY TablesStep DEF RecordsInv, Tables
<1>2. EffectsAnnounced' /\ RetriesHaveRoom'
  BY EffectsKept, RoomStep DEF RecordsInv
<1> QED BY <1>1, <1>2 DEF RecordsInv, Tables

(* The second invariant holds in every state that the system reaches.       *)
THEOREM RecordsInvariance == Spec => []RecordsInv
BY InitInvariant, StepInvariant, InitRecordsInv, StepRecordsInv, PTL DEF Spec

(* A conversation cycle is finalized once, and only out of the queue        *)
(* (finalize_assignment_attempt): two attempts of it are never completed.   *)
THEOREM FinalizedOnce == Spec => []CompletedOnce
<1>1. RecordsInv => CompletedOnce
  BY DEF RecordsInv
<1> QED BY <1>1, RecordsInvariance, PTL

(* An attempt is completed only for an owner that HubSpot announced for its *)
(* ticket: the projection never runs ahead of the provider effect.          *)
THEOREM CompletedAfterEffect == Spec => []CompletedWasApplied
<1>1. RecordsInv => CompletedWasApplied
  BY DEF RecordsInv, EffectsAnnounced, Announced, CompletedWasApplied
<1> QED BY <1>1, RecordsInvariance, PTL

(* The assignment of a cycle and the state of the cycle agree, however      *)
(* finalizations, closures and owner changes interleave.                    *)
THEOREM ProjectionsAgree == Spec => []ProjectionAgrees
<1>1. RecordsInv => ProjectionAgrees
  BY DEF RecordsInv
<1> QED BY <1>1, RecordsInvariance, PTL

(* An agent's counter never counts work that no later step will give back   *)
(* (compensations, retries, closures and owner changes move it).            *)
THEOREM CapacityNotLeaked == Spec => []NoCapacityLeak
<1>1. RecordsInv => NoCapacityLeak
  BY DEF RecordsInv
<1> QED BY <1>1, RecordsInvariance, PTL

(* No worker raises a counter above its agent's maximum: a reservation      *)
(* checks it, and a retry still has the room that it checked when it        *)
(* commits (retry_assignment_attempt keeps the agent row locked).           *)
THEOREM NeverOverbooked == Spec => NoOverbooking
<1>1. ASSUME IInv, IInv', RecordsInv, [Next]_vars
      PROVE  [worker' # worker =>
                 \A a \in Agents : load'[a] > load[a] => load'[a] <= MaxChats]_vars
  <2> SUFFICES ASSUME Next, worker' # worker, NEW a \in Agents, load'[a] > load[a]
               PROVE  load'[a] <= MaxChats
    BY <1>1
  <2>1. PICK w \in Workers : ReserveStep(w) \/ ExecuteStep(w) \/ RepairStep(w) \/ Crash(w)
    <3>1. ~HubStep
      BY DEF HubStep, HubEnterNovo, HubMoveOn, HubClose, HubEditOwner
    <3>2. ~EnqueueStep
      BY DEF EnqueueStep, EnqueueRead, OpenCycle, FindRow, PointRow, EnqueueDies
    <3>3. ~WebhookStep /\ \A k \in Keys : ~Purge(k)
      BY DEF WebhookStep, CloseRead, CloseApply, OwnerRead, OwnerApply, OwnerDrop, Purge
    <3> QED BY <3>1, <3>2, <3>3 DEF Next
  <2>2. Touches(w)
    BY <1>1, <2>1, WorkerTouches DEF RecordsInv
  <2>3. load[a] \in Nat /\ load'[a] \in Nat
    BY <1>1 DEF IInv, TypeOK, RecordsTypeOK
  <2> QED BY <2>2, <2>3 DEF Touches
<1>2. Spec => [](IInv /\ RecordsInv)
  BY Invariance, RecordsInvariance, PTL
<1>3. IInv /\ RecordsInv /\ [Next]_vars /\ (IInv /\ RecordsInv)' =>
         [worker' # worker =>
             \A a \in Agents : load'[a] > load[a] => load'[a] <= MaxChats]_vars
  BY <1>1
<1> QED BY <1>2, <1>3, PTL DEF Spec, NoOverbooking
=============================================================================
