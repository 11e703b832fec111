------------------------- MODULE MCOccupancy_proofs -------------------------
(***************************************************************************)
(* The counters agree with the tickets, observations only advance, holds   *)
(* outlive the PATCH they are for, and no scan misses a ticket, for any    *)
(* tickets, agents and processes.  The last section carries over what      *)
(* AgentTurns_proofs proves of the turns of the agents.                    *)
(***************************************************************************)
EXTENDS MCOccupancy, FiniteSetTheorems, TLAPS

(***************************************************************************)
(* The inductive invariant: the counters agree; types; an operation that   *)
(* was started names its ticket and agent and one that was not holds       *)
(* nothing; and a process that reads a ticket has a version of it.         *)
(***************************************************************************)
Version == [owner : Owners \cup {Nobody}, closed : BOOLEAN]

ProviderTyped ==
    provider \in [Tickets -> Seq(Version)] /\ \A t \in Tickets : Newest(t) >= 1

Occupancy == [state : {"unknown", "active", "unassigned", "closed"},
              owner : Owners \cup {Nobody}, at : Nat, rev : Nat]
OccTyped == occ \in [Tickets -> Occupancy]

Operation == [state : {"none", "live", "retryable", "repair", "done"},
              ticket : Tickets \cup {Nobody}, agent : Agents \cup {Nobody},
              hold : {"none", "held", "converted", "released"}]
OpTyped ==
    /\ op \in [Operations -> Operation]
    /\ \A w \in Operations :
        IF op[w].state = "none" THEN op[w].hold = "none"
        ELSE op[w].ticket \in Tickets /\ op[w].agent \in Agents

AgentTyped == agent \in [Agents -> [count : Nat, rev : Nat, ready : BOOLEAN]]

Places == {"idle", "start", "captured", "read", "observed", "refused", "patch",
           "listing", "scanning", "conflict"}
Process == [pc : Places, for : {"none", "watch", "precondition", "readback", "scan"},
            ticket : Tickets \cup {Nobody}, rev : Nat, affected : SUBSET Agents,
            read : Nat, rejected : BOOLEAN]
Reads(p) ==
    /\ proc[p].pc \in {"start", "captured", "read"} => proc[p].ticket \in Tickets
    /\ proc[p].pc = "read" => proc[p].read \in 1..Newest(proc[p].ticket)
ProcTyped ==
    /\ proc \in [Processes -> Process]
    /\ \A p \in Processes : Reads(p)
    /\ \A w \in Operations : proc[w].pc # "idle" => op[w].state # "none"

Scan == [agent : Agents \cup {Nobody}, todo : SUBSET Tickets, done : SUBSET Tickets,
         tracker : Nat]
ScanTyped == scan \in [Scanners -> Scan]

FlightStarted == \A w \in Operations \cap flight : op[w].state # "none"

OccupancyInv ==
    /\ ProviderTyped /\ OccTyped /\ OpTyped /\ AgentTyped /\ ProcTyped /\ ScanTyped
    /\ FlightStarted
    /\ CounterAgrees

(***************************************************************************)
(* What a step promises beside the invariant.                              *)
(***************************************************************************)
Advances == \A t \in Tickets : occ'[t].at >= occ[t].at

-----------------------------------------------------------------------------
(***************************************************************************)
(* The counters.  An agent's count is a number, and it stays when neither  *)
(* the owner of a ticket nor a hold changes.                               *)
(***************************************************************************)
LEMMA CountIsNatNext == ASSUME OpTyped', NEW a PROVE CapacityCount(a)' \in Nat
<1>1. Counted(a)' \subseteq Tickets
  BY DEF OpTyped, Counted, Held
<1>2. IsFiniteSet(Tickets)
  BY OccupancyAssumption
<1>3. IsFiniteSet(Counted(a)')
  BY <1>1, <1>2, FS_Subset
<1> QED
  BY <1>3, FS_CardinalityType DEF CapacityCount

Same == /\ \A t \in Tickets : occ'[t].state = occ[t].state /\ occ'[t].owner = occ[t].owner
        /\ \A w \in Operations : op'[w].hold = op[w].hold /\ op'[w].agent = op[w].agent
                                 /\ op'[w].ticket = op[w].ticket

LEMMA SameCounted == ASSUME Same, NEW a PROVE Counted(a)' = Counted(a)
<1>1. {t \in Tickets : occ[t].state = "active" /\ occ[t].owner = a}'
        = {t \in Tickets : occ[t].state = "active" /\ occ[t].owner = a}
  BY DEF Same
<1>2. {v \in Operations : Held(v) /\ op[v].agent = a}'
        = {v \in Operations : Held(v) /\ op[v].agent = a}
  BY DEF Same, Held
<1>3. {op[w].ticket : w \in {v \in Operations : Held(v) /\ op[v].agent = a}}'
        = {op[w].ticket : w \in {v \in Operations : Held(v) /\ op[v].agent = a}}
  BY <1>2 DEF Same
<1> QED
  BY <1>1, <1>3 DEF Counted

LEMMA SameCounts ==
  ASSUME CounterAgrees, Same, \A a \in Agents : agent'[a].count = agent[a].count
  PROVE  CounterAgrees'
  BY SameCounted DEF CounterAgrees, CapacityCount

LEMMA DegradedCounts ==
  ASSUME AgentTyped, NEW as, agent' = Degraded(as)
  PROVE  AgentTyped' /\ \A a \in Agents : agent'[a].count = agent[a].count
<1>1. ASSUME NEW a \in Agents
      PROVE  agent'[a] = IF a \in as
                THEN [agent[a] EXCEPT !.ready = FALSE, !.rev = agent[a].rev + 1] ELSE agent[a]
  BY DEF Degraded
<1>2. ASSUME NEW a \in Agents
      PROVE  agent'[a] \in [count : Nat, rev : Nat, ready : BOOLEAN]
             /\ agent'[a].count = agent[a].count
  <2>1. agent[a] \in [count : Nat, rev : Nat, ready : BOOLEAN] /\ agent[a].rev + 1 \in Nat
    BY DEF AgentTyped
  <2>2. CASE a \in as
    BY <1>1, <2>1, <2>2
  <2>3. CASE a \notin as
    BY <1>1, <2>1, <2>3
  <2> QED
    BY <2>2, <2>3
<1>3. agent' = [a \in Agents |-> agent'[a]]
  BY DEF Degraded
<1> QED
  BY <1>2, <1>3 DEF AgentTyped

LEMMA MaterializedCounts ==
  ASSUME AgentTyped, OpTyped', CounterAgrees, NEW as, agent' = Materialized(as),
         \A a \in Agents \ as : Counted(a)' = Counted(a)
  PROVE  AgentTyped' /\ CounterAgrees'
<1>1. ASSUME NEW a \in Agents
      PROVE  agent'[a] = IF a \in as
                THEN [agent[a] EXCEPT !.count = CapacityCount(a)', !.rev = agent[a].rev + 1]
                ELSE agent[a]
  BY DEF Materialized
<1>2. ASSUME NEW a \in Agents
      PROVE  agent'[a] \in [count : Nat, rev : Nat, ready : BOOLEAN]
             /\ agent'[a].count = CapacityCount(a)'
  <2>1. agent[a] \in [count : Nat, rev : Nat, ready : BOOLEAN] /\ agent[a].rev + 1 \in Nat
    BY DEF AgentTyped
  <2>2. CapacityCount(a)' \in Nat
    BY CountIsNatNext
  <2>3. CASE a \in as
    BY <1>1, <2>1, <2>2, <2>3
  <2>4. CASE a \notin as
    <3>1. CapacityCount(a)' = CapacityCount(a) /\ agent'[a] = agent[a]
      BY <1>1, <2>4 DEF CapacityCount
    <3> QED
      BY <2>1, <3>1 DEF CounterAgrees
  <2> QED
    BY <2>3, <2>4
<1>3. agent' = [a \in Agents |-> agent'[a]]
  BY DEF Materialized
<1> QED
  BY <1>2, <1>3 DEF AgentTyped, CounterAgrees

-----------------------------------------------------------------------------
(***************************************************************************)
(* The versions of a ticket in HubSpot.                                    *)
(***************************************************************************)
Grows == ProviderTyped' /\ \A t \in Tickets :
    Len(provider[t]) \in Nat /\ Len(provider'[t]) \in Nat /\ Len(provider'[t]) >= Len(provider[t])

LEMMA VersionGrows ==
  ASSUME ProviderTyped, NEW t \in Tickets, NEW v \in Version, Updated(t, v)
  PROVE  Grows
<1>1. provider[t] \in Seq(Version) /\ Len(provider[t]) >= 1 /\ Len(provider[t]) \in Nat
  BY DEF ProviderTyped, Newest
<1>2. Append(provider[t], v) \in Seq(Version)
      /\ Len(Append(provider[t], v)) = Len(provider[t]) + 1
  BY <1>1
<1>3. provider' = [provider EXCEPT ![t] = Append(provider[t], v)]
  BY DEF Updated
<1>4. provider' \in [Tickets -> Seq(Version)]
  BY <1>2, <1>3 DEF ProviderTyped
<1>5. provider'[t] = Append(provider[t], v)
      /\ \A u \in Tickets \ {t} : provider'[u] = provider[u]
  BY <1>3 DEF ProviderTyped
<1>6. \A u \in Tickets : Len(provider[u]) \in Nat /\ Len(provider[u]) >= 1
  BY DEF ProviderTyped, Newest
<1>7. \A u \in Tickets : Len(provider'[u]) >= Len(provider[u]) /\ Len(provider'[u]) >= 1
                          /\ Len(provider'[u]) \in Nat
  BY <1>1, <1>2, <1>5, <1>6
<1> QED
  BY <1>4, <1>6, <1>7 DEF Grows, ProviderTyped, Newest

LEMMA CurrentTyped ==
  ASSUME ProviderTyped, NEW t \in Tickets PROVE Current(t) \in Version
<1>1. provider[t] \in Seq(Version) /\ Len(provider[t]) \in Nat /\ Len(provider[t]) >= 1
  BY DEF ProviderTyped, Newest
<1>2. Len(provider[t]) \in 1..Len(provider[t])
  BY <1>1
<1> QED
  BY <1>1, <1>2 DEF Current, Newest

LEMMA ProviderSame == ASSUME ProviderTyped, UNCHANGED provider PROVE Grows
<1>1. \A t \in Tickets : Len(provider'[t]) = Len(provider[t]) /\ Len(provider[t]) \in Nat
  BY DEF ProviderTyped, Newest
<1>2. ProviderTyped'
  BY DEF ProviderTyped, Newest
<1> QED
  BY <1>1, <1>2 DEF Grows

(***************************************************************************)
(* One process moves, to a state p' that reads nothing it does not have.   *)
(***************************************************************************)
LEMMA ProcessMoved ==
  ASSUME ProcTyped, Grows, NEW p \in Processes, NEW to \in Process,
         proc' = [proc EXCEPT ![p] = to],
         to.pc \in {"start", "captured", "read"} => to.ticket \in Tickets,
         to.pc = "read" => to.read \in 1..Len(provider'[to.ticket]),
         \A w \in Operations : op[w].state # "none" => op'[w].state # "none",
         p \in Operations /\ to.pc # "idle" => op'[p].state # "none"
  PROVE  ProcTyped'
<1>1. proc' \in [Processes -> Process] /\ proc'[p] = to
      /\ \A q \in Processes \ {p} : proc'[q] = proc[q]
  BY DEF ProcTyped
<1>2. Reads(p)'
  BY <1>1 DEF Reads, Newest
<1>3. ASSUME NEW q \in Processes \ {p} PROVE Reads(q)'
  <2>1. proc'[q] = proc[q] /\ Reads(q)
    BY <1>1 DEF ProcTyped
  <2>2. ASSUME proc[q].pc = "read" PROVE proc[q].read \in 1..Len(provider'[proc[q].ticket])
    <3>1. proc[q].ticket \in Tickets /\ proc[q].read \in 1..Len(provider[proc[q].ticket])
      BY <2>1, <2>2 DEF Reads, Newest
    <3>2. Len(provider[proc[q].ticket]) \in Nat /\ Len(provider'[proc[q].ticket]) \in Nat
          /\ Len(provider'[proc[q].ticket]) >= Len(provider[proc[q].ticket])
      BY <3>1 DEF Grows
    <3> QED
      BY <3>1, <3>2
  <2> QED
    BY <2>1, <2>2 DEF Reads, Newest
<1>4. Operations \subseteq Processes
  BY DEF Processes
<1> QED
  BY <1>1, <1>2, <1>3, <1>4 DEF ProcTyped

OpKept == \A w \in Operations : op[w].state # "none" => op'[w].state # "none"

LEMMA Parts ==
  /\ Operations \subseteq Processes /\ Watchers \subseteq Processes
  /\ Scanners \subseteq Processes
  /\ \A p \in Watchers \cup Scanners : p \notin Operations
  /\ \A w \in Operations : w \notin Watchers /\ w \notin Scanners
  BY OccupancyAssumption DEF Processes

LEMMA IdleTyped == IdleProcess \in Process /\ IdleProcess.pc = "idle"
  BY DEF IdleProcess, Process, Places

LEMMA Left ==
  ASSUME ProcTyped, Grows, OpKept, NEW p \in Processes, Leave(p) PROVE ProcTyped'
<1>1. proc' = [proc EXCEPT ![p] = IdleProcess]
  BY DEF Leave
<1> QED
  BY <1>1, IdleTyped, ProcessMoved DEF OpKept

LEMMA Entered ==
  ASSUME ProcTyped, Grows, OpKept, NEW p \in Processes, NEW pc \in Places,
         pc \notin {"start", "captured", "read"}, Enter(p, pc),
         p \in Operations => proc[p].pc # "idle"
  PROVE  ProcTyped'
<1> DEFINE to == [proc[p] EXCEPT !.pc = pc]
<1>1. proc' = [proc EXCEPT ![p] = to]
  BY DEF Enter
<1>2. proc[p] \in Process
  BY DEF ProcTyped
<1>3. to \in Process /\ to.pc = pc
  BY <1>2 DEF Process
<1>4. p \in Operations => op'[p].state # "none"
  BY DEF ProcTyped, OpKept
<1> HIDE DEF to
<1> QED
  BY <1>1, <1>3, <1>4, ProcessMoved DEF OpKept

LEMMA Begun ==
  ASSUME ProcTyped, Grows, OpKept, NEW p \in Processes, NEW to \in Process,
         to.pc \in {"start", "patch"}, to.ticket \in Tickets,
         proc' = [proc EXCEPT ![p] = to],
         p \in Operations => op'[p].state # "none"
  PROVE  ProcTyped'
  BY ProcessMoved DEF OpKept

(***************************************************************************)
(* A step that changes nothing the counters depend on.                     *)
(***************************************************************************)
LEMMA Aside ==
  ASSUME OccupancyInv, Grows, UNCHANGED <<occ, op, agent>>, ProcTyped', ScanTyped',
         FlightStarted'
  PROVE  OccupancyInv' /\ Advances
<1>1. OccTyped' /\ OpTyped' /\ AgentTyped'
  BY DEF OccupancyInv, OccTyped, OpTyped, AgentTyped
<1>2. Same
  BY DEF Same
<1>3. CounterAgrees'
  BY <1>2, SameCounts DEF OccupancyInv
<1>4. Advances
  BY DEF OccupancyInv, OccTyped, Occupancy, Advances
<1> QED
  BY <1>1, <1>3, <1>4 DEF OccupancyInv, Grows

LEMMA ProcessesSame ==
  ASSUME OccupancyInv, Grows, OpKept, UNCHANGED proc PROVE ProcTyped'
<1>1. CASE Processes = {}
  BY <1>1, Parts DEF OccupancyInv, ProcTyped
<1>2. ASSUME NEW p \in Processes PROVE ProcTyped'
  <2>1. proc' = [proc EXCEPT ![p] = proc[p]] /\ proc[p] \in Process
    BY DEF OccupancyInv, ProcTyped
  <2>2. proc[p].pc \in {"start", "captured", "read"} => proc[p].ticket \in Tickets
    BY DEF OccupancyInv, ProcTyped, Reads
  <2>3. proc[p].pc = "read" => proc[p].read \in 1..Len(provider'[proc[p].ticket])
    <3> SUFFICES ASSUME proc[p].pc = "read" PROVE proc[p].read \in 1..Len(provider'[proc[p].ticket])
      OBVIOUS
    <3>1. proc[p].ticket \in Tickets /\ proc[p].read \in 1..Len(provider[proc[p].ticket])
      BY DEF OccupancyInv, ProcTyped, Reads, Newest
    <3>2. Len(provider[proc[p].ticket]) \in Nat /\ Len(provider'[proc[p].ticket]) \in Nat
          /\ Len(provider'[proc[p].ticket]) >= Len(provider[proc[p].ticket])
      BY <3>1 DEF Grows
    <3> QED
      BY <3>1, <3>2
  <2>4. p \in Operations /\ proc[p].pc # "idle" => op'[p].state # "none"
    BY DEF OccupancyInv, ProcTyped, OpKept
  <2> QED
    BY <2>1, <2>2, <2>3, <2>4, ProcessMoved DEF OccupancyInv, OpKept
<1> QED
  BY <1>1, <1>2

-----------------------------------------------------------------------------
(***************************************************************************)
(* HubSpot, and the reads of a process.                                    *)
(***************************************************************************)
LEMMA ProviderStep ==
  ASSUME OccupancyInv, NEW t \in Tickets, NEW v \in Version, Updated(t, v),
         UNCHANGED <<occ, op, agent, proc, scan>>, flight' \subseteq flight
  PROVE  OccupancyInv' /\ Advances
<1>1. Grows
  BY VersionGrows DEF OccupancyInv
<1>2. OpKept /\ FlightStarted' /\ ScanTyped'
  BY DEF OccupancyInv, OpKept, FlightStarted, ScanTyped
<1> QED
  BY <1>1, <1>2, ProcessesSame, Aside

LEMMA PersonStep ==
  ASSUME OccupancyInv, NEW t \in Tickets,
         PersonCloses(t) \/ \E o \in Owners : PersonAssigns(t, o)
  PROVE  OccupancyInv' /\ Advances
<1>1. Current(t) \in Version
  BY CurrentTyped DEF OccupancyInv
<1>2. UNCHANGED <<occ, op, agent, proc, scan, flight>>
  BY DEF PersonCloses, PersonAssigns
<1>3. CASE PersonCloses(t)
  <2>1. [Current(t) EXCEPT !.closed = TRUE] \in Version
    BY <1>1 DEF Version
  <2> QED
    BY <1>2, <1>3, <2>1, ProviderStep DEF PersonCloses
<1>4. ASSUME NEW o \in Owners, PersonAssigns(t, o) PROVE OccupancyInv' /\ Advances
  <2>1. [Current(t) EXCEPT !.owner = o] \in Version
    BY <1>1 DEF Version
  <2> QED
    BY <1>2, <1>4, <2>1, ProviderStep DEF PersonAssigns
<1> QED
  BY <1>3, <1>4

LEMMA Landed ==
  ASSUME OccupancyInv, NEW w \in Operations, Land(w) PROVE OccupancyInv' /\ Advances
<1>1. op[w].ticket \in Tickets /\ op[w].agent \in Owners
  BY OccupancyAssumption DEF Land, OccupancyInv, FlightStarted, OpTyped
<1>2. Current(op[w].ticket) \in Version
  BY <1>1, CurrentTyped DEF OccupancyInv
<1>3. [Current(op[w].ticket) EXCEPT !.owner = op[w].agent] \in Version
  BY <1>1, <1>2 DEF Version
<1> QED
  BY <1>1, <1>3, ProviderStep DEF Land

LEMMA Watched ==
  ASSUME OccupancyInv, NEW p \in Watchers, NEW t \in Tickets, Watch(p, t)
  PROVE  OccupancyInv' /\ Advances
<1> DEFINE to == [IdleProcess EXCEPT !.pc = "start", !.for = "watch", !.ticket = t]
<1>1. proc' = [proc EXCEPT ![p] = to] /\ UNCHANGED <<provider, occ, op, flight, agent, scan>>
  BY DEF Watch
<1>2. to \in Process /\ to.pc = "start" /\ to.ticket = t
  BY DEF IdleProcess, Process, Places
<1>3. Grows /\ OpKept /\ FlightStarted' /\ ScanTyped'
  BY <1>1, ProviderSame DEF OccupancyInv, OpKept, FlightStarted, ScanTyped
<1> HIDE DEF to
<1>4. ProcTyped'
  BY <1>1, <1>2, <1>3, Parts, Begun DEF OccupancyInv
<1> QED
  BY <1>1, <1>3, <1>4, Aside

LEMMA ConcernedAreAgents == \A t : Concerned(t) \subseteq Agents
  BY DEF Concerned

LEMMA Captured ==
  ASSUME OccupancyInv, NEW p \in Processes, Capture(p) PROVE OccupancyInv' /\ Advances
<1> DEFINE t == proc[p].ticket
           to == [proc[p] EXCEPT !.pc = "captured", !.rev = occ[t].rev,
                                 !.affected = Concerned(t)]
<1>1. proc' = [proc EXCEPT ![p] = to] /\ proc[p].pc = "start"
      /\ UNCHANGED <<provider, occ, op, flight, agent, scan>>
  BY DEF Capture
<1>2. proc[p] \in Process /\ t \in Tickets
  BY <1>1 DEF OccupancyInv, ProcTyped, Reads
<1>3. occ[t].rev \in Nat /\ Concerned(t) \subseteq Agents
  BY <1>2, ConcernedAreAgents DEF OccupancyInv, OccTyped, Occupancy
<1>4. to \in Process /\ to.pc = "captured" /\ to.ticket = t
  BY <1>2, <1>3 DEF Process, Places
<1>5. Grows /\ OpKept /\ FlightStarted' /\ ScanTyped'
  BY <1>1, ProviderSame DEF OccupancyInv, OpKept, FlightStarted, ScanTyped
<1>6. p \in Operations => op'[p].state # "none"
  BY <1>1 DEF OccupancyInv, ProcTyped
<1> HIDE DEF to
<1>7. ProcTyped'
  BY <1>1, <1>2, <1>4, <1>5, <1>6, ProcessMoved DEF OccupancyInv, OpKept
<1> QED
  BY <1>1, <1>5, <1>7, Aside

LEMMA ProviderRead ==
  ASSUME OccupancyInv, NEW p \in Processes, ReadProvider(p) PROVE OccupancyInv' /\ Advances
<1> DEFINE t == proc[p].ticket
<1>1. PICK v \in {Newest(t), Newest(t) - 1} \ {0} :
        proc' = [proc EXCEPT ![p] = [proc[p] EXCEPT !.pc = "read", !.read = v]]
  BY DEF ReadProvider
<1> DEFINE to == [proc[p] EXCEPT !.pc = "read", !.read = v]
<1>2. proc[p].pc = "captured" /\ UNCHANGED <<provider, occ, op, flight, agent, scan>>
  BY DEF ReadProvider
<1>3. proc[p] \in Process /\ t \in Tickets
  BY <1>2 DEF OccupancyInv, ProcTyped, Reads
<1>4. Len(provider[t]) \in Nat /\ Len(provider[t]) >= 1
  BY <1>3 DEF OccupancyInv, ProviderTyped, Newest
<1>5. v \in 1..Len(provider'[t]) /\ v \in Nat
  BY <1>1, <1>2, <1>4 DEF Newest
<1>6. to \in Process /\ to.pc = "read" /\ to.ticket = t /\ to.read = v
  BY <1>3, <1>5 DEF Process, Places
<1>7. Grows /\ OpKept /\ FlightStarted' /\ ScanTyped'
  BY <1>2, ProviderSame DEF OccupancyInv, OpKept, FlightStarted, ScanTyped
<1>8. p \in Operations => op'[p].state # "none"
  BY <1>2 DEF OccupancyInv, ProcTyped
<1> HIDE DEF to
<1>9. ProcTyped'
  BY <1>1, <1>3, <1>5, <1>6, <1>7, <1>8, ProcessMoved DEF OccupancyInv, OpKept, to
<1> QED
  BY <1>2, <1>7, <1>9, Aside

-----------------------------------------------------------------------------
(***************************************************************************)
(* A snapshot is applied: the owner it replaces, the owner it names and    *)
(* the agents of the holds it concludes are all materialized.              *)
(***************************************************************************)
LEMMA SnapshotTyped ==
  ASSUME OccupancyInv, NEW p \in Processes, proc[p].pc = "read"
  PROVE  proc[p].ticket \in Tickets /\ Snapshot(p) \in Version
<1>1. proc[p].ticket \in Tickets /\ proc[p].read \in 1..Len(provider[proc[p].ticket])
  BY DEF OccupancyInv, ProcTyped, Reads, Newest
<1>2. provider[proc[p].ticket] \in Seq(Version)
  BY <1>1 DEF OccupancyInv, ProviderTyped
<1> QED
  BY <1>1, <1>2 DEF Snapshot

LEMMA AppliedCounted ==
  ASSUME OccupancyInv, NEW p \in Processes, Apply(p), NEW b \in Agents \ Affected(p)
  PROVE  Counted(b)' = Counted(b)
<1> DEFINE t == proc[p].ticket
<1>1. /\ occ' = [occ EXCEPT ![t] = [state |-> StateOf(Snapshot(p)), owner |-> Snapshot(p).owner,
                                    at |-> proc[p].read, rev |-> occ[t].rev + 1]]
      /\ op' = [w \in Operations |-> IF w \in HeldOn(t)
                  THEN [op[w] EXCEPT !.hold = Concluded(w, Snapshot(p))] ELSE op[w]]
  BY DEF Apply
<1>2. t \in Tickets /\ occ \in [Tickets -> Occupancy] /\ op \in [Operations -> Operation]
  BY SnapshotTyped DEF Apply, OccupancyInv, OccTyped, OpTyped
<1>3. occ[t].owner # b /\ Snapshot(p).owner # b
      /\ \A w \in HeldOn(t) : op[w].agent # b
  BY DEF Affected, Met, Concerned
<1>4. occ'[t].owner # b /\ \A u \in Tickets \ {t} : occ'[u] = occ[u]
  BY <1>1, <1>2, <1>3
<1>5. \A w \in Operations : op'[w].agent = op[w].agent /\ op'[w].ticket = op[w].ticket
                             /\ (w \notin HeldOn(t) => op'[w] = op[w])
  BY <1>1, <1>2 DEF Operation
<1>6. {u \in Tickets : occ[u].state = "active" /\ occ[u].owner = b}'
        = {u \in Tickets : occ[u].state = "active" /\ occ[u].owner = b}
  BY <1>3, <1>4
<1>7. {v \in Operations : Held(v) /\ op[v].agent = b}'
        = {v \in Operations : Held(v) /\ op[v].agent = b}
  BY <1>3, <1>5 DEF Held
<1>8. {op[w].ticket : w \in {v \in Operations : Held(v) /\ op[v].agent = b}}'
        = {op[w].ticket : w \in {v \in Operations : Held(v) /\ op[v].agent = b}}
  BY <1>5, <1>7
<1> QED
  BY <1>6, <1>8 DEF Counted

LEMMA AppliedOp ==
  ASSUME OccupancyInv, NEW p \in Processes, Apply(p)
  PROVE  OpTyped' /\ OpKept /\ \A w \in Operations : op'[w].state = op[w].state
<1> DEFINE t == proc[p].ticket
<1>1. op' = [w \in Operations |-> IF w \in HeldOn(t)
                  THEN [op[w] EXCEPT !.hold = Concluded(w, Snapshot(p))] ELSE op[w]]
  BY DEF Apply
<1>2. ASSUME NEW w \in Operations
      PROVE  /\ op'[w] \in Operation /\ op'[w].state = op[w].state
             /\ op'[w].ticket = op[w].ticket /\ op'[w].agent = op[w].agent
             /\ op[w].state = "none" => op'[w].hold = "none"
  <2>1. op[w] \in Operation /\ (op[w].state = "none" => op[w].hold = "none")
    BY DEF OccupancyInv, OpTyped
  <2>2. Concluded(w, Snapshot(p)) \in {"none", "held", "converted", "released"}
    BY DEF Concluded
  <2>3. CASE w \in HeldOn(t)
    <3>1. op'[w] = [op[w] EXCEPT !.hold = Concluded(w, Snapshot(p))] /\ op[w].hold = "held"
      BY <1>1, <2>3 DEF HeldOn, Held
    <3> QED
      BY <2>1, <2>2, <3>1 DEF Operation
  <2>4. CASE w \notin HeldOn(t)
    BY <1>1, <2>1, <2>4
  <2> QED
    BY <2>3, <2>4
<1>3. op' \in [Operations -> Operation]
  BY <1>1, <1>2
<1> QED
  BY <1>2, <1>3 DEF OccupancyInv, OpTyped, OpKept

LEMMA Applied ==
  ASSUME OccupancyInv, NEW p \in Processes, Apply(p) PROVE OccupancyInv' /\ Advances
<1> DEFINE t == proc[p].ticket
           new == [state |-> StateOf(Snapshot(p)), owner |-> Snapshot(p).owner,
                   at |-> proc[p].read, rev |-> occ[t].rev + 1]
<1>1. /\ proc[p].pc = "read" /\ ~Outdated(p)
      /\ occ' = [occ EXCEPT ![t] = new] /\ agent' = Materialized(Affected(p))
      /\ UNCHANGED <<provider, flight>>
  BY DEF Apply, MaterializedAll
<1>2. t \in Tickets /\ Snapshot(p) \in Version /\ occ[t] \in Occupancy
      /\ proc[p] \in Process
  BY <1>1, SnapshotTyped DEF OccupancyInv, OccTyped, ProcTyped
<1>3. StateOf(Snapshot(p)) \in {"unknown", "active", "unassigned", "closed"}
  BY DEF StateOf
<1>4. new \in Occupancy /\ new.at = proc[p].read
  BY <1>2, <1>3 DEF Occupancy, Version, Process
<1> HIDE DEF new
<1>5. OccTyped'
  BY <1>1, <1>4 DEF OccupancyInv, OccTyped
<1>6. Advances
  <2>1. proc[p].read >= occ[t].at
    BY <1>1, <1>2 DEF Outdated, Occupancy, Process
  <2>2. ASSUME NEW u \in Tickets PROVE occ'[u].at >= occ[u].at
    <3>1. occ[u].at \in Nat
      BY DEF OccupancyInv, OccTyped, Occupancy
    <3>2. occ'[u] = IF u = t THEN new ELSE occ[u]
      BY <1>1 DEF OccupancyInv, OccTyped
    <3> QED
      BY <1>4, <2>1, <3>1, <3>2
  <2> QED
    BY <2>2 DEF Advances
<1>7. OpTyped' /\ OpKept /\ FlightStarted'
  BY <1>1, AppliedOp DEF OccupancyInv, FlightStarted
<1>8. AgentTyped' /\ CounterAgrees'
  BY <1>1, <1>7, AppliedCounted, MaterializedCounts DEF OccupancyInv
<1>9. Grows
  BY <1>1, ProviderSame DEF OccupancyInv
<1>10. ProcTyped'
  <2>1. CASE p \in Watchers
    BY <1>7, <1>9, <2>1, Left DEF Apply, OccupancyInv
  <2>2. CASE p \notin Watchers
    <3>1. PICK pc \in {"scanning", "observed"} : Enter(p, pc)
      BY <2>2 DEF Apply
    <3>2. pc \in Places /\ pc \notin {"start", "captured", "read"}
      BY <3>1 DEF Places
    <3> QED
      BY <1>1, <1>7, <1>9, <3>1, <3>2, Entered DEF OccupancyInv
  <2> QED
    BY <2>1, <2>2
<1>11. ScanTyped'
  <2>1. CASE p \in Scanners
    <3> DEFINE more == IF scan[p].agent \in Affected(p) THEN 1 ELSE 0
               walk == [scan[p] EXCEPT !.done = scan[p].done \cup {t},
                                       !.todo = scan[p].todo \ {t},
                                       !.tracker = scan[p].tracker + more]
    <3>1. scan' = [scan EXCEPT ![p] = walk]
      BY <2>1 DEF Apply, OccupancyInv, ScanTyped, Scan
    <3>2. scan[p] \in Scan /\ more \in Nat
      BY <2>1 DEF OccupancyInv, ScanTyped
    <3> HIDE DEF more
    <3>3. /\ scan[p].done \cup {t} \in SUBSET Tickets /\ scan[p].todo \ {t} \in SUBSET Tickets
          /\ scan[p].tracker + more \in Nat
      BY <1>2, <3>2 DEF Scan
    <3>4. walk \in Scan
      BY <3>2, <3>3 DEF Scan
    <3> QED
      BY <3>1, <3>4 DEF OccupancyInv, ScanTyped
  <2>2. CASE p \notin Scanners
    BY <2>2 DEF Apply, OccupancyInv, ScanTyped
  <2> QED
    BY <2>1, <2>2
<1> QED
  BY <1>5, <1>6, <1>7, <1>8, <1>9, <1>10, <1>11 DEF OccupancyInv, Grows

(***************************************************************************)
(* Steps that degrade agents, or only move an operation's state: no        *)
(* counter changes.                                                        *)
(***************************************************************************)
LEMMA Quiet ==
  ASSUME OccupancyInv, Grows, UNCHANGED occ, OpTyped', Same, AgentTyped',
         \A a \in Agents : agent'[a].count = agent[a].count,
         ProcTyped', ScanTyped', FlightStarted'
  PROVE  OccupancyInv' /\ Advances
<1>1. OccTyped' /\ Advances
  BY DEF OccupancyInv, OccTyped, Occupancy, Advances
<1>2. CounterAgrees'
  BY SameCounts DEF OccupancyInv
<1> QED
  BY <1>1, <1>2 DEF OccupancyInv, Grows

LEMMA OpSame ==
  ASSUME OccupancyInv, UNCHANGED <<occ, op>>
  PROVE  OpTyped' /\ OpKept /\ Same
  BY DEF OccupancyInv, OpTyped, OpKept, Same

LEMMA StateSet ==
  ASSUME OccupancyInv, UNCHANGED occ, NEW w \in Operations, op[w].state # "none",
         NEW state \in {"live", "retryable", "repair", "done"},
         op' = [op EXCEPT ![w].state = state]
  PROVE  OpTyped' /\ OpKept /\ Same
<1> DEFINE new == [op[w] EXCEPT !.state = state]
<1>1. op[w] \in Operation /\ op \in [Operations -> Operation]
  BY DEF OccupancyInv, OpTyped
<1>2. op' = [op EXCEPT ![w] = new]
  BY <1>1 DEF Operation
<1>3. new \in Operation /\ new.state = state /\ new.ticket = op[w].ticket
      /\ new.agent = op[w].agent /\ new.hold = op[w].hold
  BY <1>1 DEF Operation
<1> HIDE DEF new
<1>4. op' \in [Operations -> Operation] /\ op'[w] = new
      /\ \A v \in Operations \ {w} : op'[v] = op[v]
  BY <1>1, <1>2, <1>3
<1>5. \A v \in Operations : op'[v].hold = op[v].hold /\ op'[v].agent = op[v].agent
                             /\ op'[v].ticket = op[v].ticket
  BY <1>3, <1>4
<1>6. OpKept
  BY <1>3, <1>4 DEF OpKept
<1>7. OpTyped'
  BY <1>3, <1>4, <1>5 DEF OccupancyInv, OpTyped
<1> QED
  BY <1>5, <1>6, <1>7 DEF Same

LEMMA Refused ==
  ASSUME OccupancyInv, NEW p \in Processes, Refuse(p) PROVE OccupancyInv' /\ Advances
<1>1. UNCHANGED <<provider, occ, op, flight, scan>> /\ proc[p].pc \in {"captured", "read"}
  BY DEF Refuse
<1>2. PICK as : agent' = Degraded(as)
  BY DEF Refuse
<1>3. AgentTyped' /\ \A a \in Agents : agent'[a].count = agent[a].count
  BY <1>2, DegradedCounts DEF OccupancyInv
<1>4. Grows /\ OpTyped' /\ OpKept /\ Same /\ ScanTyped' /\ FlightStarted'
  BY <1>1, ProviderSame, OpSame DEF OccupancyInv, ScanTyped, FlightStarted
<1>5. ProcTyped'
  <2>1. CASE p \in Watchers
    BY <1>4, <2>1, Left DEF Refuse, OccupancyInv
  <2>2. CASE p \notin Watchers
    <3>1. PICK pc \in {"conflict", "refused"} : Enter(p, pc)
      BY <2>2 DEF Refuse
    <3>2. pc \in Places /\ pc \notin {"start", "captured", "read"}
      BY <3>1 DEF Places
    <3> QED
      BY <1>1, <1>4, <3>1, <3>2, Entered DEF OccupancyInv
  <2> QED
    BY <2>1, <2>2
<1> QED
  BY <1>1, <1>3, <1>4, <1>5, Quiet

-----------------------------------------------------------------------------
(***************************************************************************)
(* Holds are taken and released under the agent they concern: no other     *)
(* counter depends on them.                                                *)
(***************************************************************************)
LEMMA OthersCounted ==
  ASSUME NEW w \in Operations, NEW b,
         \A t \in Tickets : occ'[t].state = occ[t].state /\ occ'[t].owner = occ[t].owner,
         \A v \in Operations \ {w} : op'[v] = op[v],
         ~(Held(w) /\ op[w].agent = b), ~(Held(w)' /\ op'[w].agent = b)
  PROVE  Counted(b)' = Counted(b)
<1>1. {u \in Tickets : occ[u].state = "active" /\ occ[u].owner = b}'
        = {u \in Tickets : occ[u].state = "active" /\ occ[u].owner = b}
  OBVIOUS
<1>2. {v \in Operations : Held(v) /\ op[v].agent = b}'
        = {v \in Operations : Held(v) /\ op[v].agent = b}
  BY DEF Held
<1>3. w \notin {v \in Operations : Held(v) /\ op[v].agent = b}
  OBVIOUS
<1>4. {op[v].ticket : v \in {v \in Operations : Held(v) /\ op[v].agent = b}}'
        = {op[v].ticket : v \in {v \in Operations : Held(v) /\ op[v].agent = b}}
  BY <1>2, <1>3
<1> QED
  BY <1>1, <1>4 DEF Counted

LEMMA HoldTaken ==
  ASSUME OccupancyInv, NEW w \in Operations, NEW t \in Tickets, NEW a \in Agents,
         ~Held(w), Hold(w, t, a)
  PROVE  /\ OccTyped' /\ OpTyped' /\ AgentTyped' /\ CounterAgrees' /\ Advances
         /\ OpKept /\ op'[w].state # "none"
<1> DEFINE new == [state |-> "live", ticket |-> t, agent |-> a, hold |-> "held"]
           seen == [occ[t] EXCEPT !.rev = occ[t].rev + 1]
<1>1. op' = [op EXCEPT ![w] = new] /\ agent' = Materialized({a})
      /\ occ' = [occ EXCEPT ![t].rev = @ + 1]
  BY DEF Hold
<1>2. op \in [Operations -> Operation] /\ occ \in [Tickets -> Occupancy]
      /\ occ[t] \in Occupancy
  BY DEF OccupancyInv, OpTyped, OccTyped
<1>3. occ' = [occ EXCEPT ![t] = seen]
  BY <1>1, <1>2 DEF Occupancy
<1>4. occ[t].rev + 1 \in Nat
  BY <1>2 DEF Occupancy
<1>5. seen \in Occupancy /\ seen.state = occ[t].state /\ seen.owner = occ[t].owner
      /\ seen.at = occ[t].at
  BY <1>2, <1>4 DEF Occupancy
<1> HIDE DEF seen
<1>6. occ' \in [Tickets -> Occupancy]
      /\ \A u \in Tickets : /\ occ'[u].state = occ[u].state /\ occ'[u].owner = occ[u].owner
                             /\ occ'[u].at = occ[u].at
  BY <1>2, <1>3, <1>5
<1>7. OccTyped' /\ Advances
  BY <1>2, <1>6 DEF OccTyped, Occupancy, Advances
<1>8. new \in Operation /\ new.state = "live" /\ new.agent = a /\ new.ticket = t
  BY DEF Operation
<1> HIDE DEF new
<1>9. op' \in [Operations -> Operation] /\ op'[w] = new
      /\ \A v \in Operations \ {w} : op'[v] = op[v]
  BY <1>1, <1>2, <1>8
<1>10. OpTyped' /\ OpKept
  BY <1>8, <1>9 DEF OccupancyInv, OpTyped, OpKept
<1>11. \A b \in Agents \ {a} : Counted(b)' = Counted(b)
  <2> TAKE b \in Agents \ {a}
  <2>1. op'[w].agent # b
    BY <1>8, <1>9
  <2> QED
    BY <1>6, <1>9, <2>1, OthersCounted
<1>12. AgentTyped' /\ CounterAgrees'
  BY <1>1, <1>10, <1>11, MaterializedCounts DEF OccupancyInv
<1> QED
  BY <1>7, <1>8, <1>9, <1>10, <1>12

(***************************************************************************)
(* Reserve, ReserveTransfer and Retry: an operation takes a hold and its   *)
(* process goes on, where "to" is what the process does next.              *)
(***************************************************************************)
LEMMA HoldStep ==
  ASSUME OccupancyInv, NEW w \in Operations, NEW t \in Tickets, NEW a \in Agents,
         ~Held(w), Hold(w, t, a), NEW to \in Process, to.pc \in {"start", "patch"},
         to.ticket = t, proc' = [proc EXCEPT ![w] = to]
  PROVE  OccupancyInv' /\ Advances
<1>1. UNCHANGED <<provider, flight, scan>>
  BY DEF Hold
<1>2. /\ OccTyped' /\ OpTyped' /\ AgentTyped' /\ CounterAgrees' /\ Advances
      /\ OpKept /\ op'[w].state # "none"
  BY HoldTaken
<1>3. Grows /\ ScanTyped' /\ FlightStarted'
  BY <1>1, <1>2, ProviderSame DEF OccupancyInv, ScanTyped, FlightStarted, OpKept
<1>4. ProcTyped'
  BY <1>2, <1>3, Parts, Begun DEF OccupancyInv
<1> QED
  BY <1>2, <1>3, <1>4 DEF OccupancyInv, Grows

LEMMA StartTyped ==
  ASSUME NEW for \in {"precondition", "readback"}, NEW t \in Tickets
  PROVE  LET to == [IdleProcess EXCEPT !.pc = "start", !.for = for, !.ticket = t]
         IN  to \in Process /\ to.pc = "start" /\ to.ticket = t
  BY DEF IdleProcess, Process, Places

LEMMA Reserved ==
  ASSUME OccupancyInv, NEW w \in Operations, NEW t \in Tickets, NEW a \in Agents,
         Reserve(w, t, a) \/ ReserveTransfer(w, t, a)
  PROVE  OccupancyInv' /\ Advances
<1>1. ~Held(w)
  BY DEF Reserve, ReserveTransfer, OccupancyInv, OpTyped, Held
<1>2. CASE Reserve(w, t, a)
  <2> DEFINE to == [IdleProcess EXCEPT !.pc = "start", !.for = "precondition", !.ticket = t]
  <2>1. Hold(w, t, a) /\ proc' = [proc EXCEPT ![w] = to]
    BY <1>2 DEF Reserve, Starts
  <2>2. to \in Process /\ to.pc = "start" /\ to.ticket = t
    BY StartTyped
  <2> HIDE DEF to
  <2> QED
    BY <1>1, <2>1, <2>2, HoldStep
<1>3. CASE ReserveTransfer(w, t, a)
  <2> DEFINE to == [IdleProcess EXCEPT !.pc = "patch", !.ticket = t]
  <2>1. Hold(w, t, a) /\ proc' = [proc EXCEPT ![w] = to]
    BY <1>3 DEF ReserveTransfer
  <2>2. to \in Process /\ to.pc = "patch" /\ to.ticket = t
    BY DEF IdleProcess, Process, Places
  <2> HIDE DEF to
  <2> QED
    BY <1>1, <2>1, <2>2, HoldStep
<1> QED
  BY <1>2, <1>3

LEMMA Retried ==
  ASSUME OccupancyInv, NEW w \in Operations, Retry(w) PROVE OccupancyInv' /\ Advances
<1> DEFINE t == op[w].ticket
           to == [IdleProcess EXCEPT !.pc = "start", !.for = "precondition", !.ticket = t]
<1>1. t \in Tickets /\ op[w].agent \in Agents /\ ~Held(w)
  BY DEF Retry, OccupancyInv, OpTyped, Held
<1>2. Hold(w, t, op[w].agent) /\ proc' = [proc EXCEPT ![w] = to]
  BY DEF Retry, Starts
<1>3. to \in Process /\ to.pc = "start" /\ to.ticket = t
  BY <1>1, StartTyped
<1> HIDE DEF to
<1> QED
  BY <1>1, <1>2, <1>3, HoldStep

(***************************************************************************)
(* The ends of an attempt.                                                 *)
(***************************************************************************)
LEMMA Compensated ==
  ASSUME OccupancyInv, NEW w \in Operations, op[w].state # "none",
         NEW state \in {"retryable", "done"}, Compensate(w, state)
  PROVE  OccupancyInv' /\ Advances
<1> DEFINE new == [op[w] EXCEPT !.state = state, !.hold = ReleasedHold(w)]
<1>1. op' = [op EXCEPT ![w] = new] /\ UNCHANGED <<provider, occ, flight, scan>>
      /\ agent' = Materialized({op[w].agent}) /\ Leave(w)
  BY DEF Compensate
<1>2. op[w] \in Operation /\ op \in [Operations -> Operation]
  BY DEF OccupancyInv, OpTyped
<1>3. ReleasedHold(w) \in {"none", "converted", "released"}
  BY <1>2 DEF ReleasedHold, Held, Operation
<1>4. new \in Operation /\ new.state = state /\ new.ticket = op[w].ticket
      /\ new.agent = op[w].agent
  BY <1>2, <1>3 DEF Operation
<1> HIDE DEF new
<1>5. op' \in [Operations -> Operation] /\ op'[w] = new
      /\ \A v \in Operations \ {w} : op'[v] = op[v]
  BY <1>1, <1>2, <1>4
<1>6. OpTyped' /\ OpKept
  BY <1>4, <1>5 DEF OccupancyInv, OpTyped, OpKept
<1>7. \A b \in Agents \ {op[w].agent} : Counted(b)' = Counted(b)
  <2> TAKE b \in Agents \ {op[w].agent}
  <2>1. op'[w].agent # b /\ op[w].agent # b
    BY <1>4, <1>5
  <2> QED
    BY <1>1, <1>5, <2>1, OthersCounted
<1>8. AgentTyped' /\ CounterAgrees'
  BY <1>1, <1>6, <1>7, MaterializedCounts DEF OccupancyInv
<1>9. Grows /\ ScanTyped' /\ FlightStarted' /\ OccTyped' /\ Advances
  BY <1>1, <1>6, ProviderSame
     DEF OccupancyInv, ScanTyped, FlightStarted, OpKept, OccTyped, Occupancy, Advances
<1>10. ProcTyped'
  BY <1>1, <1>6, <1>9, Parts, Left DEF OccupancyInv
<1> QED
  BY <1>6, <1>8, <1>9, <1>10 DEF OccupancyInv, Grows

LEMMA StateMoved ==
  ASSUME OccupancyInv, NEW w \in Operations, op[w].state # "none",
         NEW state \in {"live", "retryable", "repair", "done"},
         op' = [op EXCEPT ![w].state = state], UNCHANGED <<provider, occ, scan>>,
         Leave(w), agent' = agent \/ \E as : agent' = Degraded(as),
         flight' \subseteq flight \cup {w}
  PROVE  OccupancyInv' /\ Advances
<1>1. OpTyped' /\ OpKept /\ Same
  BY StateSet
<1>2. AgentTyped' /\ \A a \in Agents : agent'[a].count = agent[a].count
  <2>1. CASE agent' = agent
    BY <2>1 DEF OccupancyInv, AgentTyped
  <2>2. ASSUME NEW as, agent' = Degraded(as)
        PROVE  AgentTyped' /\ \A a \in Agents : agent'[a].count = agent[a].count
    BY <2>2, DegradedCounts DEF OccupancyInv
  <2> QED
    BY <2>1, <2>2
<1>3. Grows /\ ScanTyped' /\ FlightStarted'
  BY <1>1, ProviderSame DEF OccupancyInv, ScanTyped, FlightStarted, OpKept
<1>4. ProcTyped'
  BY <1>1, <1>3, Parts, Left DEF OccupancyInv
<1> QED
  BY <1>1, <1>2, <1>3, <1>4, Quiet

LEMMA AttemptStep ==
  ASSUME OccupancyInv, NEW w \in Operations, Attempt(w) PROVE OccupancyInv' /\ Advances
<1>1. proc[w].pc \in {"observed", "refused"}
  BY DEF Attempt, At, PreconditionFails, PreconditionStops, PreconditionConfirms,
         PreconditionAllows, ReadbackFails, ReadbackStops, ReadbackConfirms, ReadbackDiffers
<1>2. op[w].state # "none"
  BY <1>1 DEF OccupancyInv, ProcTyped
<1>3. CASE \E state \in {"retryable", "done"} : Compensate(w, state)
  BY <1>2, <1>3, Compensated
<1>4. CASE Unresolved(w)
  BY <1>2, <1>4, StateMoved DEF Unresolved
<1>5. CASE Finalize(w)
  <2>1. PICK state \in {"done", "repair"} : op' = [op EXCEPT ![w].state = state]
    BY <1>5 DEF Finalize
  <2> QED
    BY <1>2, <1>5, <2>1, StateMoved DEF Finalize
<1>6. CASE Enter(w, "patch") /\ UNCHANGED <<provider, occ, op, flight, agent, scan>>
  <2>1. Grows /\ OpKept /\ ScanTyped' /\ FlightStarted'
    BY <1>6, ProviderSame, OpSame DEF OccupancyInv, ScanTyped, FlightStarted
  <2>2. "patch" \in Places
    BY DEF Places
  <2>3. ProcTyped'
    BY <1>1, <1>6, <2>1, <2>2, Parts, Entered DEF OccupancyInv
  <2> QED
    BY <1>6, <2>1, <2>3, Aside
<1>7. \/ \E state \in {"retryable", "done"} : Compensate(w, state)
      \/ Unresolved(w) \/ Finalize(w)
      \/ Enter(w, "patch") /\ UNCHANGED <<provider, occ, op, flight, agent, scan>>
  BY DEF Attempt, PreconditionFails, PreconditionStops, PreconditionConfirms,
         PreconditionAllows, ReadbackFails, ReadbackStops, ReadbackConfirms, ReadbackDiffers
<1> QED
  BY <1>3, <1>4, <1>5, <1>6, <1>7

LEMMA TransferEnded ==
  ASSUME OccupancyInv, NEW w \in Operations, TransferEnds(w) PROVE OccupancyInv' /\ Advances
<1>1. op[w].state # "none"
  BY DEF TransferEnds, OccupancyInv, ProcTyped
<1>2. op' = [op EXCEPT ![w].state = "done"] /\ Leave(w)
      /\ UNCHANGED <<provider, occ, flight, scan>>
      /\ (agent' = agent \/ \E as : agent' = Degraded(as))
  BY DEF TransferEnds
<1> QED
  BY <1>1, <1>2, StateMoved

LEMMA Crashed ==
  ASSUME OccupancyInv, NEW w \in Operations, Crash(w) PROVE OccupancyInv' /\ Advances
<1>1. op[w].state # "none"
  BY DEF Crash, OccupancyInv, ProcTyped
<1>2. PICK state \in {"repair", "done"} : op' = [op EXCEPT ![w].state = state]
  BY DEF Crash
<1>3. Leave(w) /\ UNCHANGED <<provider, occ, agent, scan>> /\ flight' \subseteq flight \cup {w}
  BY DEF Crash
<1> QED
  BY <1>1, <1>2, <1>3, StateMoved

LEMMA Patched ==
  ASSUME OccupancyInv, NEW w \in Operations, Patch(w) PROVE OccupancyInv' /\ Advances
<1> DEFINE t == op[w].ticket
           to(rejected) == [IdleProcess EXCEPT !.pc = "start", !.for = "readback",
                                               !.ticket = t, !.rejected = rejected]
<1>1. op[w].state # "none"
  BY DEF Patch, OccupancyInv, ProcTyped
<1>2. t \in Tickets /\ op[w].agent \in Owners \cup {Nobody}
  BY <1>1, OccupancyAssumption DEF OccupancyInv, OpTyped
<1>3. UNCHANGED <<occ, op, agent, scan>> /\ flight' \subseteq flight \cup {w}
  BY DEF Patch
<1>4. Updated(t, [Current(t) EXCEPT !.owner = op[w].agent]) \/ UNCHANGED provider
  BY DEF Patch
<1>5. [Current(t) EXCEPT !.owner = op[w].agent] \in Version
  BY <1>2, CurrentTyped DEF OccupancyInv, Version
<1>6. Grows
  BY <1>2, <1>4, <1>5, VersionGrows, ProviderSame DEF OccupancyInv
<1>7. OpKept /\ ScanTyped' /\ FlightStarted'
  BY <1>1, <1>3, OpSame DEF OccupancyInv, ScanTyped, FlightStarted
<1>8. PICK rejected \in BOOLEAN : proc' = [proc EXCEPT ![w] = to(rejected)]
  BY DEF Patch
<1>9. to(rejected) \in Process /\ to(rejected).pc = "start" /\ to(rejected).ticket = t
  BY <1>2 DEF IdleProcess, Process, Places
<1> HIDE DEF to
<1>10. ProcTyped'
  BY <1>1, <1>2, <1>3, <1>6, <1>7, <1>8, <1>9, Parts, Begun DEF OccupancyInv
<1> QED
  BY <1>3, <1>6, <1>7, <1>10, Aside

LEMMA Repaired ==
  ASSUME OccupancyInv, NEW w \in Operations, Repair(w) PROVE OccupancyInv' /\ Advances
<1> DEFINE t == op[w].ticket
           to == [IdleProcess EXCEPT !.pc = "start", !.for = "readback", !.ticket = t]
<1>1. op[w].state # "none" /\ t \in Tickets
  BY DEF Repair, OccupancyInv, OpTyped
<1>2. proc' = [proc EXCEPT ![w] = to] /\ UNCHANGED <<provider, occ, op, flight, agent, scan>>
  BY DEF Repair, Starts
<1>3. to \in Process /\ to.pc = "start" /\ to.ticket = t
  BY <1>1, StartTyped
<1> HIDE DEF to
<1>4. Grows /\ OpKept /\ ScanTyped' /\ FlightStarted'
  BY <1>2, ProviderSame, OpSame DEF OccupancyInv, ScanTyped, FlightStarted
<1>5. ProcTyped'
  BY <1>1, <1>2, <1>3, <1>4, Parts, Begun DEF OccupancyInv
<1> QED
  BY <1>2, <1>4, <1>5, Aside

(***************************************************************************)
(* The scans.                                                              *)
(***************************************************************************)
LEMMA CountedAreTickets == ASSUME OpTyped, NEW a PROVE Counted(a) \subseteq Tickets
  BY DEF OpTyped, Counted, Held

LEMMA ScanStep ==
  ASSUME OccupancyInv, NEW s \in Scanners, NEW walk \in Scan,
         scan' = [scan EXCEPT ![s] = walk], UNCHANGED <<provider, occ, op, flight, agent>>,
         NEW pc \in Places, pc \notin {"start", "captured", "read"}, Enter(s, pc)
  PROVE  OccupancyInv' /\ Advances
<1>1. Grows /\ OpKept /\ FlightStarted'
  BY ProviderSame, OpSame DEF OccupancyInv, FlightStarted
<1>2. ScanTyped'
  BY DEF OccupancyInv, ScanTyped
<1>3. ProcTyped'
  BY <1>1, Parts, Entered DEF OccupancyInv
<1> QED
  BY <1>1, <1>2, <1>3, Aside

LEMMA ScanStarted ==
  ASSUME OccupancyInv, NEW s \in Scanners, NEW a \in Agents, ScanStart(s, a)
  PROVE  OccupancyInv' /\ Advances
<1> DEFINE walk == [agent |-> a, todo |-> {}, done |-> {}, tracker |-> agent[a].rev]
<1>1. walk \in Scan
  BY DEF OccupancyInv, AgentTyped, Scan
<1>2. "listing" \in Places
  BY DEF Places
<1>3. scan' = [scan EXCEPT ![s] = walk] /\ Enter(s, "listing")
      /\ UNCHANGED <<provider, occ, op, flight, agent>>
  BY DEF ScanStart
<1> HIDE DEF walk
<1> QED
  BY <1>1, <1>2, <1>3, ScanStep

LEMMA ScanListed ==
  ASSUME OccupancyInv, NEW s \in Scanners, ScanList(s) PROVE OccupancyInv' /\ Advances
<1> DEFINE a == scan[s].agent
           todo == {t \in Tickets : ~Current(t).closed /\ Current(t).owner = a} \cup Counted(a)
           walk == [scan[s] EXCEPT !.todo = todo]
<1>1. scan[s] \in Scan /\ scan \in [Scanners -> Scan]
  BY DEF OccupancyInv, ScanTyped
<1>2. todo \subseteq Tickets
  BY CountedAreTickets DEF OccupancyInv
<1>3. scan' = [scan EXCEPT ![s].todo = todo] /\ Enter(s, "scanning")
      /\ UNCHANGED <<provider, occ, op, flight, agent>>
  BY DEF ScanList
<1> HIDE DEF todo
<1>4. walk \in Scan
  BY <1>1, <1>2 DEF Scan
<1>5. scan' = [scan EXCEPT ![s] = walk]
  BY <1>1, <1>3 DEF Scan
<1>6. "scanning" \in Places
  BY DEF Places
<1> HIDE DEF walk
<1> QED
  BY <1>3, <1>4, <1>5, <1>6, ScanStep

LEMMA ScanMoved ==
  ASSUME OccupancyInv, NEW s \in Scanners, ScanNext(s) PROVE OccupancyInv' /\ Advances
<1>1. PICK t \in scan[s].todo :
        proc' = [proc EXCEPT ![s] = [IdleProcess EXCEPT !.pc = "start", !.for = "scan", !.ticket = t]]
  BY DEF ScanNext
<1> DEFINE to == [IdleProcess EXCEPT !.pc = "start", !.for = "scan", !.ticket = t]
<1>2. t \in Tickets
  BY DEF OccupancyInv, ScanTyped, Scan
<1>3. to \in Process /\ to.pc = "start" /\ to.ticket = t
  BY <1>2 DEF IdleProcess, Process, Places
<1>4. UNCHANGED <<provider, occ, op, flight, agent, scan>>
  BY DEF ScanNext
<1>5. Grows /\ OpKept /\ ScanTyped' /\ FlightStarted'
  BY <1>4, ProviderSame, OpSame DEF OccupancyInv, ScanTyped, FlightStarted
<1>6. proc' = [proc EXCEPT ![s] = to]
  BY <1>1
<1> HIDE DEF to
<1>7. ProcTyped'
  BY <1>2, <1>3, <1>5, <1>6, Parts, Begun DEF OccupancyInv
<1> QED
  BY <1>4, <1>5, <1>7, Aside

LEMMA ScanEnded ==
  ASSUME OccupancyInv, NEW s \in Scanners, ScanEnd(s) PROVE OccupancyInv' /\ Advances
<1> DEFINE a == scan[s].agent
<1>1. UNCHANGED <<provider, occ, op, flight>> /\ Leave(s) /\ scan' = [scan EXCEPT ![s] = IdleScan]
  BY DEF ScanEnd
<1>2. IdleScan \in Scan
  BY DEF IdleScan, Scan
<1>3. Grows /\ OpTyped' /\ OpKept /\ Same /\ FlightStarted' /\ ScanTyped'
  BY <1>1, <1>2, ProviderSame, OpSame DEF OccupancyInv, FlightStarted, ScanTyped
<1>4. ProcTyped'
  BY <1>1, <1>3, Parts, Left DEF OccupancyInv
<1>5. AgentTyped' /\ \A b \in Agents : agent'[b].count = agent[b].count
  <2>1. CASE agent' = Degraded({a})
    BY <2>1, DegradedCounts DEF OccupancyInv
  <2>2. CASE agent' = [agent EXCEPT ![a].ready = TRUE]
    <3>1. \A b \in Agents : agent'[b] = IF b = a THEN [agent[b] EXCEPT !.ready = TRUE] ELSE agent[b]
      BY <2>2 DEF OccupancyInv, AgentTyped
    <3>2. agent' = [b \in Agents |-> agent'[b]]
      BY <2>2 DEF OccupancyInv, AgentTyped
    <3>3. ASSUME NEW b \in Agents
          PROVE  agent'[b] \in [count : Nat, rev : Nat, ready : BOOLEAN]
                 /\ agent'[b].count = agent[b].count
      <4>1. agent[b] \in [count : Nat, rev : Nat, ready : BOOLEAN]
        BY DEF OccupancyInv, AgentTyped
      <4>2. CASE b = a
        BY <3>1, <4>1, <4>2
      <4>3. CASE b # a
        BY <3>1, <4>1, <4>3
      <4> QED
        BY <4>2, <4>3
    <3> QED
      BY <3>2, <3>3 DEF AgentTyped
  <2> QED
    BY <2>1, <2>2 DEF ScanEnd
<1> QED
  BY <1>1, <1>3, <1>4, <1>5, Quiet

-----------------------------------------------------------------------------
(***************************************************************************)
(* The initial states, where nothing is counted, and every step.           *)
(***************************************************************************)
LEMMA OccupancyInitially == Init => OccupancyInv
<1> SUFFICES ASSUME Init PROVE OccupancyInv
  OBVIOUS
<1>1. ProviderTyped
  <2>1. <<[owner |-> Nobody, closed |-> FALSE]>> \in Seq(Version)
        /\ Len(<<[owner |-> Nobody, closed |-> FALSE]>>) = 1
    BY DEF Version
  <2> QED
    BY <2>1 DEF Init, ProviderTyped, Newest
<1>2. OccTyped /\ OpTyped /\ AgentTyped /\ ScanTyped /\ FlightStarted
  BY DEF Init, OccTyped, Occupancy, OpTyped, Operation, NoOperation, AgentTyped,
         ScanTyped, Scan, IdleScan, FlightStarted
<1>3. ProcTyped
  <2>1. \A p \in Processes : proc[p] = IdleProcess
    BY DEF Init
  <2> QED
    BY <2>1, IdleTyped, Parts DEF Init, ProcTyped, Reads
<1>4. CounterAgrees
  <2>1. \A a \in Agents : Counted(a) = {}
    BY DEF Init, Counted, Held, NoOperation
  <2>2. Cardinality({}) = 0
    BY FS_EmptySet
  <2> QED
    BY <2>1, <2>2 DEF Init, CounterAgrees, CapacityCount
<1> QED
  BY <1>1, <1>2, <1>3, <1>4 DEF OccupancyInv

LEMMA OccupancyStep == OccupancyInv /\ [Next]_vars => OccupancyInv' /\ Advances
<1> SUFFICES ASSUME OccupancyInv, [Next]_vars PROVE OccupancyInv' /\ Advances
  OBVIOUS
<1>1. ASSUME NEW t \in Tickets, PersonCloses(t) \/ \E o \in Owners : PersonAssigns(t, o)
      PROVE  OccupancyInv' /\ Advances
  BY <1>1, PersonStep
<1>2. ASSUME NEW p \in Processes, Reconcile(p) PROVE OccupancyInv' /\ Advances
  BY <1>2, Captured, ProviderRead, Applied, Refused DEF Reconcile
<1>3. ASSUME NEW p \in Watchers, NEW t \in Tickets, Watch(p, t) PROVE OccupancyInv' /\ Advances
  BY <1>3, Watched
<1>4. ASSUME NEW w \in Operations,
             \/ Land(w) \/ Patch(w) \/ Crash(w) \/ TransferEnds(w)
             \/ Attempt(w) \/ Retry(w) \/ Repair(w)
      PROVE  OccupancyInv' /\ Advances
  BY <1>4, Landed, Patched, Crashed, TransferEnded, AttemptStep, Retried, Repaired
<1>5. ASSUME NEW w \in Operations, NEW t \in Tickets, NEW a \in Agents,
             Reserve(w, t, a) \/ ReserveTransfer(w, t, a)
      PROVE  OccupancyInv' /\ Advances
  BY <1>5, Reserved
<1>6. ASSUME NEW s \in Scanners,
             ScanList(s) \/ ScanNext(s) \/ ScanEnd(s) \/ \E a \in Agents : ScanStart(s, a)
      PROVE  OccupancyInv' /\ Advances
  BY <1>6, ScanListed, ScanMoved, ScanEnded, ScanStarted
<1>7. CASE UNCHANGED vars
  <2>1. Grows /\ OpKept /\ ScanTyped' /\ FlightStarted' /\ UNCHANGED <<occ, op, agent, proc>>
    BY <1>7, ProviderSame, OpSame DEF vars, OccupancyInv, ScanTyped, FlightStarted
  <2> QED
    BY <2>1, ProcessesSame, Aside
<1> QED
  BY <1>1, <1>2, <1>3, <1>4, <1>5, <1>6, <1>7 DEF Next

LEMMA OccupancyInvariant == Spec => []OccupancyInv
  BY OccupancyInitially, OccupancyStep, PTL DEF Spec

(***************************************************************************)
(* The counter of every agent is the number of its tickets, whoever writes *)
(* it and in which order, for any number of tickets, agents and writers.   *)
(***************************************************************************)
THEOREM CountersAgree == Spec => []CounterAgrees
<1>1. OccupancyInv => CounterAgrees
  BY DEF OccupancyInv
<1> QED
  BY <1>1, OccupancyInvariant, PTL

(***************************************************************************)
(* No occupancy goes back to an older version of its ticket.               *)
(***************************************************************************)
THEOREM VersionsAdvance == Spec => ObservationsAdvance
<1>1. OccupancyInv /\ [Next]_vars => [\A t \in Tickets : occ'[t].at >= occ[t].at]_vars
  BY OccupancyStep DEF Advances
<1> QED
  BY <1>1, OccupancyInvariant, PTL DEF Spec, ObservationsAdvance

-----------------------------------------------------------------------------
(***************************************************************************)
(* The hold of a PATCH that may still land.  A closed ticket is never      *)
(* opened again; an operation at work is live or in repair, on its ticket; *)
(* a PATCH on its way is not one that was rejected, and its operation is   *)
(* neither before its PATCH nor to be tried again; and only a closed       *)
(* ticket takes the hold of an operation that is at work or on its way.    *)
(***************************************************************************)
NoReopening == \A t \in Tickets : \A i \in 1..Newest(t) :
    provider[t][i].closed => Current(t).closed

AtWork(w) ==
    /\ proc[w].pc # "idle" => /\ op[w].state \in {"live", "repair"}
                              /\ proc[w].ticket = op[w].ticket
    /\ proc[w].pc = "observed" => proc[w].read \in 1..Newest(proc[w].ticket)

OnItsWay(w) == w \in flight =>
    /\ op[w].state \in {"live", "repair", "done"}
    /\ proc[w].pc # "patch" /\ proc[w].for # "precondition" /\ ~proc[w].rejected

HoldKept(w) ==
    (op[w].state \in {"live", "repair"} \/ w \in flight) /\ op[w].hold = "released"
        => Current(op[w].ticket).closed

HoldsInv ==
    /\ OccupancyInv
    /\ flight \subseteq Operations
    /\ NoReopening
    /\ \A w \in Operations : AtWork(w) /\ OnItsWay(w) /\ HoldKept(w)

(***************************************************************************)
(* A closed ticket stays closed, whoever changes it.                       *)
(***************************************************************************)
ClosedNext(t) == provider'[t][Len(provider'[t])].closed

Onward ==
    /\ NoReopening' /\ Grows
    /\ \A t \in Tickets : Current(t).closed => ClosedNext(t)

LEMMA OnwardSame == ASSUME ProviderTyped, NoReopening, UNCHANGED provider PROVE Onward
<1>1. Grows
  BY ProviderSame
<1> QED
  BY <1>1 DEF Onward, ClosedNext, NoReopening, Current, Newest

LEMMA OnwardUpdated ==
  ASSUME ProviderTyped, NoReopening, NEW t \in Tickets, NEW v \in Version, Updated(t, v),
         Current(t).closed => v.closed
  PROVE  Onward
<1>1. Grows
  BY VersionGrows
<1>2. provider' = [provider EXCEPT ![t] = Append(provider[t], v)]
  BY DEF Updated
<1>3. provider'[t] = Append(provider[t], v)
      /\ \A u \in Tickets \ {t} : provider'[u] = provider[u]
  BY <1>2 DEF ProviderTyped
<1>4. provider[t] \in Seq(Version) /\ Len(provider[t]) \in Nat /\ Len(provider[t]) >= 1
  BY DEF ProviderTyped, Newest
<1>5. Len(provider'[t]) = Len(provider[t]) + 1 /\ provider'[t][Len(provider[t]) + 1] = v
      /\ \A i \in 1..Len(provider[t]) : provider'[t][i] = provider[t][i]
  BY <1>3, <1>4
<1>6. Current(t)' = v
  BY <1>5 DEF Current, Newest
<1>7. \A u \in Tickets \ {t} : Current(u)' = Current(u) /\ Newest(u)' = Newest(u)
  BY <1>3 DEF Current, Newest
<1>8. ASSUME NEW i \in 1..Len(provider'[t]), provider'[t][i].closed PROVE v.closed
  <2>1. CASE i \in 1..Len(provider[t])
    BY <1>5, <1>8, <2>1 DEF NoReopening, Newest
  <2>2. CASE i = Len(provider[t]) + 1
    BY <1>5, <1>8, <2>2
  <2> QED
    BY <1>4, <1>5, <1>8, <2>1, <2>2
<1>9. NoReopening'
  <2> SUFFICES ASSUME NEW u \in Tickets, NEW i \in 1..Newest(u)', provider'[u][i].closed
               PROVE  Current(u)'.closed
    BY DEF NoReopening
  <2>1. CASE u = t
    BY <1>6, <1>8, <2>1 DEF Newest
  <2>2. CASE u # t
    BY <1>3, <1>7, <2>2 DEF NoReopening
  <2> QED
    BY <2>1, <2>2
<1> QED
  BY <1>1, <1>3, <1>5, <1>9 DEF Onward, ClosedNext, Current, Newest

LEMMA OwnerSet ==
  ASSUME ProviderTyped, NoReopening, NEW t \in Tickets, NEW o \in Owners \cup {Nobody},
         Updated(t, [Current(t) EXCEPT !.owner = o])
  PROVE  Onward
<1>1. Current(t) \in Version
  BY CurrentTyped
<1>2. [Current(t) EXCEPT !.owner = o] \in Version
      /\ [Current(t) EXCEPT !.owner = o].closed = Current(t).closed
  BY <1>1 DEF Version
<1> QED
  BY <1>2, OnwardUpdated

(***************************************************************************)
(* An operation that a step does not move keeps its promises, unless the   *)
(* step finds its ticket closed.                                           *)
(***************************************************************************)
LEMMA Bystander ==
  ASSUME HoldsInv, Onward, NEW w \in Operations, proc'[w] = proc[w],
         w \in flight' => w \in flight,
         op'[w].state = op[w].state, op'[w].ticket = op[w].ticket,
         op'[w].hold = "released" =>
            op[w].hold = "released" \/ ClosedNext(op[w].ticket)
  PROVE  AtWork(w)' /\ OnItsWay(w)' /\ HoldKept(w)'
<1>1. OccupancyInv /\ AtWork(w) /\ OnItsWay(w) /\ HoldKept(w)
  BY DEF HoldsInv
<1>2. op[w].state # "none" => op[w].ticket \in Tickets
  BY <1>1 DEF OccupancyInv, OpTyped
<1>3. OnItsWay(w)'
  BY <1>1 DEF OnItsWay
<1>4. HoldKept(w)'
  <2> SUFFICES ASSUME op'[w].state \in {"live", "repair"} \/ w \in flight',
                      op'[w].hold = "released"
               PROVE  ClosedNext(op[w].ticket)
    BY DEF HoldKept, Current, Newest, ClosedNext
  <2>1. op[w].ticket \in Tickets
    BY <1>1, <1>2 DEF OnItsWay
  <2>2. CASE op[w].hold = "released"
    <3>1. Current(op[w].ticket).closed
      BY <1>1, <2>2 DEF HoldKept
    <3> QED
      BY <2>1, <3>1 DEF Onward
  <2> QED
    BY <2>2
<1>5. AtWork(w)'
  <2>1. ASSUME proc[w].pc = "observed" PROVE proc[w].read \in 1..Newest(proc[w].ticket)'
    <3>1. proc[w].ticket \in Tickets /\ proc[w].read \in 1..Len(provider[proc[w].ticket])
      BY <1>1, <1>2, <2>1 DEF AtWork, Newest
    <3>2. Len(provider[proc[w].ticket]) \in Nat /\ Len(provider'[proc[w].ticket]) \in Nat
          /\ Len(provider'[proc[w].ticket]) >= Len(provider[proc[w].ticket])
      BY <3>1 DEF Onward, Grows
    <3> QED
      BY <3>1, <3>2 DEF Newest
  <2> QED
    BY <1>1, <2>1 DEF AtWork
<1> QED
  BY <1>3, <1>4, <1>5

(***************************************************************************)
(* Steps that concern one operation, and steps that concern none.          *)
(***************************************************************************)
LEMMA OneMoves ==
  ASSUME HoldsInv, OccupancyInv', Onward, NEW w \in Operations,
         flight' \subseteq flight \cup {w},
         \A v \in Operations \ {w} : proc'[v] = proc[v] /\ op'[v] = op[v],
         AtWork(w)', OnItsWay(w)', HoldKept(w)'
  PROVE  HoldsInv'
<1>1. \A v \in Operations \ {w} : AtWork(v)' /\ OnItsWay(v)' /\ HoldKept(v)'
  BY Bystander
<1> QED
  BY <1>1 DEF HoldsInv, Onward

LEMMA NoneMoves ==
  ASSUME HoldsInv, OccupancyInv', Onward, flight' \subseteq flight,
         \A v \in Operations : proc'[v] = proc[v] /\ op'[v] = op[v]
  PROVE  HoldsInv'
<1>1. \A v \in Operations : AtWork(v)' /\ OnItsWay(v)' /\ HoldKept(v)'
  BY Bystander
<1> QED
  BY <1>1 DEF HoldsInv, Onward

LEMMA HoldsPerson ==
  ASSUME HoldsInv, OccupancyInv', NEW t \in Tickets,
         PersonCloses(t) \/ \E o \in Owners : PersonAssigns(t, o)
  PROVE  HoldsInv'
<1>1. ProviderTyped /\ NoReopening
  BY DEF HoldsInv, OccupancyInv
<1>2. UNCHANGED <<op, proc, flight>>
  BY DEF PersonCloses, PersonAssigns
<1>3. CASE PersonCloses(t)
  <2>1. [Current(t) EXCEPT !.closed = TRUE] \in Version
        /\ [Current(t) EXCEPT !.closed = TRUE].closed
    BY <1>1, CurrentTyped DEF Version
  <2>2. Onward
    BY <1>1, <1>3, <2>1, OnwardUpdated DEF PersonCloses
  <2> QED
    BY <1>2, <2>2, NoneMoves
<1>4. ASSUME NEW o \in Owners, PersonAssigns(t, o) PROVE HoldsInv'
  <2>1. Onward
    BY <1>1, <1>4, OwnerSet DEF PersonAssigns
  <2> QED
    BY <1>2, <2>1, NoneMoves
<1> QED
  BY <1>3, <1>4

LEMMA HoldsLand ==
  ASSUME HoldsInv, OccupancyInv', NEW w \in Operations, Land(w) PROVE HoldsInv'
<1>1. op[w].ticket \in Tickets /\ op[w].agent \in Owners \cup {Nobody}
  BY OccupancyAssumption DEF Land, HoldsInv, OccupancyInv, FlightStarted, OpTyped
<1>2. Onward
  BY <1>1, OwnerSet DEF Land, HoldsInv, OccupancyInv
<1> QED
  BY <1>2, NoneMoves DEF Land

(***************************************************************************)
(* An operation that reads its ticket, or goes on to its PATCH.            *)
(***************************************************************************)
LEMMA GoesOn ==
  ASSUME HoldsInv, OccupancyInv', UNCHANGED <<provider, op, flight>>, NEW w \in Operations,
         \A v \in Operations \ {w} : proc'[v] = proc[v],
         proc[w].pc # "idle", proc'[w].ticket = proc[w].ticket, proc'[w].for = proc[w].for,
         proc'[w].rejected = proc[w].rejected, proc'[w].pc # "observed",
         proc'[w].pc = "patch" => w \notin flight
  PROVE  HoldsInv'
<1>1. Onward
  BY OnwardSame DEF HoldsInv, OccupancyInv
<1>2. AtWork(w) /\ OnItsWay(w) /\ HoldKept(w)
  BY DEF HoldsInv
<1>3. AtWork(w)' /\ OnItsWay(w)'
  BY <1>2 DEF AtWork, OnItsWay
<1>4. HoldKept(w)'
  BY <1>2 DEF HoldKept, Current, Newest
<1> QED
  BY <1>1, <1>3, <1>4, OneMoves

LEMMA ProcMap == ASSUME HoldsInv PROVE /\ proc \in [Processes -> Process]
                                       /\ op \in [Operations -> Operation]
  BY DEF HoldsInv, OccupancyInv, ProcTyped, OpTyped

LEMMA EnterOne ==
  ASSUME HoldsInv, NEW p \in Processes, NEW pc, Enter(p, pc)
  PROVE  /\ proc'[p].pc = pc /\ proc'[p].ticket = proc[p].ticket /\ proc'[p].for = proc[p].for
         /\ proc'[p].rejected = proc[p].rejected /\ proc'[p].read = proc[p].read
         /\ \A v \in Processes \ {p} : proc'[v] = proc[v]
  BY ProcMap DEF Enter, Process

LEMMA LeaveOne ==
  ASSUME HoldsInv, NEW p \in Processes, Leave(p)
  PROVE  proc'[p] = IdleProcess /\ \A v \in Processes \ {p} : proc'[v] = proc[v]
  BY ProcMap DEF Leave

LEMMA HoldsReconcile ==
  ASSUME HoldsInv, OccupancyInv', NEW p \in Processes,
         Capture(p) \/ ReadProvider(p) \/ Refuse(p)
  PROVE  HoldsInv'
<1>1. UNCHANGED <<provider, op, flight>> /\ proc[p].pc \in {"start", "captured", "read"}
  BY DEF Capture, ReadProvider, Refuse
<1>2. Onward
  BY <1>1, OnwardSame DEF HoldsInv, OccupancyInv
<1>3. \A v \in Processes \ {p} : proc'[v] = proc[v]
  <2>1. CASE Capture(p) \/ ReadProvider(p)
    BY <2>1, ProcMap DEF Capture, ReadProvider
  <2>2. CASE Refuse(p)
    BY <2>2, EnterOne, LeaveOne DEF Refuse
  <2> QED
    BY <2>1, <2>2
<1>4. CASE p \notin Operations
  BY <1>1, <1>2, <1>3, <1>4, Parts, NoneMoves
<1>5. CASE p \in Operations
  <2>1. /\ proc'[p].ticket = proc[p].ticket /\ proc'[p].for = proc[p].for
        /\ proc'[p].rejected = proc[p].rejected
        /\ proc'[p].pc \in {"captured", "read", "refused"}
    <3>1. proc[p] \in Process
      BY ProcMap
    <3>2. CASE Capture(p)
      BY <3>1, <3>2, ProcMap DEF Capture, Process
    <3>3. CASE ReadProvider(p)
      <4>1. PICK v : proc' = [proc EXCEPT ![p] = [proc[p] EXCEPT !.pc = "read", !.read = v]]
        BY <3>3 DEF ReadProvider
      <4> QED
        BY <3>1, <4>1, ProcMap DEF Process
    <3>4. CASE Refuse(p)
      <4>1. Enter(p, "refused")
        BY <1>5, <3>4, Parts DEF Refuse
      <4> QED
        BY <4>1, EnterOne
    <3> QED
      BY <3>2, <3>3, <3>4
  <2> QED
    BY <1>1, <1>3, <1>5, <2>1, Parts, GoesOn
<1> QED
  BY <1>4, <1>5

(***************************************************************************)
(* A snapshot: the holds it releases are those of a closed ticket.         *)
(***************************************************************************)
LEMMA SeenClosed ==
  ASSUME HoldsInv, NEW p, NEW t \in Tickets, proc[p].ticket = t,
         proc[p].read \in 1..Newest(t), Snapshot(p).closed
  PROVE  Current(t).closed
  BY DEF HoldsInv, NoReopening, Snapshot

LEMMA HoldsApply ==
  ASSUME HoldsInv, OccupancyInv', NEW p \in Processes, Apply(p) PROVE HoldsInv'
<1> DEFINE t == proc[p].ticket
<1>1. proc[p].pc = "read" /\ UNCHANGED <<provider, flight>>
  BY DEF Apply
<1>2. OccupancyInv /\ Onward
  BY <1>1, OnwardSame DEF HoldsInv, OccupancyInv
<1>3. t \in Tickets /\ proc[p].read \in 1..Newest(t)
  BY <1>1, <1>2 DEF OccupancyInv, ProcTyped, Reads
<1>4. ASSUME NEW w \in Operations
      PROVE  /\ op'[w].state = op[w].state /\ op'[w].ticket = op[w].ticket
             /\ op'[w].hold = "released" =>
                    op[w].hold = "released" \/ ClosedNext(op[w].ticket)
  <2>1. op[w] \in Operation
    BY <1>2 DEF OccupancyInv, OpTyped
  <2>2. op'[w] = IF w \in HeldOn(t)
                    THEN [op[w] EXCEPT !.hold = Concluded(w, Snapshot(p))] ELSE op[w]
    BY DEF Apply
  <2>3. CASE w \in HeldOn(t)
    <3>1. op'[w].state = op[w].state /\ op'[w].ticket = op[w].ticket
          /\ op'[w].hold = Concluded(w, Snapshot(p)) /\ op[w].ticket = t
      BY <2>1, <2>2, <2>3 DEF Operation, HeldOn
    <3>2. Concluded(w, Snapshot(p)) = "released" => Snapshot(p).closed
      BY DEF Concluded, StateOf
    <3>3. Snapshot(p).closed => ClosedNext(t)
      BY <1>2, <1>3, SeenClosed DEF Onward
    <3> QED
      BY <3>1, <3>2, <3>3
  <2>4. CASE w \notin HeldOn(t)
    BY <2>2, <2>4
  <2> QED
    BY <2>3, <2>4
<1>5. /\ \A v \in Processes \ {p} : proc'[v] = proc[v]
      /\ p \in Operations => /\ proc'[p].pc = "observed" /\ proc'[p].ticket = t
                             /\ proc'[p].for = proc[p].for /\ proc'[p].read = proc[p].read
                             /\ proc'[p].rejected = proc[p].rejected
  <2>1. CASE p \in Watchers
    BY <2>1, LeaveOne, Parts DEF Apply
  <2>2. CASE p \notin Watchers
    <3>1. PICK pc : Enter(p, pc) /\ (p \in Operations => pc = "observed")
      BY <2>2, Parts DEF Apply
    <3> QED
      BY <3>1, EnterOne
  <2> QED
    BY <2>1, <2>2
<1>6. \A v \in Operations \ {p} : AtWork(v)' /\ OnItsWay(v)' /\ HoldKept(v)'
  BY <1>1, <1>2, <1>4, <1>5, Parts, Bystander
<1>7. ASSUME p \in Operations PROVE AtWork(p)' /\ OnItsWay(p)' /\ HoldKept(p)'
  <2>1. AtWork(p) /\ OnItsWay(p) /\ HoldKept(p)
    BY <1>7 DEF HoldsInv
  <2>2. op'[p].state \in {"live", "repair"} /\ op'[p].ticket = t /\ op[p].ticket = t
    BY <1>1, <1>4, <1>7, <2>1 DEF AtWork
  <2>3. AtWork(p)'
    BY <1>1, <1>3, <1>5, <1>7, <2>2 DEF AtWork, Newest
  <2>4. OnItsWay(p)'
    BY <1>1, <1>4, <1>5, <1>7, <2>1 DEF OnItsWay
  <2>5. op'[p].hold = "released" => ClosedNext(t)
    <3>1. op[p].hold = "released" => Current(t).closed
      BY <1>1, <1>7, <2>1 DEF AtWork, HoldKept
    <3> QED
      BY <1>2, <1>3, <1>4, <1>7, <2>2, <3>1 DEF Onward
  <2>6. HoldKept(p)'
    BY <2>2, <2>5 DEF HoldKept, ClosedNext, Current, Newest
  <2> QED
    BY <2>3, <2>4, <2>6
<1> QED
  BY <1>1, <1>2, <1>6, <1>7 DEF HoldsInv, Onward

(***************************************************************************)
(* An operation that is done, or that leaves its ticket to a repair.       *)
(***************************************************************************)
LEMMA Leaves ==
  ASSUME HoldsInv, OccupancyInv', UNCHANGED provider, NEW w \in Operations, Leave(w),
         \A v \in Operations \ {w} : op'[v] = op[v],
         op'[w].ticket = op[w].ticket,
         flight' \subseteq flight \cup {w},
         w \in flight' => op'[w].state \in {"live", "repair", "done"},
         (op'[w].state \in {"live", "repair"} \/ w \in flight') /\ op'[w].hold = "released"
            => Current(op[w].ticket).closed
  PROVE  HoldsInv'
<1>1. Onward
  BY OnwardSame DEF HoldsInv, OccupancyInv
<1>2. proc'[w] = IdleProcess /\ \A v \in Operations \ {w} : proc'[v] = proc[v]
  BY LeaveOne, Parts
<1>3. AtWork(w)' /\ OnItsWay(w)'
  BY <1>2 DEF AtWork, OnItsWay, IdleProcess
<1>4. HoldKept(w)'
  BY DEF HoldKept, Current, Newest
<1> QED
  BY <1>1, <1>2, <1>3, <1>4, OneMoves

LEMMA HoldsStateMoved ==
  ASSUME HoldsInv, OccupancyInv', UNCHANGED provider, NEW w \in Operations, Leave(w),
         proc[w].pc # "idle", NEW state \in {"repair", "done"},
         op' = [op EXCEPT ![w].state = state], flight' \subseteq flight \cup {w}
  PROVE  HoldsInv'
<1>1. AtWork(w) /\ HoldKept(w)
  BY DEF HoldsInv
<1>2. op[w].state \in {"live", "repair"}
  BY <1>1 DEF AtWork
<1>3. /\ op'[w].state = state /\ op'[w].ticket = op[w].ticket /\ op'[w].hold = op[w].hold
      /\ \A v \in Operations \ {w} : op'[v] = op[v]
  BY ProcMap DEF Operation
<1>4. op[w].hold = "released" => Current(op[w].ticket).closed
  BY <1>1, <1>2 DEF HoldKept
<1> QED
  BY <1>3, <1>4, Leaves

LEMMA HoldsCompensated ==
  ASSUME HoldsInv, OccupancyInv', NEW w \in Operations, NEW state \in {"retryable", "done"},
         Compensate(w, state),
         w \in flight => state = "done" /\ Current(op[w].ticket).closed
  PROVE  HoldsInv'
<1>1. UNCHANGED <<provider, flight>> /\ Leave(w)
  BY DEF Compensate
<1>2. /\ op'[w].state = state /\ op'[w].ticket = op[w].ticket
      /\ \A v \in Operations \ {w} : op'[v] = op[v]
  BY ProcMap DEF Compensate, Operation
<1> QED
  BY <1>1, <1>2, Leaves

LEMMA HoldsAttempt ==
  ASSUME HoldsInv, OccupancyInv', NEW w \in Operations, Attempt(w) PROVE HoldsInv'
<1>1. AtWork(w) /\ OnItsWay(w)
  BY DEF HoldsInv
<1>2. proc[w].pc # "idle"
  BY DEF Attempt, At, PreconditionFails, PreconditionStops, PreconditionConfirms,
         PreconditionAllows, ReadbackFails, ReadbackStops, ReadbackConfirms, ReadbackDiffers
<1>3. CASE PreconditionFails(w) \/ PreconditionStops(w)
  <2>1. w \notin flight
    BY <1>1, <1>3 DEF PreconditionFails, PreconditionStops, At, OnItsWay
  <2>2. PICK state \in {"retryable", "done"} : Compensate(w, state)
    BY <1>3 DEF PreconditionFails, PreconditionStops
  <2> QED
    BY <2>1, <2>2, HoldsCompensated
<1>4. CASE ReadbackStops(w)
  <2>1. w \in flight => Snapshot(w).closed
    BY <1>1, <1>4 DEF ReadbackStops, NoEffect, OnItsWay
  <2>2. proc[w].ticket = op[w].ticket /\ proc[w].read \in 1..Newest(op[w].ticket)
    BY <1>1, <1>2, <1>4 DEF ReadbackStops, At, AtWork
  <2>3. op[w].ticket \in Tickets
    BY <1>1, <1>2 DEF HoldsInv, OccupancyInv, OpTyped, AtWork
  <2>4. w \in flight => Current(op[w].ticket).closed
    BY <2>1, <2>2, <2>3, SeenClosed
  <2> QED
    BY <1>4, <2>4, HoldsCompensated DEF ReadbackStops
<1>5. CASE PreconditionConfirms(w) \/ ReadbackConfirms(w)
  <2>1. Finalize(w)
    BY <1>5 DEF PreconditionConfirms, ReadbackConfirms
  <2>2. PICK state \in {"done", "repair"} : op' = [op EXCEPT ![w].state = state]
    BY <2>1 DEF Finalize
  <2>3. Leave(w) /\ UNCHANGED <<provider, flight>>
    BY <2>1 DEF Finalize
  <2> QED
    BY <1>2, <2>2, <2>3, HoldsStateMoved
<1>6. CASE ReadbackFails(w) \/ ReadbackDiffers(w)
  BY <1>2, <1>6, HoldsStateMoved DEF ReadbackFails, ReadbackDiffers, Unresolved
<1>7. CASE PreconditionAllows(w)
  <2>1. w \notin flight
    BY <1>1, <1>7 DEF PreconditionAllows, At, OnItsWay
  <2>2. Enter(w, "patch") /\ UNCHANGED <<provider, op, flight>>
    BY <1>7 DEF PreconditionAllows
  <2>3. /\ proc'[w].pc = "patch" /\ proc'[w].ticket = proc[w].ticket
        /\ proc'[w].for = proc[w].for /\ proc'[w].rejected = proc[w].rejected
        /\ \A v \in Operations \ {w} : proc'[v] = proc[v]
    BY <2>2, EnterOne, Parts
  <2> QED
    BY <1>2, <2>1, <2>2, <2>3, GoesOn
<1> QED
  BY <1>3, <1>4, <1>5, <1>6, <1>7 DEF Attempt

LEMMA HoldsEnded ==
  ASSUME HoldsInv, OccupancyInv', NEW w \in Operations, TransferEnds(w) \/ Crash(w)
  PROVE  HoldsInv'
<1>1. /\ proc[w].pc # "idle" /\ Leave(w) /\ UNCHANGED provider
      /\ flight' \subseteq flight \cup {w}
  BY DEF TransferEnds, Crash
<1>2. PICK state \in {"repair", "done"} : op' = [op EXCEPT ![w].state = state]
  BY DEF TransferEnds, Crash
<1> QED
  BY <1>1, <1>2, HoldsStateMoved

(***************************************************************************)
(* An operation that takes a hold has no PATCH on its way.                 *)
(***************************************************************************)
LEMMA HoldsTaken ==
  ASSUME HoldsInv, OccupancyInv', NEW w \in Operations, NEW t \in Tickets, NEW a \in Agents,
         \/ Reserve(w, t, a) \/ ReserveTransfer(w, t, a)
         \/ Retry(w) /\ t = op[w].ticket /\ a = op[w].agent
  PROVE  HoldsInv'
<1>1. Hold(w, t, a) /\ op[w].state \in {"none", "retryable"}
  BY DEF Reserve, ReserveTransfer, Retry
<1>2. UNCHANGED <<provider, flight>> /\ w \notin flight
  BY <1>1 DEF Hold, HoldsInv, OnItsWay
<1>3. Onward
  BY <1>2, OnwardSame DEF HoldsInv, OccupancyInv
<1>4. /\ op'[w].state = "live" /\ op'[w].ticket = t /\ op'[w].hold = "held"
      /\ \A v \in Operations \ {w} : op'[v] = op[v]
  BY <1>1, ProcMap DEF Hold
<1>5. /\ proc'[w].pc \in {"start", "patch"} /\ proc'[w].ticket = t
      /\ \A v \in Operations \ {w} : proc'[v] = proc[v]
  BY ZenonT(60), ProcMap, Parts DEF Reserve, ReserveTransfer, Retry, Starts, IdleProcess
<1>6. AtWork(w)' /\ OnItsWay(w)' /\ HoldKept(w)'
  BY <1>2, <1>4, <1>5 DEF AtWork, OnItsWay, HoldKept
<1> QED
  BY <1>2, <1>3, <1>4, <1>5, <1>6, OneMoves

LEMMA HoldsPatch ==
  ASSUME HoldsInv, OccupancyInv', NEW w \in Operations, Patch(w) \/ Repair(w)
  PROVE  HoldsInv'
<1> DEFINE t == op[w].ticket
<1>1. UNCHANGED op
  BY DEF Patch, Repair
<1>2. AtWork(w) /\ OnItsWay(w) /\ HoldKept(w) /\ ProviderTyped /\ NoReopening
  BY DEF HoldsInv, OccupancyInv
<1>3. op[w].state \in {"live", "repair"}
  BY <1>2 DEF Patch, Repair, AtWork
<1>4. t \in Tickets /\ op[w].agent \in Owners \cup {Nobody}
  BY <1>3, OccupancyAssumption DEF HoldsInv, OccupancyInv, OpTyped
<1>5. Updated(t, [Current(t) EXCEPT !.owner = op[w].agent]) \/ UNCHANGED provider
  BY DEF Patch, Repair
<1>6. Onward
  BY <1>2, <1>4, <1>5, OwnerSet, OnwardSame
<1>7. /\ proc'[w].pc = "start" /\ proc'[w].ticket = t /\ proc'[w].for = "readback"
      /\ proc'[w].rejected => w \notin flight'
      /\ \A v \in Operations \ {w} : proc'[v] = proc[v]
      /\ flight' \subseteq flight \cup {w}
  <2>1. CASE Patch(w)
    BY ZenonT(60), <1>2, <2>1, ProcMap, Parts DEF Patch, IdleProcess, OnItsWay
  <2>2. CASE Repair(w)
    BY <2>2, ProcMap, Parts DEF Repair, Starts, IdleProcess
  <2> QED
    BY <2>1, <2>2
<1>8. op[w].hold = "released" => ClosedNext(t)
  BY <1>2, <1>3, <1>4, <1>6 DEF HoldKept, Onward
<1>9. AtWork(w)' /\ OnItsWay(w)' /\ HoldKept(w)'
  BY <1>1, <1>3, <1>7, <1>8 DEF AtWork, OnItsWay, HoldKept, ClosedNext, Current, Newest
<1> QED
  BY <1>1, <1>6, <1>7, <1>9, OneMoves

LEMMA HoldsOthers ==
  ASSUME HoldsInv, OccupancyInv',
         \/ \E p \in Watchers, t \in Tickets : Watch(p, t)
         \/ \E s \in Scanners : \/ ScanList(s) \/ ScanNext(s) \/ ScanEnd(s)
                                \/ \E a \in Agents : ScanStart(s, a)
  PROVE  HoldsInv'
<1>1. UNCHANGED <<provider, op, flight>>
  BY DEF Watch, ScanList, ScanNext, ScanEnd, ScanStart
<1>2. \A w \in Operations : proc'[w] = proc[w]
  <2> TAKE w \in Operations
  <2>1. CASE \E p \in Watchers, t \in Tickets : Watch(p, t)
    BY <2>1, ProcMap, Parts DEF Watch
  <2>2. ASSUME NEW s \in Scanners, ScanNext(s) PROVE proc'[w] = proc[w]
    BY <2>2, ProcMap, Parts DEF ScanNext
  <2>3. ASSUME NEW s \in Scanners, ScanList(s) \/ ScanEnd(s) \/ \E a \in Agents : ScanStart(s, a)
        PROVE  proc'[w] = proc[w]
    <3>1. Leave(s) \/ \E pc : Enter(s, pc)
      BY <2>3 DEF ScanList, ScanEnd, ScanStart
    <3> QED
      BY <3>1, LeaveOne, EnterOne, Parts
  <2> QED
    BY <2>1, <2>2, <2>3
<1>3. Onward
  BY <1>1, OnwardSame DEF HoldsInv, OccupancyInv
<1> QED
  BY <1>1, <1>2, <1>3, NoneMoves

LEMMA HoldsInitially == Init => HoldsInv
<1> SUFFICES ASSUME Init PROVE HoldsInv
  OBVIOUS
<1>1. OccupancyInv
  BY OccupancyInitially
<1>2. \A t \in Tickets : provider[t] = <<[owner |-> Nobody, closed |-> FALSE]>>
  BY DEF Init
<1>3. NoReopening
  <2> SUFFICES ASSUME NEW t \in Tickets, NEW i \in 1..Newest(t), provider[t][i].closed
               PROVE  FALSE
    BY DEF NoReopening
  <2>1. i = 1
    BY <1>2 DEF Newest
  <2> QED
    BY <1>2, <2>1
<1>4. \A w \in Operations : AtWork(w) /\ OnItsWay(w) /\ HoldKept(w)
  BY Parts DEF Init, NoOperation, IdleProcess, AtWork, OnItsWay, HoldKept
<1> QED
  BY <1>1, <1>3, <1>4 DEF Init, HoldsInv

LEMMA HoldsStep == HoldsInv /\ [Next]_vars => HoldsInv'
<1> SUFFICES ASSUME HoldsInv, [Next]_vars PROVE HoldsInv'
  OBVIOUS
<1>1. OccupancyInv'
  BY OccupancyStep DEF HoldsInv
<1>2. ASSUME NEW t \in Tickets, PersonCloses(t) \/ \E o \in Owners : PersonAssigns(t, o)
      PROVE  HoldsInv'
  BY <1>1, <1>2, HoldsPerson
<1>3. ASSUME NEW p \in Processes, Reconcile(p) PROVE HoldsInv'
  BY <1>1, <1>3, HoldsReconcile, HoldsApply DEF Reconcile
<1>4. ASSUME NEW w \in Operations,
             \/ Land(w) \/ Patch(w) \/ Crash(w) \/ TransferEnds(w)
             \/ Attempt(w) \/ Repair(w)
      PROVE  HoldsInv'
  BY <1>1, <1>4, HoldsLand, HoldsPatch, HoldsEnded, HoldsAttempt
<1>5. ASSUME NEW w \in Operations, Retry(w) PROVE HoldsInv'
  <2>1. op[w].ticket \in Tickets /\ op[w].agent \in Agents
    BY <1>5 DEF Retry, HoldsInv, OccupancyInv, OpTyped
  <2> QED
    BY <1>1, <1>5, <2>1, HoldsTaken
<1>6. ASSUME NEW w \in Operations, NEW t \in Tickets, NEW a \in Agents,
             Reserve(w, t, a) \/ ReserveTransfer(w, t, a)
      PROVE  HoldsInv'
  BY <1>1, <1>6, HoldsTaken
<1>7. CASE \/ \E p \in Watchers, t \in Tickets : Watch(p, t)
           \/ \E s \in Scanners : \/ ScanList(s) \/ ScanNext(s) \/ ScanEnd(s)
                                  \/ \E a \in Agents : ScanStart(s, a)
  BY <1>1, <1>7, HoldsOthers
<1>8. CASE UNCHANGED vars
  <2>1. Onward
    BY <1>8, OnwardSame DEF vars, HoldsInv, OccupancyInv
  <2> QED
    BY <1>1, <1>8, <2>1, NoneMoves DEF vars
<1> QED
  BY <1>2, <1>3, <1>4, <1>5, <1>6, <1>7, <1>8 DEF Next

LEMMA HoldsInvariant == Spec => []HoldsInv
  BY HoldsInitially, HoldsStep, PTL DEF Spec

(***************************************************************************)
(* The hold of a PATCH that may still land is not released while its       *)
(* ticket is open, whatever is read, rejected, repaired or tried again     *)
(* meanwhile.                                                              *)
(***************************************************************************)
THEOREM HoldsOutliveTheirPatch == Spec => []FlightIsHeld
<1>1. HoldsInv => FlightIsHeld
  BY DEF HoldsInv, HoldKept, FlightIsHeld
<1> QED
  BY <1>1, HoldsInvariant, PTL

-----------------------------------------------------------------------------
(***************************************************************************)
(* What a scan has read.  The generation of an agent moves whenever its    *)
(* tickets do, and the tracker of a scan with the reads of that scan: when *)
(* they agree, every ticket that counts for the agent was read or is still *)
(* to be read.                                                             *)
(***************************************************************************)
Follows(s) == LET a == scan[s].agent IN
    proc[s].pc # "idle" =>
        /\ a \in Agents /\ scan[s].tracker <= agent[a].rev
        /\ proc[s].pc \notin {"listing", "conflict"} /\ scan[s].tracker = agent[a].rev
              => Counted(a) \subseteq scan[s].todo \cup scan[s].done

ScansInv == OccupancyInv /\ \A s \in Scanners : Follows(s)

Tracked == \A a \in Agents :
    \/ agent'[a].rev = agent[a].rev /\ Counted(a)' = Counted(a)
    \/ agent'[a].rev = agent[a].rev + 1

LEMMA TrackedSame == ASSUME Same, UNCHANGED agent PROVE Tracked
  BY SameCounted DEF Tracked

LEMMA DegradedRev ==
  ASSUME OccupancyInv, NEW as, agent' = Degraded(as), NEW a \in Agents
  PROVE  agent'[a].rev = IF a \in as THEN agent[a].rev + 1 ELSE agent[a].rev
<1>1. agent[a] \in [count : Nat, rev : Nat, ready : BOOLEAN]
  BY DEF OccupancyInv, AgentTyped
<1>2. agent'[a] = IF a \in as
            THEN [agent[a] EXCEPT !.ready = FALSE, !.rev = agent[a].rev + 1] ELSE agent[a]
  BY DEF Degraded
<1>3. CASE a \in as
  BY <1>1, <1>2, <1>3
<1>4. CASE a \notin as
  BY <1>2, <1>4
<1> QED
  BY <1>3, <1>4

LEMMA TrackedDegraded == ASSUME OccupancyInv, Same, NEW as, agent' = Degraded(as) PROVE Tracked
  BY SameCounted, DegradedRev DEF Tracked

LEMMA MaterializedRev ==
  ASSUME OccupancyInv, NEW as, agent' = Materialized(as), NEW a \in Agents
  PROVE  agent'[a].rev = IF a \in as THEN agent[a].rev + 1 ELSE agent[a].rev
<1>1. agent[a] \in [count : Nat, rev : Nat, ready : BOOLEAN]
  BY DEF OccupancyInv, AgentTyped
<1>2. agent'[a] = IF a \in as
            THEN [agent[a] EXCEPT !.count = CapacityCount(a)', !.rev = agent[a].rev + 1]
            ELSE agent[a]
  BY DEF Materialized
<1>3. CASE a \in as
  BY <1>1, <1>2, <1>3
<1>4. CASE a \notin as
  BY <1>2, <1>4
<1> QED
  BY <1>3, <1>4

LEMMA TrackedMaterialized ==
  ASSUME OccupancyInv, NEW as, agent' = Materialized(as),
         \A a \in Agents \ as : Counted(a)' = Counted(a)
  PROVE  Tracked
  BY MaterializedRev DEF Tracked

(***************************************************************************)
(* Every step of the system is tracked.                                    *)
(***************************************************************************)
LEMMA TrackedReconcile ==
  ASSUME OccupancyInv, NEW p \in Processes, Reconcile(p) PROVE Tracked
<1>1. CASE Capture(p) \/ ReadProvider(p)
  <2>1. UNCHANGED <<occ, op, agent>>
    BY <1>1 DEF Capture, ReadProvider
  <2> QED
    BY <2>1, OpSame, TrackedSame
<1>2. CASE Apply(p)
  <2>1. agent' = Materialized(Affected(p))
    BY <1>2 DEF Apply, MaterializedAll
  <2> QED
    BY <1>2, <2>1, AppliedCounted, TrackedMaterialized
<1>3. CASE Refuse(p)
  <2>1. UNCHANGED <<occ, op>> /\ \E as : agent' = Degraded(as)
    BY <1>3 DEF Refuse
  <2> QED
    BY <2>1, OpSame, TrackedDegraded
<1> QED
  BY <1>1, <1>2, <1>3 DEF Reconcile

LEMMA TrackedHold ==
  ASSUME OccupancyInv, NEW w \in Operations, NEW t \in Tickets, NEW a \in Agents,
         ~Held(w), Hold(w, t, a)
  PROVE  Tracked
<1>1. op \in [Operations -> Operation] /\ occ \in [Tickets -> Occupancy]
  BY DEF OccupancyInv, OpTyped, OccTyped
<1>2. /\ op' = [op EXCEPT ![w] = [state |-> "live", ticket |-> t, agent |-> a, hold |-> "held"]]
      /\ agent' = Materialized({a}) /\ occ' = [occ EXCEPT ![t].rev = @ + 1]
  BY DEF Hold
<1>3. op'[w].agent = a /\ \A v \in Operations \ {w} : op'[v] = op[v]
  BY <1>1, <1>2
<1>4. \A u \in Tickets : occ'[u].state = occ[u].state /\ occ'[u].owner = occ[u].owner
  BY <1>1, <1>2 DEF Occupancy
<1>5. \A b \in Agents \ {a} : Counted(b)' = Counted(b)
  BY <1>3, <1>4, OthersCounted
<1> QED
  BY <1>2, <1>5, TrackedMaterialized

LEMMA TrackedCompensate ==
  ASSUME OccupancyInv, NEW w \in Operations, NEW state, Compensate(w, state) PROVE Tracked
<1>1. op \in [Operations -> Operation]
  BY DEF OccupancyInv, OpTyped
<1>2. UNCHANGED occ /\ agent' = Materialized({op[w].agent})
      /\ op' = [op EXCEPT ![w] = [op[w] EXCEPT !.state = state, !.hold = ReleasedHold(w)]]
  BY DEF Compensate
<1>3. op'[w].agent = op[w].agent /\ \A v \in Operations \ {w} : op'[v] = op[v]
  BY <1>1, <1>2 DEF Operation
<1>4. \A b \in Agents \ {op[w].agent} : Counted(b)' = Counted(b)
  BY <1>2, <1>3, OthersCounted
<1> QED
  BY <1>2, <1>4, TrackedMaterialized

LEMMA TrackedState ==
  ASSUME OccupancyInv, NEW w \in Operations, NEW state, UNCHANGED occ,
         op' = [op EXCEPT ![w].state = state],
         agent' = agent \/ \E as : agent' = Degraded(as)
  PROVE  Tracked
<1>1. op \in [Operations -> Operation]
  BY DEF OccupancyInv, OpTyped
<1>2. Same
  BY <1>1 DEF Same, Operation
<1> QED
  BY <1>2, TrackedSame, TrackedDegraded

LEMMA TrackedAttempt ==
  ASSUME OccupancyInv, NEW w \in Operations, Attempt(w) \/ TransferEnds(w) \/ Crash(w)
  PROVE  Tracked
<1>1. CASE \E state \in {"retryable", "done"} : Compensate(w, state)
  BY <1>1, TrackedCompensate
<1>2. CASE Unresolved(w)
  BY <1>2, TrackedState DEF Unresolved
<1>3. CASE Finalize(w)
  <2>1. PICK state \in {"done", "repair"} : op' = [op EXCEPT ![w].state = state]
    BY <1>3 DEF Finalize
  <2> QED
    BY <1>3, <2>1, TrackedState DEF Finalize
<1>4. CASE UNCHANGED <<occ, op, agent>>
  BY <1>4, OpSame, TrackedSame
<1>5. CASE TransferEnds(w)
  <2>1. op' = [op EXCEPT ![w].state = "done"] /\ UNCHANGED occ
        /\ (agent' = agent \/ \E as : agent' = Degraded(as))
    BY <1>5 DEF TransferEnds
  <2> QED
    BY <2>1, TrackedState
<1>6. CASE Crash(w)
  <2>1. PICK state \in {"repair", "done"} : op' = [op EXCEPT ![w].state = state]
    BY <1>6 DEF Crash
  <2> QED
    BY <1>6, <2>1, TrackedState DEF Crash
<1>7. Attempt(w) => \/ \E state \in {"retryable", "done"} : Compensate(w, state)
                    \/ Unresolved(w) \/ Finalize(w) \/ UNCHANGED <<occ, op, agent>>
  BY DEF Attempt, PreconditionFails, PreconditionStops, PreconditionConfirms,
         PreconditionAllows, ReadbackFails, ReadbackStops, ReadbackConfirms, ReadbackDiffers
<1> QED
  BY <1>1, <1>2, <1>3, <1>4, <1>5, <1>6, <1>7

LEMMA TrackedStep == ASSUME OccupancyInv, [Next]_vars PROVE Tracked
<1>1. ASSUME NEW p \in Processes, Reconcile(p) PROVE Tracked
  BY <1>1, TrackedReconcile
<1>2. ASSUME NEW w \in Operations, Attempt(w) \/ TransferEnds(w) \/ Crash(w) PROVE Tracked
  BY <1>2, TrackedAttempt
<1>3. ASSUME NEW w \in Operations, NEW t \in Tickets, NEW a \in Agents,
             Reserve(w, t, a) \/ ReserveTransfer(w, t, a)
      PROVE  Tracked
  <2>1. ~Held(w) /\ Hold(w, t, a)
    BY <1>3 DEF Reserve, ReserveTransfer, OccupancyInv, OpTyped, Held
  <2> QED
    BY <2>1, TrackedHold
<1>4. ASSUME NEW w \in Operations, Retry(w) PROVE Tracked
  <2>1. /\ op[w].ticket \in Tickets /\ op[w].agent \in Agents /\ ~Held(w)
        /\ Hold(w, op[w].ticket, op[w].agent)
    BY <1>4 DEF Retry, OccupancyInv, OpTyped, Held
  <2> QED
    BY <2>1, TrackedHold
<1>5. CASE UNCHANGED <<occ, op, agent>>
  BY <1>5, OpSame, TrackedSame
<1>6. ASSUME NEW s \in Scanners, ScanEnd(s) PROVE Tracked
  <2>1. Same
    BY <1>6, OpSame DEF ScanEnd
  <2>2. CASE agent' = [agent EXCEPT ![scan[s].agent].ready = TRUE]
    <3>1. \A a \in Agents : agent[a] \in [count : Nat, rev : Nat, ready : BOOLEAN]
      BY DEF OccupancyInv, AgentTyped
    <3>2. \A a \in Agents : agent'[a].rev = agent[a].rev
      BY <2>2, <3>1 DEF OccupancyInv, AgentTyped
    <3> QED
      BY <2>1, <3>2, SameCounted DEF Tracked
  <2>3. CASE agent' = Degraded({scan[s].agent})
    BY <2>1, <2>3, TrackedDegraded
  <2> QED
    BY <1>6, <2>2, <2>3 DEF ScanEnd
<1>7. ASSUME NEW w \in Operations, Land(w) \/ Patch(w) \/ Repair(w)
      PROVE  UNCHANGED <<occ, op, agent>>
  BY <1>7 DEF Land, Patch, Repair
<1>8. ASSUME NEW s \in Scanners, ScanList(s) \/ ScanNext(s) \/ \E a \in Agents : ScanStart(s, a)
      PROVE  UNCHANGED <<occ, op, agent>>
  BY <1>8 DEF ScanList, ScanNext, ScanStart
<1>9. ASSUME NEW t \in Tickets, \/ PersonCloses(t) \/ \E o \in Owners : PersonAssigns(t, o)
                                \/ \E p \in Watchers : Watch(p, t)
      PROVE  UNCHANGED <<occ, op, agent>>
  BY <1>9 DEF PersonCloses, PersonAssigns, Watch
<1>10. CASE UNCHANGED vars
  BY <1>5, <1>10 DEF vars
<1> QED
  BY <1>1, <1>2, <1>3, <1>4, <1>5, <1>6, <1>7, <1>8, <1>9, <1>10 DEF Next

(***************************************************************************)
(* A scan moves by its own steps only.                                     *)
(***************************************************************************)
Scans(s) == ScanList(s) \/ ScanNext(s) \/ ScanEnd(s) \/ \E a \in Agents : ScanStart(s, a)

LEMMA ProcAndScan == ASSUME OccupancyInv PROVE proc \in [Processes -> Process]
                                               /\ scan \in [Scanners -> Scan]
  BY DEF OccupancyInv, ProcTyped, ScanTyped

LEMMA OthersLeave ==
  ASSUME OccupancyInv, NEW s \in Scanners, NEW p \in Processes \ {s},
         Leave(p) \/ \E pc : Enter(p, pc)
  PROVE  proc'[s] = proc[s]
  BY ProcAndScan, Parts DEF Leave, Enter

LEMMA OperationsLeave ==
  ASSUME OccupancyInv, NEW s \in Scanners, NEW w \in Operations,
         \/ Land(w) \/ Patch(w) \/ Crash(w) \/ TransferEnds(w)
         \/ Attempt(w) \/ Retry(w) \/ Repair(w)
         \/ \E t \in Tickets, a \in Agents : Reserve(w, t, a) \/ ReserveTransfer(w, t, a)
  PROVE  proc'[s] = proc[s] /\ scan' = scan
<1>1. w \in Processes \ {s}
  BY Parts
<1>2. CASE Crash(w) \/ TransferEnds(w) \/ Attempt(w)
  <2>1. (Leave(w) \/ \E pc : Enter(w, pc)) /\ scan' = scan
    BY <1>2 DEF Crash, TransferEnds, Attempt, PreconditionFails, PreconditionStops,
         PreconditionConfirms, PreconditionAllows, ReadbackFails, ReadbackStops,
         ReadbackConfirms, ReadbackDiffers, Compensate, Unresolved, Finalize
  <2> QED
    BY <1>1, <2>1, OthersLeave
<1>3. CASE Land(w)
  BY <1>3 DEF Land
<1>4. ASSUME scan' = scan, NEW to, proc' = [proc EXCEPT ![w] = to]
      PROVE  proc'[s] = proc[s] /\ scan' = scan
  BY <1>1, <1>4, ProcAndScan
<1>5. CASE Patch(w) \/ Retry(w) \/ Repair(w)
  <2>1. scan' = scan /\ \E to : proc' = [proc EXCEPT ![w] = to]
    BY <1>5 DEF Patch, Retry, Repair, Starts, Hold
  <2> QED
    BY <1>4, <2>1
<1>6. ASSUME NEW t \in Tickets, NEW a \in Agents, Reserve(w, t, a) \/ ReserveTransfer(w, t, a)
      PROVE  proc'[s] = proc[s] /\ scan' = scan
  <2>1. scan' = scan /\ \E to : proc' = [proc EXCEPT ![w] = to]
    BY <1>6 DEF Reserve, ReserveTransfer, Starts, Hold
  <2> QED
    BY <1>4, <2>1
<1> QED
  BY <1>2, <1>3, <1>5, <1>6

LEMMA OwnSteps ==
  ASSUME OccupancyInv, [Next]_vars, NEW s \in Scanners, ~Reconcile(s), ~Scans(s)
  PROVE  proc'[s] = proc[s] /\ scan'[s] = scan[s]
<1>1. s \in Processes
  BY Parts
<1>2. ASSUME NEW t \in Tickets, PersonCloses(t) \/ \E o \in Owners : PersonAssigns(t, o)
      PROVE  proc'[s] = proc[s] /\ scan'[s] = scan[s]
  BY <1>2 DEF PersonCloses, PersonAssigns
<1>3. ASSUME NEW p \in Processes \ {s}, Reconcile(p)
      PROVE  proc'[s] = proc[s] /\ scan'[s] = scan[s]
  <2>1. CASE Capture(p) \/ ReadProvider(p)
    BY <1>1, <2>1, ProcAndScan DEF Capture, ReadProvider
  <2>2. CASE Refuse(p)
    BY <2>2, OthersLeave DEF Refuse
  <2>3. CASE Apply(p)
    <3>1. Leave(p) \/ \E pc : Enter(p, pc)
      BY <2>3 DEF Apply
    <3>2. scan'[s] = scan[s]
      BY <2>3, ProcAndScan DEF Apply
    <3> QED
      BY <3>1, <3>2, OthersLeave
  <2> QED
    BY <1>3, <2>1, <2>2, <2>3 DEF Reconcile
<1>4. ASSUME NEW p \in Watchers, NEW t \in Tickets, Watch(p, t)
      PROVE  proc'[s] = proc[s] /\ scan'[s] = scan[s]
  BY <1>1, <1>4, ProcAndScan, OccupancyAssumption DEF Watch
<1>5. ASSUME NEW q \in Scanners \ {s}, Scans(q)
      PROVE  proc'[s] = proc[s] /\ scan'[s] = scan[s]
  <2>1. CASE ScanNext(q)
    BY <1>1, <2>1, ProcAndScan DEF ScanNext
  <2>2. CASE ScanList(q) \/ ScanEnd(q) \/ \E a \in Agents : ScanStart(q, a)
    <3>1. Leave(q) \/ \E pc : Enter(q, pc)
      BY <2>2 DEF ScanList, ScanEnd, ScanStart
    <3>2. scan'[s] = scan[s]
      BY <2>2, ProcAndScan DEF ScanList, ScanEnd, ScanStart
    <3> QED
      BY <3>1, <3>2, OthersLeave, Parts
  <2> QED
    BY <1>5, <2>1, <2>2 DEF Scans
<1>6. CASE UNCHANGED vars
  BY <1>6 DEF vars
<1>7. ASSUME NEW w \in Operations,
             \/ Land(w) \/ Patch(w) \/ Crash(w) \/ TransferEnds(w)
             \/ Attempt(w) \/ Retry(w) \/ Repair(w)
             \/ \E t \in Tickets, a \in Agents : Reserve(w, t, a) \/ ReserveTransfer(w, t, a)
      PROVE  proc'[s] = proc[s] /\ scan'[s] = scan[s]
  BY <1>7, OperationsLeave
<1> QED
  BY <1>2, <1>3, <1>4, <1>5, <1>6, <1>7 DEF Next, Scans

(***************************************************************************)
(* A scan that reads on, fails, or is not moved keeps what it has read.    *)
(***************************************************************************)
LEMMA StillFollows ==
  ASSUME OccupancyInv, Tracked, NEW s \in Scanners, Follows(s), scan'[s] = scan[s],
         proc'[s].pc # "idle" => proc[s].pc # "idle",
         proc'[s].pc \notin {"idle", "listing", "conflict"}
            => proc[s].pc \notin {"listing", "conflict"}
  PROVE  Follows(s)'
<1> SUFFICES ASSUME proc'[s].pc # "idle" PROVE Follows(s)'
  BY DEF Follows
<1> DEFINE a == scan[s].agent
<1>1. a \in Agents /\ scan[s].tracker <= agent[a].rev
  BY DEF Follows
<1>2. agent[a].rev \in Nat /\ scan[s].tracker \in Nat
  BY <1>1 DEF OccupancyInv, AgentTyped, ScanTyped, Scan
<1>3. PICK b : b = a
  OBVIOUS
<1>4. scan'[s].agent = b
  BY <1>3
<1>5. CASE agent'[b].rev = agent[b].rev /\ Counted(b)' = Counted(b)
  <2>1. proc'[s].pc \notin {"listing", "conflict"} /\ scan[s].tracker = agent[b].rev
            => Counted(b) \subseteq scan[s].todo \cup scan[s].done
    BY <1>3 DEF Follows
  <2>2. scan'[s].tracker <= agent'[b].rev
    BY <1>1, <1>3, <1>5
  <2>3. proc'[s].pc \notin {"listing", "conflict"} /\ scan'[s].tracker = agent'[b].rev
            => Counted(b)' \subseteq scan'[s].todo \cup scan'[s].done
    BY <1>5, <2>1
  <2> QED
    BY <1>1, <1>3, <1>4, <2>2, <2>3 DEF Follows, Counted, Held
<1>6. CASE agent'[b].rev = agent[b].rev + 1
  <2>1. scan'[s].tracker < agent'[b].rev
    BY <1>1, <1>2, <1>3, <1>6
  <2> QED
    BY <1>1, <1>2, <1>3, <1>4, <1>6, <2>1 DEF Follows
<1> QED
  BY <1>1, <1>3, <1>5, <1>6 DEF Tracked

(***************************************************************************)
(* A snapshot that a scan applies adds no ticket but its own.              *)
(***************************************************************************)
LEMMA AppliedAddsOne ==
  ASSUME OccupancyInv, NEW p \in Processes, Apply(p), NEW b
  PROVE  Counted(b)' \subseteq Counted(b) \cup {proc[p].ticket}
<1> DEFINE t == proc[p].ticket
<1>1. \A u \in Tickets \ {t} : occ'[u] = occ[u]
  BY DEF Apply, OccupancyInv, OccTyped
<1>2. ASSUME NEW w \in Operations
      PROVE  /\ op'[w].agent = op[w].agent /\ op'[w].ticket = op[w].ticket
             /\ op'[w].hold = "held" => op[w].hold = "held"
  <2>1. op[w] \in Operation
    BY DEF OccupancyInv, OpTyped
  <2>2. op'[w] = IF w \in HeldOn(t)
                    THEN [op[w] EXCEPT !.hold = Concluded(w, Snapshot(p))] ELSE op[w]
    BY DEF Apply
  <2>3. CASE w \in HeldOn(t)
    <3>1. op'[w].agent = op[w].agent /\ op'[w].ticket = op[w].ticket
      BY <2>1, <2>2, <2>3 DEF Operation
    <3> QED
      BY <2>3, <3>1 DEF HeldOn, Held
  <2>4. CASE w \notin HeldOn(t)
    BY <2>2, <2>4
  <2> QED
    BY <2>3, <2>4
<1>3. ASSUME NEW u \in Counted(b)' PROVE u \in Counted(b) \cup {t}
  <2>1. CASE u \in Tickets /\ occ'[u].state = "active" /\ occ'[u].owner = b
    BY <1>1, <2>1 DEF Counted
  <2>2. ASSUME NEW w \in Operations, op'[w].hold = "held", op'[w].agent = b, u = op'[w].ticket
        PROVE  u \in Counted(b)
    BY <1>2, <2>2 DEF Counted, Held
  <2> QED
    BY <1>3, <2>1, <2>2 DEF Counted, Held
<1> QED
  BY <1>3

LEMMA ScanApplied ==
  ASSUME OccupancyInv, NEW s \in Scanners, Follows(s), Apply(s) PROVE Follows(s)'
<1> DEFINE t == proc[s].ticket
           more == IF scan[s].agent \in Affected(s) THEN 1 ELSE 0
<1>1. s \in Processes /\ s \notin Watchers
  BY Parts, OccupancyAssumption
<1>2. proc[s].pc = "read" /\ agent' = Materialized(Affected(s)) /\ Enter(s, "scanning")
  BY <1>1 DEF Apply, MaterializedAll
<1>3. scan' = [scan EXCEPT ![s].done = @ \cup {t}, ![s].todo = @ \ {t}, ![s].tracker = @ + more]
  BY DEF Apply
<1>4. scan[s] \in Scan /\ scan \in [Scanners -> Scan] /\ proc \in [Processes -> Process]
  BY ProcAndScan
<1>5. /\ scan'[s].agent = scan[s].agent /\ scan'[s].done = scan[s].done \cup {t}
      /\ scan'[s].todo = scan[s].todo \ {t} /\ scan'[s].tracker = scan[s].tracker + more
  BY <1>3, <1>4 DEF Scan
<1>6. proc'[s].pc = "scanning"
  BY <1>1, <1>2, <1>4 DEF Enter, Process
<1>7. PICK b : b = scan[s].agent
  OBVIOUS
<1>8. /\ b \in Agents /\ scan[s].tracker <= agent[b].rev
      /\ scan[s].tracker = agent[b].rev => Counted(b) \subseteq scan[s].todo \cup scan[s].done
  BY <1>2, <1>7 DEF Follows
<1>9. agent[b].rev \in Nat /\ scan[s].tracker \in Nat
  BY <1>4, <1>8 DEF OccupancyInv, AgentTyped, Scan
<1>10. agent'[b].rev = agent[b].rev + more
  BY <1>2, <1>7, <1>8, <1>9, MaterializedRev
<1>11. scan'[s].tracker <= agent'[b].rev
       /\ (scan'[s].tracker = agent'[b].rev => scan[s].tracker = agent[b].rev)
  BY <1>5, <1>8, <1>9, <1>10
<1>12. Counted(b)' \subseteq Counted(b) \cup {t}
  BY <1>1, AppliedAddsOne
<1>13. scan'[s].tracker = agent'[b].rev => Counted(b)' \subseteq scan'[s].todo \cup scan'[s].done
  BY <1>5, <1>8, <1>11, <1>12
<1> QED
  BY <1>5, <1>6, <1>7, <1>8, <1>11, <1>13 DEF Follows, Counted, Held

LEMMA ScanFollows ==
  ASSUME OccupancyInv, Tracked, NEW s \in Scanners, Follows(s), Scans(s)
  PROVE  Follows(s)'
<1>1. s \in Processes /\ scan[s] \in Scan /\ scan \in [Scanners -> Scan]
      /\ proc \in [Processes -> Process]
  BY Parts, ProcAndScan
<1>2. CASE ScanNext(s)
  <2>1. proc[s].pc = "scanning" /\ scan'[s] = scan[s]
    BY <1>2 DEF ScanNext
  <2> QED
    BY <2>1, StillFollows
<1>3. CASE ScanEnd(s)
  <2>1. proc'[s].pc = "idle"
    BY <1>1, <1>3 DEF ScanEnd, Leave, IdleProcess
  <2> QED
    BY <2>1 DEF Follows
<1>4. ASSUME NEW a \in Agents, ScanStart(s, a) PROVE Follows(s)'
  <2>1. scan'[s].agent = a /\ scan'[s].tracker = agent[a].rev /\ agent' = agent
    BY <1>1, <1>4 DEF ScanStart
  <2>2. proc'[s].pc = "listing"
    BY <1>1, <1>4 DEF ScanStart, Enter, Process
  <2>3. agent[a].rev \in Nat
    BY DEF OccupancyInv, AgentTyped
  <2> QED
    BY <2>1, <2>2, <2>3 DEF Follows
<1>5. CASE ScanList(s)
  <2>1. PICK b : b = scan[s].agent
    OBVIOUS
  <2> DEFINE listed == {t \in Tickets : ~Current(t).closed /\ Current(t).owner = b}
                          \cup Counted(b)
  <2>2. scan' = [scan EXCEPT ![s].todo = listed] /\ proc[s].pc = "listing"
        /\ UNCHANGED <<occ, op, agent>>
    BY <1>5, <2>1 DEF ScanList
  <2>3. Counted(b) \subseteq listed
    OBVIOUS
  <2> HIDE DEF listed
  <2>4. /\ scan'[s].agent = b /\ scan'[s].todo = listed
        /\ scan'[s].tracker = scan[s].tracker
    BY <1>1, <2>1, <2>2 DEF Scan
  <2>5. b \in Agents /\ scan[s].tracker <= agent[b].rev
    BY <2>1, <2>2 DEF Follows
  <2>6. Counted(b)' = Counted(b)
    BY <2>2 DEF Counted, Held
  <2>7. Counted(b)' \subseteq scan'[s].todo \cup scan'[s].done
    BY <2>3, <2>4, <2>6
  <2> QED
    BY <2>2, <2>4, <2>5, <2>7 DEF Follows, Counted, Held
<1> QED
  BY <1>2, <1>3, <1>4, <1>5 DEF Scans

LEMMA ScanReads ==
  ASSUME OccupancyInv, Tracked, NEW s \in Scanners, Follows(s), Reconcile(s)
  PROVE  Follows(s)'
<1>1. s \in Processes /\ s \notin Watchers /\ proc \in [Processes -> Process]
  BY Parts, ProcAndScan, OccupancyAssumption
<1>2. CASE Apply(s)
  BY <1>2, ScanApplied
<1>3. CASE Capture(s) \/ ReadProvider(s) \/ Refuse(s)
  <2>1. proc[s].pc \in {"start", "captured", "read"} /\ scan'[s] = scan[s]
    BY <1>3 DEF Capture, ReadProvider, Refuse
  <2> QED
    BY <2>1, StillFollows
<1> QED
  BY <1>2, <1>3 DEF Reconcile

LEMMA ScansStep == ScansInv /\ [Next]_vars => ScansInv'
<1> SUFFICES ASSUME ScansInv, [Next]_vars PROVE ScansInv'
  OBVIOUS
<1>1. OccupancyInv /\ OccupancyInv' /\ Tracked
  BY OccupancyStep, TrackedStep DEF ScansInv
<1>2. ASSUME NEW s \in Scanners PROVE Follows(s)'
  <2>1. Follows(s)
    BY DEF ScansInv
  <2>2. CASE Reconcile(s)
    BY <1>1, <2>1, <2>2, ScanReads
  <2>3. CASE Scans(s)
    BY <1>1, <2>1, <2>3, ScanFollows
  <2>4. CASE ~Reconcile(s) /\ ~Scans(s)
    <3>1. proc'[s] = proc[s] /\ scan'[s] = scan[s]
      BY <1>1, <2>4, OwnSteps
    <3> QED
      BY <1>1, <2>1, <3>1, StillFollows
  <2> QED
    BY <2>2, <2>3, <2>4
<1> QED
  BY <1>1, <1>2 DEF ScansInv

LEMMA ScansInitially == Init => ScansInv
<1> SUFFICES ASSUME Init PROVE ScansInv
  OBVIOUS
<1>1. \A s \in Scanners : proc[s].pc = "idle"
  BY Parts DEF Init, IdleProcess
<1> QED
  BY <1>1, OccupancyInitially DEF ScansInv, Follows

LEMMA ScansInvariant == Spec => []ScansInv
  BY ScansInitially, ScansStep, PTL DEF Spec

(***************************************************************************)
(* A scan that makes its agent ready is at its end, and has read whatever  *)
(* counts for the agent at that moment.                                    *)
(***************************************************************************)
LEMMA EndedScan ==
  ASSUME ScansInv, [Next]_vars, NEW s \in Scanners, scan[s].agent \in Agents,
         proc[s].pc = "scanning", proc'[s].pc = "idle", agent'[scan[s].agent].ready
  PROVE  Counted(scan[s].agent) \subseteq scan[s].done
<1>1. OccupancyInv /\ Follows(s)
  BY DEF ScansInv
<1>2. s \in Processes /\ proc \in [Processes -> Process]
  BY <1>1, Parts, ProcAndScan
<1>3. ~Reconcile(s)
  BY DEF Reconcile, Capture, ReadProvider, Apply, Refuse
<1>4. Scans(s)
  BY <1>1, <1>3, OwnSteps
<1>5. ~ScanNext(s)
  <2> SUFFICES ASSUME ScanNext(s) PROVE FALSE
    OBVIOUS
  <2>1. PICK t : proc' = [proc EXCEPT ![s] =
                    [IdleProcess EXCEPT !.pc = "start", !.for = "scan", !.ticket = t]]
    BY DEF ScanNext
  <2>2. proc'[s].pc = "start"
    BY <1>2, <2>1 DEF IdleProcess
  <2> QED
    BY <2>2
<1>6. ScanEnd(s)
  BY <1>4, <1>5 DEF Scans, ScanList, ScanStart
<1>7. agent' # Degraded({scan[s].agent})
  <2> SUFFICES ASSUME agent' = Degraded({scan[s].agent}) PROVE FALSE
    OBVIOUS
  <2>1. agent[scan[s].agent] \in [count : Nat, rev : Nat, ready : BOOLEAN]
    BY <1>1 DEF OccupancyInv, AgentTyped
  <2>2. agent'[scan[s].agent].ready = FALSE
    BY <2>1 DEF Degraded
  <2> QED
    BY <2>2
<1>8. scan[s].todo = {} /\ agent[scan[s].agent].rev = scan[s].tracker
  BY <1>6, <1>7 DEF ScanEnd, SameGeneration
<1> QED
  BY <1>1, <1>8 DEF Follows

(***************************************************************************)
(* No agent becomes ready with a ticket that its scan has not read: what   *)
(* other processes hold, apply or conclude meanwhile moves the generation. *)
(***************************************************************************)
THEOREM ScansAreComplete == Spec => ReadyWasScanned
<1>1. ScansInv /\ [Next]_vars => [\A s \in Scanners :
        LET a == scan[s].agent IN
        (a \in Agents /\ proc[s].pc = "scanning" /\ proc'[s].pc = "idle" /\ agent'[a].ready)
            => Counted(a) \subseteq scan[s].done]_vars
  BY EndedScan
<1> QED
  BY <1>1, ScansInvariant, PTL DEF Spec, ReadyWasScanned
-----------------------------------------------------------------------------
(***************************************************************************)
(* The turns of the agents: what MCOccupancy instantiates is what          *)
(* AgentTurns_proofs is about.                                             *)
(***************************************************************************)
Proved == INSTANCE AgentTurns_proofs WITH MaxChats <- MaxTurnChats

LEMMA SameTurns ==
    /\ Turns!Init => Proved!Init
    /\ [Turns!Next]_(Turns!vars) => [Proved!Next]_(Proved!vars)
<1> USE DEF Turns!Team, Proved!Team, Turns!NoOne, Proved!NoOne, Turns!Idle, Proved!Idle,
            Turns!Turn, Proved!Turn, Turns!Eligible, Proved!Eligible, Turns!Waited, Proved!Waited,
            Turns!Change, Proved!Change, Turns!Ways, Proved!Ways, Turns!Counted, Proved!Counted,
            Turns!OwnLog, Proved!OwnLog, Turns!Moved, Proved!Moved,
            Turns!Reserved, Proved!Reserved
<1>1. Turns!Init => Proved!Init
  BY DEF Turns!Init, Proved!Init
<1>2. \A S : Turns!Cardinality(S) = Proved!Cardinality(S)
  BY DEF Turns!Cardinality, Proved!Cardinality
<1>3. ASSUME NEW a \in Turns!Team, Turns!Flip(a) PROVE Proved!Flip(a)
  BY <1>3 DEF Turns!Flip, Proved!Flip
<1>4. ASSUME NEW a \in Turns!Team, Turns!Ends(a) PROVE Proved!Ends(a)
  <2>1. Turns!Given(a) = Proved!Given(a)
    BY DEF Turns!Given, Proved!Given
  <2> QED
    BY <1>2, <1>4, <2>1 DEF Turns!Ends, Proved!Ends
<1>5. Turns!Candidates = Proved!Candidates
  BY <1>2 DEF Turns!Candidates, Proved!Candidates
<1>6. \A a, b : Turns!Before(a, b) <=> Proved!Before(a, b)
  BY DEF Turns!Before, Proved!Before
<1>7. ASSUME NEW d \in Drains, Turns!Rank(d) PROVE Proved!Rank(d)
  BY <1>2, <1>5, <1>6, <1>7 DEF Turns!Rank, Proved!Rank
<1>8. ASSUME NEW d \in Drains, Turns!Reserve(d) PROVE Proved!Reserve(d)
  BY <1>8 DEF Turns!Reserve, Proved!Reserve, Turns!Still, Proved!Still, Turns!First, Proved!First
<1>9. ASSUME NEW d \in Drains, Turns!Finalize(d) PROVE Proved!Finalize(d)
  BY <1>9 DEF Turns!Finalize, Proved!Finalize
<1>10. ASSUME NEW d \in Drains, Turns!Compensate(d) PROVE Proved!Compensate(d)
  BY <1>10 DEF Turns!Compensate, Proved!Compensate
<1>11. ASSUME NEW d \in Drains, Turns!Leave(d) PROVE Proved!Leave(d)
  BY <1>11 DEF Turns!Leave, Proved!Leave
<1>12. ASSUME NEW a \in Turns!Team, Turns!Assigned(a) PROVE Proved!Assigned(a)
  BY <1>12 DEF Turns!Assigned, Proved!Assigned
<1>13. ASSUME NEW a \in Turns!Team, Turns!Repair(a) PROVE Proved!Repair(a)
  <2>1. CASE Turns!RepairLogs(a)
    BY <2>1 DEF Turns!RepairLogs, Proved!RepairLogs, Proved!Repair
  <2>2. CASE Turns!RepairUndoes(a)
    BY <2>2 DEF Turns!RepairUndoes, Proved!RepairUndoes, Proved!Repair
  <2>3. CASE Turns!Retry(a)
    BY <2>3 DEF Turns!Retry, Proved!Retry, Proved!Repair
  <2> QED
    BY <1>13, <2>1, <2>2, <2>3 DEF Turns!Repair
<1>14. Turns!Next => Proved!Next
  <2> SUFFICES ASSUME Turns!Next PROVE Proved!Next
    OBVIOUS
  <2>1. CASE \E a \in Turns!Team :
            Turns!Flip(a) \/ Turns!Ends(a) \/ Turns!Assigned(a) \/ Turns!Repair(a)
    BY <1>3, <1>4, <1>12, <1>13, <2>1 DEF Proved!Next
  <2>2. CASE \E d \in Drains : \/ Turns!Rank(d) \/ Turns!Reserve(d) \/ Turns!Finalize(d)
                               \/ Turns!Compensate(d) \/ Turns!Leave(d)
    BY <1>7, <1>8, <1>9, <1>10, <1>11, <2>2 DEF Proved!Next
  <2> QED
    BY <2>1, <2>2 DEF Turns!Next
<1> QED
  BY <1>1, <1>14 DEF Turns!vars, Proved!vars

(***************************************************************************)
(* Nobody is passed over for long: while an agent may be given a ticket,   *)
(* the drains give others at most drains * (N + logged) before it has its  *)
(* turn, where logged counts the assignments of its own whose log came     *)
(* meanwhile (get_ranked_eligible_agents and reserve_next_assignment),     *)
(* whatever the repair, people and owner webhooks do in between.           *)
(***************************************************************************)
THEOREM NobodyIsPassedOver == Turns!Spec => []BoundedBypass
<1>1. Proved!TurnsAssumption
  BY MCOccupancyAssumption
  DEF Turns!TurnsAssumption, Proved!TurnsAssumption, Turns!IsFiniteSet, Proved!IsFiniteSet
<1>2. Proved!Spec => []Proved!BoundedBypass
  BY <1>1, Proved!NobodyIsPassedOver, PTL
<1>3. Proved!BoundedBypass => BoundedBypass
  <2>1. Turns!Cardinality(Drains) = Proved!Cardinality(Drains)
    BY DEF Turns!Cardinality, Proved!Cardinality
  <2> QED
    BY <2>1 DEF BoundedBypass, Turns!BoundedBypass, Proved!BoundedBypass, Turns!Team, Proved!Team
<1> QED
  BY <1>2, <1>3, SameTurns, PTL DEF Turns!Spec, Proved!Spec
=============================================================================
