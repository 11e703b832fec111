------------------------ MODULE MCDurableAssignment ------------------------
(***************************************************************************)
(* Instances of DurableAssignment for TLC.  Agents and workers are         *)
(* interchangeable; cycles are ordered and tickets are told apart by them. *)
(***************************************************************************)
EXTENDS DurableAssignment, TLC

CONSTANTS t1, t2

OneCycle == 1 :> t1
TwoCycles == 1 :> t1 @@ 2 :> t1
CycleEach == 1 :> t1 @@ 2 :> t2

Symmetric == Permutations(Agents) \cup Permutations(Workers)

(* A later starting point, to reach deeper: every ticket has entered NOVO   *)
(* once, and its row stands in the queue, pointed at its cycle.             *)
CycleOf(t) == CHOOSE c \in Cycles : TicketOf[c] = t

QueuedInit ==
    /\ cycle = [c \in Cycles |-> "queued"]
    /\ row = [t \in Tickets |-> [scope |-> CycleOf(t), status |-> "ready", notFound |-> FALSE]]
    /\ att = [k \in Keys |-> NoAttempt]
    /\ conv = [s \in Scopes |-> NoConv]
    /\ load = [a \in Agents |-> 0]
    /\ hub = [t \in Tickets |-> [stage |-> "novo", owner |-> Nobody, era |-> CycleOf(t)]]
    /\ ownerEvents = {}
    /\ closings = {}
    /\ worker = [w \in Workers |-> Idle]
    /\ entry = [c \in Cycles |-> "none"]
    /\ closeReads = {}
    /\ ownerTasks = {}
    /\ spent = [edits |-> 0, moves |-> 0, faults |-> 0, deliveries |-> 0]

QueuedSpec == QueuedInit /\ [][Next]_vars
FairQueuedSpec == QueuedSpec /\ Fairness
=============================================================================
