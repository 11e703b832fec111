----------------------------- MODULE AgentTurns -----------------------------
(***************************************************************************)
(* Whose turn it is: how a drain chooses the agent of a ticket.  It ranks  *)
(* the eligible agents - the agent of the last automatic assignment left   *)
(* out while there is another, then by the time of the last reservation,   *)
(* the number of chats and the key - and reserves the first of them that   *)
(* is still eligible under its row lock.  The assignment is logged when    *)
(* the owner is known to be written, or undone, by the drain or, when that *)
(* crashed or could not tell, by the repair, however long after.  Drains   *)
(* overlap, so a ranking may be old when it is used.                       *)
(*                                                                         *)
(* Modelled from apps/support/queue_service.py and, for what a reservation *)
(* and its end do to an agent, durable_assignment_service.py.  A ticket is *)
(* always waiting; eligibility is AgentAvailability's and one flag here.   *)
(***************************************************************************)
EXTENDS Integers, FiniteSets

CONSTANTS
    N,             \* agents, numbered in the order of their keys
    Drains,        \* tasks that drain the queue
    MaxChats,      \* max_simultaneous_chats
    MaxReserved,   \* bound: reservations
    MaxChanges     \* bound: changes of eligibility, closed chats, undone or broken
                   \* off attempts, assignments by people

TurnsAssumption ==
    /\ N \in Nat \ {0} /\ IsFiniteSet(Drains)
    /\ {MaxChats, MaxReserved, MaxChanges} \subseteq Nat

Team == 1..N
NoOne == 0

(* What an attempt nobody works at still has: its chat, or the chat given   *)
(* back and a retry due, or the owner still to be read.                     *)
Ways == {"held", "retryable", "unread"}

VARIABLES
    able,       \* able[a]: the agent is eligible but for its number of chats
    chats,      \* chats[a]: current_simultaneous_chats
    last,       \* last[a]: last_assignment_at, as the number of that reservation
    log,        \* the agent of the newest automatic AssignmentLog
    turn,       \* turn[d]: the candidates of a drain, each with its place in the ranking,
                \* or the agent it reserved
    left,       \* left[w][a]: attempts of the agent that no drain works at
    reserved,   \* reservations so far
    changes,
    passed,     \* passed[a]: assignments drains gave others since a may be given one
    logged      \* logged[a]: assignments of its own that were logged since then

vars == <<able, chats, last, log, turn, left, reserved, changes, passed, logged>>

Turn(pc, place, agent) == [pc |-> pc, place |-> place, agent |-> agent]
Idle == Turn("idle", <<>>, NoOne)

Init ==
    /\ able = [a \in Team |-> TRUE]
    /\ chats = [a \in Team |-> 0]
    /\ last = [a \in Team |-> 0]
    /\ log = NoOne
    /\ turn = [d \in Drains |-> Idle]
    /\ left = [w \in Ways |-> [a \in Team |-> 0]]
    /\ reserved = 0
    /\ changes = 0
    /\ passed = [a \in Team |-> 0]
    /\ logged = [a \in Team |-> 0]

Change == changes < MaxChanges /\ changes' = changes + 1

(* evaluate_persisted_agent, and the filters of get_eligible_agents.        *)
Eligible(a) == able[a] /\ chats[a] < MaxChats

(* An agent that may not be given a ticket in the next state, or is just    *)
(* given one, starts anew.                                                  *)
Waited(p) == [a \in Team |->
    IF able'[a] /\ chats'[a] < MaxChats /\ last'[a] = last[a] THEN p[a] ELSE 0]
Counted(p, own) == passed' = Waited(p) /\ logged' = Waited(own)

OwnLog(a) == [logged EXCEPT ![a] = @ + 1]

(* An attempt is left by its drain, taken up, or changes its state.         *)
Moved(a, from, to) == [w \in Ways |-> [left[w] EXCEPT ![a] =
    IF w = from THEN @ - 1 ELSE IF w = to THEN @ + 1 ELSE @]]

Given(a) == {d \in Drains : turn[d].agent = a}

-----------------------------------------------------------------------------
(* The heartbeat's decisions, and closures of tickets.                      *)
Flip(a) ==
    /\ Change
    /\ able' = [able EXCEPT ![a] = ~@]
    /\ UNCHANGED <<chats, last, log, turn, left, reserved>>
    /\ Counted(passed, logged)

Ends(a) ==
    /\ Change
    /\ chats[a] > Cardinality(Given(a)) + left["held"][a]
    /\ chats' = [chats EXCEPT ![a] = @ - 1]
    /\ UNCHANGED <<able, last, log, turn, left, reserved>>
    /\ Counted(passed, logged)

(* A reservation: one more chat, and the time of the last one.              *)
Reserved(a) ==
    /\ reserved < MaxReserved
    /\ chats' = [chats EXCEPT ![a] = @ + 1]
    /\ reserved' = reserved + 1
    /\ last' = [last EXCEPT ![a] = reserved']

(* By an administrator, or by an owner that was written in HubSpot: nobody  *)
(* asks whose turn it is, and the log is not an automatic one.              *)
Assigned(a) ==
    /\ Change
    /\ Reserved(a)
    /\ UNCHANGED <<able, log, turn, left>>
    /\ Counted(passed, logged)

-----------------------------------------------------------------------------
(* get_ranked_eligible_agents(get_last_assigned_owner_id()).                *)
Candidates ==
    LET eligible == {a \in Team : Eligible(a)} IN
    IF Cardinality(eligible) > 1 THEN eligible \ {log} ELSE eligible

(* With a bug: who never had a ticket is ranked last, not first.            *)
BeforeNullsLast(a, b) ==
    \/ last[a] # 0 /\ last[b] = 0
    \/ last[a] # 0 /\ last[b] # 0 /\ last[a] < last[b]
    \/ last[a] = last[b] /\ chats[a] < chats[b]
    \/ last[a] = last[b] /\ chats[a] = chats[b] /\ a < b
Before(a, b) ==
    \/ last[a] < last[b]
    \/ last[a] = last[b] /\ chats[a] < chats[b]
    \/ last[a] = last[b] /\ chats[a] = chats[b] /\ a < b

Rank(d) ==
    /\ turn[d].pc = "idle"
    /\ Candidates # {}
    /\ turn' = [turn EXCEPT ![d] = Turn("ranked",
            [c \in Candidates |-> Cardinality({b \in Candidates : Before(b, c)})], NoOne)]
    /\ UNCHANGED <<able, chats, last, log, left, reserved, changes, passed, logged>>

(* reserve_next_assignment: the candidates in order, each read again.       *)
Still(d) == {c \in DOMAIN turn[d].place : Eligible(c)}
First(d) ==
    CHOOSE c \in Still(d) : \A b \in Still(d) : turn[d].place[c] <= turn[d].place[b]

Reserve(d) ==
    /\ turn[d].pc = "ranked"
    /\ IF Still(d) = {}
       THEN turn' = [turn EXCEPT ![d] = Idle] /\ UNCHANGED <<chats, last, reserved>>
       ELSE /\ Reserved(First(d))
            /\ turn' = [turn EXCEPT ![d] = Turn("given", <<>>, First(d))]
    /\ UNCHANGED <<able, log, left, changes>>
    /\ Counted(passed, logged)

(* finalize_assignment_attempt: the AssignmentLog is written ...            *)
Finalize(d) ==
    /\ turn[d].pc = "given"
    /\ log' = turn[d].agent
    /\ turn' = [turn EXCEPT ![d] = Idle]
    /\ UNCHANGED <<able, chats, last, left, reserved, changes>>
    /\ Counted([a \in Team |-> IF a = log' THEN passed[a] ELSE passed[a] + 1], OwnLog(log'))

(* ... or the attempt is undone, for good or not, and last_assignment_at    *)
(* stays ...                                                                *)
Compensate(d) == \E to \in {"gone", "retryable", "unread"} :
    /\ turn[d].pc = "given"
    /\ Change
    /\ chats' = [chats EXCEPT ![turn[d].agent] = @ - 1]
    /\ left' = Moved(turn[d].agent, "drain", to)
    /\ turn' = [turn EXCEPT ![d] = Idle]
    /\ UNCHANGED <<able, last, log, reserved>>
    /\ Counted(passed, logged)

(* ... or the drain dies or raises, and the attempt stays as it is.         *)
Leave(d) ==
    /\ turn[d].pc = "given"
    /\ Change
    /\ left' = Moved(turn[d].agent, "drain", "held")
    /\ turn' = [turn EXCEPT ![d] = Idle]
    /\ UNCHANGED <<able, chats, last, log, reserved>>
    /\ Counted(passed, logged)

-----------------------------------------------------------------------------
(* repair_assignment_attempts, or whoever else finds an attempt open: its   *)
(* owner is found written and it is logged, whatever happened since ...     *)
RepairLogs(a) == \E from \in {"held", "unread"} :
    /\ left[from][a] > 0
    /\ left' = Moved(a, from, "gone")
    /\ log' = a
    /\ UNCHANGED <<able, chats, last, turn, reserved, changes>>
    /\ Counted(passed, OwnLog(a))

(* ... or it is undone, or a failure leaves it to be read again ...         *)
RepairUndoes(a) == \E from \in Ways, to \in {"gone", "retryable", "unread"} :
    /\ left[from][a] > 0
    /\ from # to /\ (from = "unread" => to = "gone")
    /\ left' = Moved(a, from, to)
    /\ chats' = [chats EXCEPT ![a] = IF from = "held" THEN @ - 1 ELSE @]
    /\ UNCHANGED <<able, last, log, turn, reserved, changes>>
    /\ Counted(passed, logged)

(* ... or reserved again, for the same agent (retry_assignment_attempt).    *)
Retry(a) ==
    /\ left["retryable"][a] > 0 /\ Eligible(a)
    /\ Reserved(a)
    /\ left' = Moved(a, "retryable", "held")
    /\ UNCHANGED <<able, log, turn, changes>>
    /\ Counted(passed, logged)

Repair(a) == RepairLogs(a) \/ RepairUndoes(a) \/ Retry(a)

Next ==
    \/ \E a \in Team : Flip(a) \/ Ends(a) \/ Assigned(a) \/ Repair(a)
    \/ \E d \in Drains : Rank(d) \/ Reserve(d) \/ Finalize(d) \/ Compensate(d) \/ Leave(d)

Spec == Init /\ [][Next]_vars

-----------------------------------------------------------------------------
(***************************************************************************)
(* Nobody is passed over for long: while an agent may be given a ticket,   *)
(* each overlapping drain gives the others at most one ticket per agent    *)
(* before the agent has its turn, and one more for each assignment of the  *)
(* agent itself that is logged meanwhile: a log that comes late, from a    *)
(* drain or from the repair, leaves the agent out of the rankings once     *)
(* more, although others had tickets since.  An agent counts from when it  *)
(* may be given a ticket, or from its own last reservation, whatever       *)
(* became of that one.  What the repair logs for others is not counted.    *)
(***************************************************************************)
BoundedBypass == \A a \in Team : passed[a] <= Cardinality(Drains) * (N + logged[a])
=============================================================================
