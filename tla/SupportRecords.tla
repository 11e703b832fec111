--------------------------- MODULE SupportRecords ---------------------------
(***************************************************************************)
(* The rows that the assignment protocol of apps/support keeps in the      *)
(* database, and what one committed transaction does to them.              *)
(*                                                                         *)
(* Configuration modelled: SUPPORT_CAPACITY_MODE = off (the default: an    *)
(* agent's load is a counter on the agent row), CONVERSATION_CYCLES_       *)
(* ENFORCED = True with HUBSPOT_PORTAL_ID set, HUBSPOT_PROVIDER_CONTRACT_  *)
(* MODE = off.                                                             *)
(*                                                                         *)
(* A cycle is identified by the time its ticket entered the NOVO stage, so *)
(* cycles are numbers and a later entry is a larger number.  A row whose   *)
(* cycle column is null belongs to its ticket only: the scope of a row,    *)
(* attempt or assignment is its cycle, or else its ticket.                 *)
(***************************************************************************)
EXTENDS Naturals, FiniteSets

CONSTANTS
    Tickets,      \* HubSpot ticket ids
    Cycles,       \* proven NOVO entries, ordered by time
    TicketOf,     \* the ticket each cycle belongs to
    Agents,       \* rows of the agents table, by their HubSpot owner id
    Externals,    \* HubSpot owners that have no agent row
    Nobody,       \* no owner
    NoConv,       \* no AssignedConversation row
    Types,        \* assignment types: "automatic", "manual"
    MaxChats      \* Agent.max_simultaneous_chats

ASSUME CyclesAssumption == Cycles \subseteq Nat \ {0} /\ TicketOf \in [Cycles -> Tickets]
ASSUME ScopesAssumption == Tickets \cap Cycles = {}
ASSUME TypesAssumption == Types \subseteq {"automatic", "manual"} /\ "automatic" \in Types
ASSUME OwnersAssumption == Agents \cap Externals = {} /\ Nobody \notin Agents \cup Externals
ASSUME ConvAssumption == NoConv \notin Agents \cup Externals \cup {Nobody}
ASSUME MaxChatsAssumption == MaxChats \in Nat \ {0}

VARIABLES
    cycle,        \* SupportConversationCycle.state of each cycle, "none": no row
    row,          \* the NewConversation row of each ticket
    att,          \* AssignmentAttempt rows, by scope and assignment type
    conv,         \* AssignedConversation.hubspot_owner_id, by scope
    load          \* Agent.current_simultaneous_chats

records == <<cycle, row, att, conv, load>>

Owners == Agents \cup Externals
Scopes == Cycles \cup Tickets
ScopeTicket(s) == IF s \in Cycles THEN TicketOf[s] ELSE s
Keys == Scopes \X Types           \* idempotency_key = uuid5(scope, type), unique
NoKey == <<0, "none">>
KeyTicket(k) == ScopeTicket(k[1])

Live == {"reserved", "external_applied", "retryable", "repair_required"}
Terminal == {"completed", "compensated"}
Active == {"queued", "assigned"}

CycleStates == {"none", "closed"} \cup Active
Row == [scope : Scopes, status : {"none", "ready", "failed"}, notFound : BOOLEAN]
Attempt == [state : {"none"} \cup Live \cup Terminal, agent : Agents \cup {Nobody},
            released : BOOLEAN, linked : BOOLEAN]

NoRow(t) == [scope |-> t, status |-> "none", notFound |-> FALSE]
NoAttempt == [state |-> "none", agent |-> Nobody, released |-> FALSE, linked |-> FALSE]

RecordsTypeOK ==
    /\ cycle \in [Cycles -> CycleStates]
    /\ row \in [Tickets -> Row]
    /\ att \in [Keys -> Attempt]
    /\ conv \in [Scopes -> Owners \cup {NoConv}]
    /\ load \in [Agents -> Nat]

RecordsInit ==
    /\ cycle = [c \in Cycles |-> "none"]
    /\ row = [t \in Tickets |-> NoRow(t)]
    /\ att = [k \in Keys |-> NoAttempt]
    /\ conv = [s \in Scopes |-> NoConv]
    /\ load = [a \in Agents |-> 0]

-----------------------------------------------------------------------------
(* The agent counter: F() + 1, and Greatest(F() - 1, 0).  An owner without *)
(* an agent row has no counter.                                             *)
Incremented(l, o) == IF o \in Agents THEN [l EXCEPT ![o] = @ + 1] ELSE l
Decremented(l, o) == IF o \in Agents /\ l[o] > 0 THEN [l EXCEPT ![o] = @ - 1] ELSE l

(* Deleting the queue row of a ticket nulls the queue_row reference of its *)
(* attempts (on_delete=SET_NULL).                                          *)
Unlinked(attempts, t) ==
    [k \in Keys |-> IF KeyTicket(k) = t THEN [attempts[k] EXCEPT !.linked = FALSE]
                                        ELSE attempts[k]]

LiveKeys(s) == {k \in Keys : k[1] = s /\ att[k].state \in Live}
Held(t) == {s \in Scopes : ScopeTicket(s) = t /\ conv[s] # NoConv}

(* A cycle must still be queued; a scope without a cycle is not checked.    *)
(* With a bug: it is enough that the cycle was opened.                      *)
OnQueueOnceOpened(s) == s \in Cycles => cycle[s] # "none"
OnQueue(s) == s \in Cycles => cycle[s] = "queued"

(* compensate_assignment_attempt is a no-op on a terminal attempt, and, for *)
(* a retry or a repair, on one whose capacity was already given back.       *)
CompensationSkipped(rec, mode) ==
    \/ rec.state \in Terminal
    \/ rec.released /\ mode \in {"retry", "repair"}

CompensatedState(mode) ==
    CASE mode = "retry"  -> "retryable"
      [] mode = "repair" -> "repair_required"
      [] OTHER           -> "compensated"

(* The compensation of attempt k, whose row reads rec and whose agent       *)
(* counters read counters inside the transaction.                           *)
Compensate(k, rec, counters, mode) ==
    LET skip == CompensationSkipped(rec, mode)
        t == KeyTicket(k)
        itsRow == rec.linked /\ (k[1] \in Tickets \/ row[t].scope = k[1])
    IN /\ att' = [att EXCEPT ![k] =
                    IF skip THEN rec
                    ELSE [rec EXCEPT !.state = CompensatedState(mode), !.released = TRUE]]
       /\ load' = IF skip \/ rec.released THEN counters ELSE Decremented(counters, rec.agent)
       /\ row' = IF skip \/ ~itsRow THEN row
                 ELSE [row EXCEPT ![t].status = IF mode \in {"not_found", "quarantine"}
                                                THEN "failed" ELSE "ready",
                                  ![t].notFound = (mode = "not_found")]
       /\ UNCHANGED <<cycle, conv>>

(* update_or_create of the AssignedConversation looks the cycle up, or, for *)
(* an attempt without one, the only assignment of the ticket, from which it *)
(* then removes the cycle.                                                  *)
Finalizable(k) ==
    /\ OnQueue(k[1])
    /\ k[1] \in Tickets => \A s, u \in Held(KeyTicket(k)) : s = u

(* The cycle states after scope s left the queue for an owner.  With a bug: *)
(* the cycle stays queued.                                                  *)
LeftInQueue(s) == cycle
LeaveQueue(s) == IF s \in Cycles THEN [cycle EXCEPT ![s] = "assigned"] ELSE cycle

(* The finalization of attempt k: the assignment is projected, the queue row *)
(* is consumed and the cycle leaves the queue, in one transaction.           *)
Finalize(k, rec, counters) ==
    LET t == KeyTicket(k)
        done == [rec EXCEPT !.state = "completed", !.linked = FALSE]
        replaced == IF k[1] \in Tickets THEN Held(t) ELSE {}
    IN /\ Finalizable(k)
       /\ att' = [(IF rec.linked THEN Unlinked(att, t) ELSE att) EXCEPT ![k] = done]
       /\ conv' = [s \in Scopes |-> IF s = k[1] THEN rec.agent
                                    ELSE IF s \in replaced THEN NoConv ELSE conv[s]]
       /\ row' = IF rec.linked THEN [row EXCEPT ![t] = NoRow(t)] ELSE row
       /\ cycle' = LeaveQueue(k[1])
       /\ load' = counters

(* A new reservation: capacity is taken before the provider is called.  A   *)
(* second attempt of the same scope and type would repeat the idempotency   *)
(* key, and the insert aborts the transaction.                              *)
Create(k, a) ==
    /\ att[k].state = "none"
    /\ load[a] < MaxChats
    /\ att' = [att EXCEPT ![k] = [state |-> "reserved", agent |-> a,
                                  released |-> FALSE, linked |-> TRUE]]
    /\ load' = Incremented(load, a)
    /\ UNCHANGED <<cycle, row, conv>>
=============================================================================
