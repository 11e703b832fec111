-------------------------- MODULE DurableAssignment --------------------------
(***************************************************************************)
(* The durable assignment protocol of apps/support: workers that reserve   *)
(* an agent for a queued ticket, set the owner in HubSpot, read it back    *)
(* and finalize or compensate, the repair task that converges what they    *)
(* left behind, and the webhook handlers (queue entry, owner change,       *)
(* closure) that move the same rows meanwhile.                             *)
(*                                                                         *)
(* Every database transaction is one action; every HubSpot call is an      *)
(* action of its own, because the code holds no lock across it.  The one   *)
(* exception is the repair task, which keeps the attempt row (and, on a    *)
(* retry, the agent row) locked for as long as it works on an attempt.     *)
(*                                                                         *)
(* Deadlines (claim TTL, retry backoff, the age a stuck attempt must have) *)
(* only delay a step and time is unbounded between any two steps, so they  *)
(* do not guard anything here.                                             *)
(***************************************************************************)
EXTENDS SupportRecords

CONSTANTS
    Workers,          \* Celery workers and API threads
    MaxOwnerEdits,    \* bound: owner edits made by people in HubSpot
    MaxStageMoves,    \* bound: moves of tickets out of NOVO, and closures
    MaxFaults,        \* bound: processes that die, repairs that raise
    MaxDeliveries     \* bound: deliveries of NOVO entries

ASSUME BoundsAssumption == {MaxOwnerEdits, MaxStageMoves, MaxFaults, MaxDeliveries} \subseteq Nat

VARIABLES
    hub,              \* HubSpot's ticket: stage, owner, last NOVO entry
    ownerEvents,      \* owner changes HubSpot has announced by webhook
    closings,         \* cycles whose closure HubSpot has announced
    worker,           \* what each worker is executing
    entry,            \* how far the task that handles each NOVO entry has come
    closeReads,       \* closures whose ticket was read as closed, not yet applied
    ownerTasks,       \* owner changes read back, not yet applied
    spent             \* how much of each bound is used up

provider == <<hub, ownerEvents, closings>>
handlers == <<entry, closeReads, ownerTasks>>
vars == <<records, provider, worker, handlers, spent>>

Steps == {"idle", "start", "preread", "patch", "readback", "reread", "compensate",
          "confirm", "finalize", "repair", "retry", "take", "handler"}
Modes == {"retry", "stale", "not_found", "quarantine", "repair"}
Results == {"ok", "retryable", "permanent"}
Transactions == {"no", "repair", "retry"}

Idle == [pc |-> "idle", key |-> NoKey, arg |-> "none", tx |-> "no"]
OwnerChange == [ticket : Tickets, prev : Owners \cup {Nobody}, new : Owners \cup {Nobody}]

(* The type invariant: every column, event and worker keeps its type. *)
ProviderTypeOK ==
    /\ hub \in [Tickets -> [stage : {"none", "novo", "working", "closed"},
                            owner : Owners \cup {Nobody}, era : Cycles \cup {0}]]
    /\ ownerEvents \subseteq OwnerChange
    /\ closings \subseteq Cycles

WorkersTypeOK ==
    /\ worker \in [Workers -> [pc : Steps, key : Keys \cup {NoKey},
                               arg : Modes \cup Results \cup {"none"}, tx : Transactions]]
    /\ \A w \in Workers : worker[w].pc # "idle" => worker[w].key \in Keys

HandlersTypeOK ==
    /\ entry \in [Cycles -> {"none", "read", "opened", "found"}]
    /\ closeReads \subseteq Cycles
    /\ ownerTasks \subseteq OwnerChange

SpentTypeOK == spent \in [edits : 0..MaxOwnerEdits, moves : 0..MaxStageMoves,
                          faults : 0..MaxFaults, deliveries : 0..MaxDeliveries]

TypeOK == RecordsTypeOK /\ ProviderTypeOK /\ WorkersTypeOK /\ HandlersTypeOK /\ SpentTypeOK

Init ==
    /\ RecordsInit
    /\ hub = [t \in Tickets |-> [stage |-> "none", owner |-> Nobody, era |-> 0]]
    /\ spent = [edits |-> 0, moves |-> 0, faults |-> 0, deliveries |-> 0]
    /\ ownerEvents = {}
    /\ closings = {}
    /\ worker = [w \in Workers |-> Idle]
    /\ entry = [c \in Cycles |-> "none"]
    /\ closeReads = {}
    /\ ownerTasks = {}

-----------------------------------------------------------------------------
(* HubSpot and the people who work in it.                                  *)

Fault == spent.faults < MaxFaults /\ spent' = [spent EXCEPT !.faults = @ + 1]

SetOwner(t, o) ==
    /\ hub' = [hub EXCEPT ![t].owner = o]
    /\ ownerEvents' = ownerEvents \cup {[ticket |-> t, prev |-> hub[t].owner, new |-> o]}

(* A ticket enters NOVO for the first time, or comes back after a closure,  *)
(* with the owner it had or with none.                                      *)
HubEnterNovo(c) ==
    LET t == TicketOf[c] IN
    /\ hub[t].era < c
    /\ \A d \in Cycles : TicketOf[d] = t /\ d < c => d <= hub[t].era
    /\ hub[t].stage \in {"none", "closed"}
    /\ \E o \in {hub[t].owner, Nobody} :
         /\ hub' = [hub EXCEPT ![t] = [stage |-> "novo", owner |-> o, era |-> c]]
         /\ ownerEvents' = IF o = hub[t].owner THEN ownerEvents
              ELSE ownerEvents \cup {[ticket |-> t, prev |-> hub[t].owner, new |-> o]}
    /\ UNCHANGED <<records, closings, worker, handlers, spent>>

StageMove == spent.moves < MaxStageMoves /\ spent' = [spent EXCEPT !.moves = @ + 1]

HubMoveOn(t) ==
    /\ hub[t].stage = "novo"
    /\ StageMove
    /\ hub' = [hub EXCEPT ![t].stage = "working"]
    /\ UNCHANGED <<records, ownerEvents, closings, worker, handlers>>

HubClose(t) ==
    /\ hub[t].stage \in {"novo", "working"}
    /\ StageMove
    /\ hub' = [hub EXCEPT ![t].stage = "closed"]
    /\ closings' = closings \cup {hub[t].era}
    /\ UNCHANGED <<records, ownerEvents, worker, handlers>>

HubEditOwner(t, o) ==
    /\ hub[t].stage # "none"
    /\ spent.edits < MaxOwnerEdits
    /\ hub[t].owner # o
    /\ SetOwner(t, o)
    /\ spent' = [spent EXCEPT !.edits = @ + 1]
    /\ UNCHANGED <<records, closings, worker, handlers>>

-----------------------------------------------------------------------------
(* enqueue_new_ticket: read the ticket, open the cycle, create the row and  *)
(* give it the cycle, each in its own transaction.  HubSpot may deliver an  *)
(* entry again at any time; a Redis lock keeps two deliveries of the same   *)
(* entry from overlapping.                                                  *)

EntryStep(c, from, to) == entry[c] = from /\ entry' = [entry EXCEPT ![c] = to]

EnqueueRead(c) ==
    LET t == TicketOf[c] IN
    /\ hub[t].era >= c
    /\ hub[t].stage = "novo"
    /\ hub[t].owner = Nobody
    /\ spent.deliveries < MaxDeliveries
    /\ spent' = [spent EXCEPT !.deliveries = @ + 1]
    /\ EntryStep(c, "none", "read")
    /\ UNCHANGED <<records, provider, worker, closeReads, ownerTasks>>

SameTicket(c) == {d \in Cycles : TicketOf[d] = TicketOf[c] /\ cycle[d] # "none"}
(* A newer occurrence is known, or the ticket still has an active cycle. *)
Blocked(c) == \E d \in SameTicket(c) : d > c \/ cycle[d] \in Active

(* classify_cycle_admission: a known occurrence is a duplicate and goes on; *)
(* a stale one, or one that meets an active cycle, ends here.               *)
OpenCycle(c) ==
    /\ \/ cycle[c] # "none" /\ EntryStep(c, "read", "opened") /\ cycle' = cycle
       \/ cycle[c] = "none" /\ Blocked(c) /\ EntryStep(c, "read", "none") /\ cycle' = cycle
       \/ /\ cycle[c] = "none" /\ ~Blocked(c)
          /\ EntryStep(c, "read", "opened")
          /\ cycle' = [cycle EXCEPT ![c] = "queued"]
    /\ UNCHANGED <<row, att, conv, load, provider, worker, closeReads, ownerTasks, spent>>

(* The row is found by ticket, or created without a cycle; one that was     *)
(* quarantined for a 404 is revived.                                        *)
FindRow(c) ==
    LET t == TicketOf[c] IN
    /\ EntryStep(c, "opened", "found")
    /\ row' = IF row[t].status = "none" \/ (row[t].status = "failed" /\ row[t].notFound)
              THEN [row EXCEPT ![t].status = "ready", ![t].notFound = FALSE] ELSE row
    /\ UNCHANGED <<cycle, att, conv, load, provider, worker, closeReads, ownerTasks, spent>>

(* The row, if it still exists, is pointed at the cycle of this occurrence. *)
PointRow(c) ==
    LET t == TicketOf[c] IN
    /\ EntryStep(c, "found", "none")
    /\ row' = IF row[t].status = "none" THEN row ELSE [row EXCEPT ![t].scope = c]
    /\ UNCHANGED <<cycle, att, conv, load, provider, worker, closeReads, ownerTasks, spent>>

(* The process dies between two of these transactions. *)
EnqueueDies(c) ==
    /\ entry[c] # "none"
    /\ entry' = [entry EXCEPT ![c] = "none"]
    /\ Fault
    /\ UNCHANGED <<records, provider, worker, closeReads, ownerTasks>>

-----------------------------------------------------------------------------
(* Workers.                                                                 *)

Goto(w, pc, arg) == worker' = [worker EXCEPT ![w].pc = pc, ![w].arg = arg]
Done(w) == worker' = [worker EXCEPT ![w] = Idle]
Begin(w, k, pc) ==
    worker' = [worker EXCEPT ![w] = [pc |-> pc, key |-> k, arg |-> "none", tx |-> "no"]]

(* Row locks that the repair transactions of some workers hold.  With a bug: *)
(* the row is read without select_for_update.                               *)
NoAttemptLock(k, others) == FALSE
AttemptLocked(k, others) ==
    \E v \in others : worker[v].tx # "no" /\ worker[v].key = k
NoAgentLock(a, others) == FALSE
AgentLocked(a, others) ==
    \E v \in others : worker[v].tx = "retry" /\ att[worker[v].key].agent = a
Others(w) == Workers \ {w}
RowDeletable(t, others) ==     \* the attempts that point at the row are updated
    \A k \in Keys : KeyTicket(k) = t /\ att[k].linked => ~AttemptLocked(k, others)
CanLock(w, k) == ~AttemptLocked(k, Others(w)) /\ ~AgentLocked(att[k].agent, Others(w))

(* What a worker's own transaction reads: a retry has re-reserved the      *)
(* attempt and its agent but not committed yet.  With a bug: the mark that  *)
(* the capacity was given back stays set.                                   *)
SeenWithoutReset(w) ==
    LET rec == att[worker[w].key] IN
    IF worker[w].tx = "retry" THEN [rec EXCEPT !.state = "reserved"] ELSE rec
Seen(w) ==
    LET rec == att[worker[w].key] IN
    IF worker[w].tx = "retry" THEN [rec EXCEPT !.state = "reserved", !.released = FALSE]
                              ELSE rec
Counters(w) == IF worker[w].tx = "retry" THEN Incremented(load, Seen(w).agent) ELSE load

At(w, pc) == worker[w].pc = pc
Key(w) == worker[w].key
HubOf(w) == hub[KeyTicket(Key(w))]

(* The ticket, as HubSpot reports it, has the owner of the attempt.  With a *)
(* bug: a ticket that has no owner counts as assigned, too.                 *)
ConfirmsOrUnowned(w) == HubOf(w).owner \in {Nobody, Seen(w).agent}
Confirms(w) == HubOf(w).owner = Seen(w).agent

-----------------------------------------------------------------------------
(* reserve_next_assignment and reserve_manual_assignment.                   *)

(* A ready row is quarantined when its cycle has left the queue, or when it *)
(* has no cycle and the ticket already had a completed assignment.          *)
ReserveStale(w, t) ==
    LET ambiguous == \E k \in Keys : KeyTicket(k) = t /\ att[k].state = "completed" IN
    /\ At(w, "idle")
    /\ row[t].status = "ready"
    /\ ~OnQueue(row[t].scope) \/ (row[t].scope = t /\ ambiguous)
    /\ row' = [row EXCEPT ![t].status = "failed", ![t].notFound = FALSE]
    /\ UNCHANGED <<cycle, att, conv, load, provider, worker, handlers, spent>>

(* The automatic path takes a ready row, the manual one any row. *)
Reservable(t, ty) ==
    /\ ty \in Types
    /\ row[t].status \in IF ty = "automatic" THEN {"ready"} ELSE {"ready", "failed"}
    /\ OnQueue(row[t].scope)
    /\ ty = "automatic" /\ row[t].scope = t =>
          \A k \in Keys : KeyTicket(k) = t => att[k].state # "completed"

(* A live attempt of the scope is taken over, whatever its type. *)
ReserveExisting(w, t, k) ==
    /\ At(w, "idle")
    /\ \E ty \in Types : Reservable(t, ty)
    /\ k \in LiveKeys(row[t].scope)
    /\ ~AttemptLocked(k, Others(w))
    /\ Begin(w, k, "start")
    /\ UNCHANGED <<records, provider, handlers, spent>>

(* Otherwise an agent below its maximum is reserved. *)
ReserveNew(w, t, ty, a) ==
    LET k == <<row[t].scope, ty>> IN
    /\ At(w, "idle")
    /\ Reservable(t, ty)
    /\ LiveKeys(row[t].scope) = {}
    /\ ~AgentLocked(a, Others(w))
    /\ Create(k, a)
    /\ Begin(w, k, "start")
    /\ UNCHANGED <<provider, handlers, spent>>

-----------------------------------------------------------------------------
(* _execute_assignment_attempt *)

Start(w) ==
    LET rec == Seen(w) IN
    /\ At(w, "start")
    /\ CASE rec.state = "completed" -> Done(w)
         [] rec.state # "completed" /\ ~OnQueue(Key(w)[1]) -> Goto(w, "compensate", "stale")
         [] rec.state = "external_applied" /\ OnQueue(Key(w)[1]) -> Goto(w, "readback", "ok")
         [] rec.state = "reserved" /\ OnQueue(Key(w)[1]) -> Goto(w, "preread", "none")
         [] OTHER -> Done(w)
    /\ UNCHANGED <<records, provider, handlers, spent>>

(* The precondition read.  A ticket that left NOVO, or that somebody else   *)
(* owns, is left alone; one that already has the desired owner is confirmed.*)
PreRead(w) ==
    /\ At(w, "preread")
    /\ \/ Goto(w, "compensate", "not_found")
       \/ Goto(w, "compensate", "retry")
       \/ HubOf(w).stage # "novo" /\ Goto(w, "compensate", "quarantine")
       \/ /\ HubOf(w).stage = "novo"
          /\ HubOf(w).owner \notin {Nobody, Seen(w).agent}
          /\ Goto(w, "compensate", "quarantine")
       \/ /\ HubOf(w).stage = "novo"
          /\ Confirms(w)
          /\ Goto(w, "confirm", "none")
       \/ HubOf(w).stage = "novo" /\ HubOf(w).owner = Nobody /\ Goto(w, "patch", "none")
    /\ UNCHANGED <<records, provider, handlers, spent>>

(* The owner PATCH: applied or not, and either way possibly reported as an  *)
(* error.  HubSpot replaces whatever owner the ticket has by then.          *)
PatchApplied(w) ==
    LET t == KeyTicket(Key(w))
        a == Seen(w).agent
    IN /\ At(w, "patch")
       /\ IF hub[t].owner = a THEN UNCHANGED <<hub, ownerEvents>> ELSE SetOwner(t, a)
       /\ \E result \in {"ok", "retryable"} : Goto(w, "readback", result)
       /\ UNCHANGED <<records, closings, handlers, spent>>

PatchRejected(w) ==
    /\ At(w, "patch")
    /\ \/ \E result \in {"retryable", "permanent"} : Goto(w, "readback", result)
       \/ Goto(w, "compensate", "not_found")
    /\ UNCHANGED <<records, provider, handlers, spent>>

(* reconcile_ambiguous_attempt: first the cycle, then the provider's owner. *)
Readback(w) ==
    /\ At(w, "readback")
    /\ IF Key(w)[1] \in Cycles /\ cycle[Key(w)[1]] \notin Active
       THEN Goto(w, "compensate", "stale") ELSE Goto(w, "reread", worker[w].arg)
    /\ UNCHANGED <<records, provider, handlers, spent>>

Reread(w) ==
    LET owner == HubOf(w).owner
        unconfirmed == owner = Nobody /\ worker[w].arg \in {"ok", "retryable"}
    IN /\ At(w, "reread")
       /\ \/ Goto(w, "compensate", "repair")
          \/ Confirms(w) /\ Goto(w, "confirm", "none")
          \/ unconfirmed /\ Goto(w, "compensate", "retry")
          \/ ~Confirms(w) /\ ~unconfirmed /\ Goto(w, "compensate", "repair")
       /\ UNCHANGED <<records, provider, handlers, spent>>

CompensateStep(w) ==
    /\ At(w, "compensate")
    /\ CanLock(w, Key(w))
    /\ Compensate(Key(w), Seen(w), Counters(w), worker[w].arg)
    /\ Done(w)
    /\ UNCHANGED <<provider, handlers, spent>>

(* _mark_external_applied, as a transaction of its own. *)
Markable == {"reserved", "external_applied", "repair_required"}

MarkExternalApplied(w) ==
    LET rec == att[Key(w)] IN
    /\ At(w, "confirm")
    /\ worker[w].tx = "no"
    /\ ~AttemptLocked(Key(w), Others(w))
    /\ IF rec.state \in Markable
       THEN /\ att' = [att EXCEPT ![Key(w)].state = "external_applied"]
            /\ Goto(w, "finalize", "none")
       ELSE att' = att /\ Done(w)
    /\ UNCHANGED <<cycle, row, conv, load, provider, handlers, spent>>

Consumable(w) == att[Key(w)].linked => RowDeletable(KeyTicket(Key(w)), Others(w))

FinalizeStep(w) ==
    LET rec == att[Key(w)] IN
    /\ At(w, "finalize")
    /\ CanLock(w, Key(w))
    /\ IF rec.state = "external_applied" /\ Finalizable(Key(w))
       THEN Finalize(Key(w), rec, load) /\ Consumable(w)
       ELSE UNCHANGED records
    /\ Done(w)
    /\ UNCHANGED <<provider, handlers, spent>>

-----------------------------------------------------------------------------
(* repair_assignment_attempts and retry_assignment_attempt.                 *)

(* The scan reads attempts without a lock ...  With a bug: it leaves out the *)
(* attempts that only got as far as the reservation.                        *)
RepairScanApplied(w, k) ==
    /\ At(w, "idle")
    /\ att[k].state \in Live \ {"reserved"}
    /\ Begin(w, k, "repair")
    /\ UNCHANGED <<records, provider, handlers, spent>>
RepairScan(w, k) ==
    /\ At(w, "idle")
    /\ att[k].state \in Live
    /\ Begin(w, k, "repair")
    /\ UNCHANGED <<records, provider, handlers, spent>>

(* ... and each attempt is locked afterwards, in whatever state it then is. *)
RepairLock(w) ==
    /\ At(w, "repair")
    /\ IF AttemptLocked(Key(w), Others(w))
       THEN Done(w)
       ELSE worker' = [worker EXCEPT ![w].tx = "repair",
                         ![w].pc = IF att[Key(w)].state = "retryable" THEN "retry" ELSE "readback",
                         ![w].arg = IF att[Key(w)].state = "retryable" THEN "none" ELSE "ok"]
    /\ UNCHANGED <<records, provider, handlers, spent>>

(* A retry of a cycle that left the queue is skipped, the attempt unchanged. *)
RetryCheck(w) ==
    /\ At(w, "retry")
    /\ IF OnQueue(Key(w)[1]) THEN Goto(w, "take", "none") ELSE Done(w)
    /\ UNCHANGED <<records, provider, handlers, spent>>

(* The agent may have become ineligible, or full; else it is reserved again. *)
RetryTake(w) ==
    LET a == att[Key(w)].agent IN
    /\ At(w, "take")
    /\ ~AgentLocked(a, Others(w))
    /\ \/ Done(w)
       \/ /\ load[a] < MaxChats
          /\ worker' = [worker EXCEPT ![w].tx = "retry", ![w].pc = "start"]
    /\ UNCHANGED <<records, provider, handlers, spent>>

(* Inside the repair transaction the confirmation and the finalization      *)
(* commit together or raise together.                                       *)
RepairConfirm(w) ==
    LET rec == Seen(w) IN
    /\ At(w, "confirm")
    /\ worker[w].tx # "no"
    /\ CanLock(w, Key(w))
    /\ CASE rec.state = "completed" -> UNCHANGED records /\ Done(w)
         [] rec.state \in Markable /\ Finalizable(Key(w)) ->
              Finalize(Key(w), rec, Counters(w)) /\ Consumable(w) /\ Done(w)
         [] OTHER -> /\ UNCHANGED records
                     /\ worker' = [worker EXCEPT ![w].pc = "handler", ![w].tx = "no"]
    /\ UNCHANGED <<provider, handlers, spent>>

(* Any exception rolls the transaction back ... *)
RepairRaises(w) ==
    /\ worker[w].tx # "no"
    /\ worker' = [worker EXCEPT ![w].pc = "handler", ![w].arg = "none", ![w].tx = "no"]
    /\ Fault
    /\ UNCHANGED <<records, provider, handlers>>

(* ... and the handler then marks the attempt, unless that would make it a  *)
(* second live attempt of its cycle (uniq_live_assignment_cycle).  The      *)
(* index does not cover attempts without a cycle.  With a bug: there is no  *)
(* index.                                                                   *)
RepairHandlerNoIndex(w) ==
    /\ At(w, "handler")
    /\ ~AttemptLocked(Key(w), Others(w))
    /\ att' = [att EXCEPT ![Key(w)].state = "repair_required"]
    /\ Done(w)
    /\ UNCHANGED <<cycle, row, conv, load, provider, handlers, spent>>
RepairHandler(w) ==
    LET k == Key(w) IN
    /\ At(w, "handler")
    /\ ~AttemptLocked(k, Others(w))
    /\ att' = IF k[1] \in Tickets \/ LiveKeys(k[1]) \ {k} = {}
              THEN [att EXCEPT ![k].state = "repair_required"] ELSE att
    /\ Done(w)
    /\ UNCHANGED <<cycle, row, conv, load, provider, handlers, spent>>

(* The process dies, or the task raises outside a repair: the database      *)
(* keeps what was committed.                                                *)
Crash(w) ==
    /\ ~At(w, "idle")
    /\ Done(w)
    /\ Fault
    /\ UNCHANGED <<records, provider, handlers>>

(* purge_terminal_assignment_attempts, long after any task that held the    *)
(* attempt is gone.                                                         *)
Purge(k) ==
    /\ att[k].state \in Terminal
    /\ \A w \in Workers : Key(w) # k
    /\ att' = [att EXCEPT ![k] = NoAttempt]
    /\ UNCHANGED <<cycle, row, conv, load, provider, worker, handlers, spent>>

-----------------------------------------------------------------------------
(* Closure: reconcile_close_occurrence reads HubSpot, then                  *)
(* apply_close_occurrence resolves the target again under the cycle locks.  *)

(* The latest known cycle that the closure can belong to.  A later one opens *)
(* only after it has left the active states, so an active target is current. *)
IsCloseTarget(d, c) ==
    /\ d \in SameTicket(c)
    /\ d <= c
    /\ \A e \in SameTicket(c) : e <= c => e <= d
IsCurrent(d) == \A e \in SameTicket(d) : e <= d

CloseRead(c) ==
    LET t == TicketOf[c] IN
    /\ c \in closings \ closeReads
    /\ \E d \in Cycles : IsCloseTarget(d, c) /\ IsCurrent(d) /\ cycle[d] \in Active
    /\ hub[t].stage = "closed"
    /\ hub[t].era <= c
    /\ closeReads' = closeReads \cup {c}
    /\ UNCHANGED <<records, provider, worker, entry, ownerTasks, spent>>

CloseApply(c) ==
    LET t == TicketOf[c] IN
    /\ c \in closeReads
    /\ closeReads' = closeReads \ {c}
    /\ \/ \E d \in Cycles :
            /\ IsCloseTarget(d, c)
            /\ IsCurrent(d)
            /\ cycle[d] \in Active
            /\ ~AgentLocked(conv[d], Workers)
            /\ load' = Decremented(load, conv[d])
            /\ conv' = [conv EXCEPT ![d] = NoConv]
            /\ cycle' = [cycle EXCEPT ![d] = "closed"]
            /\ IF row[t].scope = d /\ row[t].status # "none"
               THEN /\ RowDeletable(t, Workers)
                    /\ row' = [row EXCEPT ![t] = NoRow(t)]
                    /\ att' = Unlinked(att, t)
               ELSE UNCHANGED <<row, att>>
       \/ /\ ~\E d \in Cycles : IsCloseTarget(d, c) /\ IsCurrent(d) /\ cycle[d] \in Active
          /\ UNCHANGED records
    /\ UNCHANGED <<provider, worker, entry, ownerTasks, spent>>

-----------------------------------------------------------------------------
(* Owner change webhooks: task_handle_owner_change.                         *)

Persisted(t) == {conv[s] : s \in Held(t)}

(* Without a previous owner in the payload the current owner is read.       *)
OwnerRead(e) ==
    /\ e \in ownerEvents
    /\ IF Held(e.ticket) = {} THEN row[e.ticket].status = "ready" /\ e.new # Nobody
                              ELSE Persisted(e.ticket) # {e.new}
    /\ ownerTasks' = ownerTasks \cup
         {[ticket |-> e.ticket, prev |-> Nobody, new |-> hub[e.ticket].owner]}
    /\ UNCHANGED <<records, provider, worker, entry, closeReads, spent>>

(* A queued ticket that got an owner outside the protocol: the queue row    *)
(* becomes an assignment of that owner, after its live attempt, if it has   *)
(* one, is compensated, or finalized when it was only waiting for that.     *)
Adopt(t, o, attempts, counters) ==
    /\ att' = Unlinked(attempts, t)
    /\ load' = Incremented(counters, o)
    /\ conv' = [conv EXCEPT ![row[t].scope] = o]
    /\ cycle' = IF OnQueue(row[t].scope) THEN LeaveQueue(row[t].scope) ELSE cycle
    /\ row' = [row EXCEPT ![t] = NoRow(t)]

ConvergeQueued(e) ==
    LET t == e.ticket
        linked == {k \in Keys : KeyTicket(k) = t /\ att[k].linked /\ att[k].state \in Live}
    IN /\ Held(t) = {}
       /\ e.new # Nobody
       /\ row[t].status = "ready"
       /\ ~AgentLocked(e.new, Workers)
       /\ RowDeletable(t, Workers)
       /\ \/ linked = {} /\ Adopt(t, e.new, att, load)
          \/ \E k \in linked :
               /\ ~AgentLocked(att[k].agent, Workers)
               /\ IF att[k].agent = e.new /\ att[k].state = "external_applied"
                  THEN Finalize(k, att[k], load)
                  ELSE Adopt(t, e.new,
                      [att EXCEPT ![k].state = "compensated", ![k].released = TRUE],
                      IF att[k].released THEN load ELSE Decremented(load, att[k].agent))

(* An assigned ticket that changed hands: the counters move with it.  The   *)
(* owner column is not nullable, so a removed owner cannot be recorded.     *)
Transfer(e) ==
    \E s \in Held(e.ticket) :
       /\ e.prev # Nobody => conv[s] = e.prev
       /\ e.new \notin {Nobody, conv[s]}
       /\ ~AgentLocked(conv[s], Workers)
       /\ ~AgentLocked(e.new, Workers)
       /\ load' = Incremented(Decremented(load, conv[s]), e.new)
       /\ conv' = [conv EXCEPT ![s] = e.new]
       /\ UNCHANGED <<cycle, row, att>>

OwnerApply(e) ==
    /\ e \in ownerTasks \cup {x \in ownerEvents : x.prev # Nobody}
    /\ ConvergeQueued(e) \/ Transfer(e)
    /\ ownerTasks' = ownerTasks \ {e}
    /\ UNCHANGED <<provider, worker, entry, closeReads, spent>>

(* A task whose assignment is already as announced, or gone. *)
OwnerDrop(e) ==
    /\ e \in ownerTasks
    /\ ownerTasks' = ownerTasks \ {e}
    /\ UNCHANGED <<records, provider, worker, entry, closeReads, spent>>

-----------------------------------------------------------------------------
HubStep ==
    \/ \E c \in Cycles : HubEnterNovo(c)
    \/ \E t \in Tickets : HubMoveOn(t) \/ HubClose(t)
    \/ \E t \in Tickets, o \in Owners \cup {Nobody} : HubEditOwner(t, o)

EnqueueStep == \E c \in Cycles :
    EnqueueRead(c) \/ OpenCycle(c) \/ FindRow(c) \/ PointRow(c) \/ EnqueueDies(c)

ReserveStep(w) ==
    \/ \E t \in Tickets : ReserveStale(w, t)
    \/ \E t \in Tickets, k \in Keys : ReserveExisting(w, t, k)
    \/ \E t \in Tickets, ty \in Types, a \in Agents : ReserveNew(w, t, ty, a)

ExecuteStep(w) ==
    \/ Start(w) \/ PreRead(w) \/ PatchApplied(w) \/ PatchRejected(w)
    \/ Readback(w) \/ Reread(w) \/ CompensateStep(w)
    \/ MarkExternalApplied(w) \/ FinalizeStep(w)

RepairStep(w) ==
    \/ \E k \in Keys : RepairScan(w, k)
    \/ RepairLock(w) \/ RetryCheck(w) \/ RetryTake(w)
    \/ RepairConfirm(w) \/ RepairRaises(w) \/ RepairHandler(w)

WebhookStep ==
    \/ \E c \in Cycles : CloseRead(c) \/ CloseApply(c)
    \/ \E e \in ownerEvents \cup ownerTasks : OwnerRead(e) \/ OwnerApply(e) \/ OwnerDrop(e)

Next ==
    \/ HubStep
    \/ EnqueueStep
    \/ \E w \in Workers : ReserveStep(w) \/ ExecuteStep(w) \/ RepairStep(w) \/ Crash(w)
    \/ \E k \in Keys : Purge(k)
    \/ WebhookStep

Spec == Init /\ [][Next]_vars

(* Fairness.  A worker that is executing something goes on with it, unless  *)
(* it dies, and Celery beat starts the repair task again and again, so that *)
(* every attempt that stays live is scanned some time when a worker is idle.*)
Continue(w) ==
    \/ ExecuteStep(w)
    \/ RepairLock(w) \/ RetryCheck(w) \/ RetryTake(w) \/ RepairConfirm(w) \/ RepairHandler(w)

Fairness == \A w \in Workers :
    /\ WF_vars(Continue(w))
    /\ \A k \in Keys : SF_vars(RepairScan(w, k))

FairSpec == Spec /\ Fairness

-----------------------------------------------------------------------------
(* Properties that hold.                                                    *)

(* At any time one conversation cycle has at most one live attempt, over    *)
(* both assignment types: a ticket never holds two capacity reservations.   *)
SingleLiveAttempt == \A c \in Cycles : \A k, l \in LiveKeys(c) : k = l

(* An attempt is completed only for an owner that HubSpot really announced  *)
(* for the ticket: no projection without a confirmed provider effect.       *)
CompletedWasApplied == \A k \in Keys : att[k].state = "completed" =>
    \E e \in ownerEvents : e.ticket = KeyTicket(k) /\ e.new = att[k].agent

(* A completed attempt has taken its cycle out of the queue, and it is the  *)
(* only completed attempt of the cycle: an assignment is finalized once.    *)
CompletedOnce == \A c \in Cycles :
    LET completed == {k \in Keys : k[1] = c /\ att[k].state = "completed"}
    IN /\ completed # {} => cycle[c] \in {"assigned", "closed"}
       /\ \A k, l \in completed : k = l

(* Why SingleLiveAttempt holds: a worker only concludes an attempt that     *)
(* exists, two repairs never hold the same attempt, and an attempt that is  *)
(* about to be reserved again stays retryable while its row is locked.      *)
KeysExist == \A w \in Workers : worker[w].pc # "idle" => att[worker[w].key].state # "none"
LocksExclude == \A v, w \in Workers :
    v # w /\ worker[v].tx # "no" /\ worker[w].tx # "no" => worker[v].key # worker[w].key
RetriesHold == \A w \in Workers :
    worker[w].tx = "retry" \/ worker[w].pc \in {"retry", "take"} =>
        worker[w].tx # "no" /\ att[worker[w].key].state = "retryable"
IdleFree == \A w \in Workers : worker[w].pc = "idle" => worker[w].tx = "no"
AgentsKnown == \A k \in Keys : att[k].state # "none" => att[k].agent \in Agents
ErasKnown == \A t \in Tickets : hub[t].stage # "none" => hub[t].era \in Cycles

(* The inductive invariant. *)
IInv ==
    /\ TypeOK /\ SingleLiveAttempt
    /\ KeysExist /\ LocksExclude /\ RetriesHold /\ IdleFree
    /\ AgentsKnown /\ ErasKnown

(* A ticket that was never assigned without a cycle: such an assignment     *)
(* stays on the ticket, and takes those of its cycles over.                 *)
Untangled(t) == conv[t] = NoConv

(* The assignment table agrees with the cycle: an assigned cycle is held by *)
(* an owner and a queued one is not.                                        *)
ProjectionAgrees == \A c \in Cycles : Untangled(TicketOf[c]) =>
    /\ cycle[c] = "assigned" => conv[c] # NoConv
    /\ cycle[c] \in {"none", "queued"} => conv[c] = NoConv

(* What an agent's counter may count: the live attempts whose capacity was  *)
(* not given back, and the assignments the agent holds.                     *)
Charged(a) == {k \in Keys : att[k].state \in Live /\ att[k].agent = a /\ ~att[k].released}
HeldBy(a) == {s \in Scopes : conv[s] = a}

(* No capacity leaks: an agent's counter never exceeds the work that is     *)
(* there to be released later.                                              *)
NoCapacityLeak == (\A t \in Tickets : Untangled(t)) =>
    \A a \in Agents : load[a] <= Cardinality(Charged(a)) + Cardinality(HeldBy(a))

(* A worker never raises an agent's counter above the agent's maximum, also *)
(* when a repair re-reserves an agent long after it was first chosen.       *)
NoOverbooking == [][worker' # worker =>
    \A a \in Agents : load'[a] > load[a] => load'[a] <= MaxChats]_vars

(* Why the tables agree.  Whatever HubSpot shows, an attempt records or a   *)
(* worker is about to confirm was announced; a row, and a task that makes   *)
(* one, are those of a cycle that was opened.                               *)
Announced(t, o) == \E e \in ownerEvents : e.ticket = t /\ e.new = o
EffectsAnnounced ==
    /\ \A t \in Tickets : hub[t].owner # Nobody => Announced(t, hub[t].owner)
    /\ \A k \in Keys : att[k].state \in {"external_applied", "completed"} =>
            Announced(KeyTicket(k), att[k].agent)
    /\ \A w \in Workers : worker[w].pc = "confirm" =>
            Announced(KeyTicket(worker[w].key), att[worker[w].key].agent)
RowsOpened ==
    /\ \A t \in Tickets : /\ ScopeTicket(row[t].scope) = t
                          /\ row[t].scope \in Cycles => cycle[row[t].scope] # "none"
    /\ \A c \in Cycles : entry[c] \in {"opened", "found"} => cycle[c] # "none"

(* Why the counters hold.  A retryable attempt has given its capacity back, *)
(* and while it is reserved again its agent has room for it; what an agent  *)
(* is charged with is finite, so that it can be counted.                    *)
RetryableReleased == \A k \in Keys : att[k].state = "retryable" => att[k].released
RetriesHaveRoom == \A w \in Workers :
    worker[w].tx = "retry" => load[att[worker[w].key].agent] < MaxChats
ChargesFinite == \A a \in Agents : IsFiniteSet(Charged(a)) /\ IsFiniteSet(HeldBy(a))

(* The second inductive invariant, which rests on the first.                *)
RecordsInv ==
    /\ EffectsAnnounced /\ RowsOpened /\ RetryableReleased /\ RetriesHaveRoom /\ ChargesFinite
    /\ CompletedOnce /\ ProjectionAgrees /\ NoCapacityLeak

(* An attempt left behind by a worker that died is picked up by the repair: *)
(* no reservation keeps an agent's capacity for ever.                       *)
ReservationResolved == \A k \in Keys :
    att[k].state \in {"reserved", "external_applied"}
        ~> att[k].state \notin {"reserved", "external_applied"}

(* The cycles go through the life that CycleAssignment promises.  When an   *)
(* attempt without a cycle takes the assignment over, its owner is still    *)
(* the one that holds the ticket's assigned cycle.                          *)
Holder(c) == IF cycle[c] # "assigned" THEN NoConv
             ELSE IF conv[c] # NoConv THEN conv[c] ELSE conv[TicketOf[c]]

Promise == INSTANCE CycleAssignment WITH
    NoHolder <- NoConv, state <- cycle, holder <- [c \in Cycles |-> Holder(c)]

CyclesKeepTheirPromise == Promise!Spec

=============================================================================
