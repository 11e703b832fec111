------------------------ MODULE ConversationLifecycle ------------------------
(***************************************************************************)
(* The lifecycle of the conversations of one ticket (apps/ai_agents/       *)
(* services): instances with a state, their service cycles (attendances),  *)
(* the ledger of provider events, the identity of placeholders and threads *)
(* and the watchdog; together with the support cycle whose entry, human    *)
(* assignment and proven closure drive them.                               *)
(*                                                                         *)
(* Each transaction is one action.  CONVERSATION_CYCLES_ENFORCED is set:   *)
(* a closing event is recorded, and the support cycle applies it.          *)
(***************************************************************************)
EXTENDS Naturals, Sequences

CONSTANTS
    Watchdogs,       \* processes that run run_lifecycle_watchdog
    MaxFailures,     \* its max_failures
    LegacyStates,    \* states of instances that are older than their service cycles
    MaxEvents,       \* bound: provider events of the ticket
    MaxOdd,          \* bound: those that are no entry or closure with a time of its own
    MaxLag           \* bound: how much later than its event the time of a webhook is

LifecycleAssumption ==
    /\ MaxFailures \in Nat \ {0} /\ {MaxEvents, MaxOdd, MaxLag} \subseteq Nat
    /\ LegacyStates \subseteq {"AI_SERVICE_RUNNING", "QUEUE_PENDING", "HUMAN_ASSIGNED", "CLOSED"}

VARIABLES
    provider,        \* HubSpot: the time, the events so far, the last entry, closed or not
    ledger,          \* ConversationEvent rows
    inst,            \* ConversationInstance rows with their ConversationServiceCycles
    support,         \* the newest support cycle: its entry and state; for a closed one,
                     \* the time of its closure and the events recorded until then
    closing,         \* closures whose provider read allows them
    assigner,        \* the projection of a human assignment
    watch            \* what each watchdog does, and the row it copied

vars == <<provider, ledger, inst, support, closing, assigner, watch>>

(* The ticket-level placeholder, and the instance of the ticket's thread.   *)
Instances == {"placeholder", "thread"}

Terminal == {"CLOSED", "FAILED_TERMINAL", "IGNORED"}

(* DEFAULT_STATE_TIMEOUT_MINUTES.                                           *)
Timed == {"AI_SERVICE_RUNNING", "QUEUE_PENDING", "FAILED_RETRYABLE"}

(* identity: the row does not exist, resolves its ticket or thread, or is   *)
(* superseded; linked: it names the ticket; cursor: the provider time in    *)
(* its metadata (0: none); closedAt: 0 when it is null.                     *)
Absent == [identity |-> "absent", linked |-> FALSE, state |-> "RECEIVED", cycles |-> <<>>,
           cursor |-> 0, closedAt |-> 0, failures |-> 0]
NewInstance(i) == [Absent EXCEPT !.identity = "known", !.linked = (i = "placeholder")]

(* An event has the time of what it tells, at (of the stage, for entries    *)
(* and closures), and when: the webhook's occurredAt, 0 where it has none.  *)
Event(no, type, at, when) == [no |-> no, type |-> type, at |-> at, when |-> when]

(* Rows older than the service cycles have none.                            *)
Legacy == {Absent} \cup
    {[NewInstance("placeholder") EXCEPT !.state = s] : s \in LegacyStates}

(* A support cycle that is not closed.                                      *)
Cycle(entry, state) == [entry |-> entry, state |-> state, until |-> 0, known |-> {}]

IdleWatchdog == [pc |-> "idle", inst |-> "thread", state |-> "RECEIVED", failures |-> 0]

Init ==
    /\ provider = [now |-> 0, count |-> 0, odd |-> 0, events |-> {},
                   entered |-> 0, closed |-> FALSE]
    /\ ledger = {}
    /\ inst \in [Instances -> Legacy]
    /\ support = Cycle(0, "none")
    /\ closing = {}
    /\ assigner = [pc |-> "idle", found |-> {}]
    /\ watch = [w \in Watchdogs |-> IdleWatchdog]

-----------------------------------------------------------------------------
(* service_cycles.py: the cycles of a row x, in their sequence.             *)
HasOpen(x) == \E k \in DOMAIN x.cycles : x.cycles[k] = "open"
AllClosed(x) == [k \in DOMAIN x.cycles |-> "closed"]

(* ensure_current_service_cycle, which also adopts rows without a cycle.    *)
Ensured(x) ==
    IF HasOpen(x) \/ (x.cycles # <<>> /\ x.state \in Terminal) THEN x
    ELSE [x EXCEPT !.cycles = Append(@, IF x.state \in Terminal THEN "closed" ELSE "open")]

(* reopen_service_cycle.                                                    *)
Reopened(x) == [x EXCEPT !.cycles = Append(AllClosed(Ensured(x)), "open")]

CycleClosed(x) == [x EXCEPT !.cycles = AllClosed(x)]

(* _validate_transition, for the targets in use.                            *)
Valid(from, to, reopen, authoritative) ==
    IF from \in Terminal THEN reopen
    ELSE \/ authoritative /\ to = "QUEUE_PENDING"
         \/ to \in {"CLOSED", "RESOLVED_BY_HUMAN", "FAILED_RETRYABLE", "IGNORED"}
         \/ <<from, to>> \in {<<"RECEIVED", "NORMALIZED">>, <<"NORMALIZED", "QUEUE_PENDING">>,
                <<"QUEUE_PENDING", "HUMAN_ASSIGNED">>, <<"HUMAN_ASSIGNED", "HUMAN_IN_PROGRESS">>,
                <<"FAILED_RETRYABLE", "FAILED_TERMINAL">>}

(* LifecycleEngine.transition of a row, once it is valid.  With a bug: the  *)
(* service cycle of a row that ends stays open.                             *)
TransitionedOnly(x, to, reopen, at) ==
    IF x.state = to THEN x
    ELSE LET reopening == reopen /\ x.state \in Terminal /\ to \notin Terminal
             y == IF reopening THEN Reopened(x) ELSE Ensured(x)
         IN [y EXCEPT !.state = to,
                      !.closedAt = IF to = "CLOSED" /\ @ = 0 THEN at
                                   ELSE IF reopening THEN 0 ELSE @]
Transitioned(x, to, reopen, at) ==
    LET y == TransitionedOnly(x, to, reopen, at)
    IN IF to \in Terminal /\ x.state # to THEN CycleClosed(y) ELSE y

CanGo(x, to) == x.state = to \/ Valid(x.state, to, FALSE, FALSE)

-----------------------------------------------------------------------------
(* HubSpot: the ticket enters NOVO, is closed, changes otherwise; a message *)
(* is sent on its thread.  Two events may come at one time, and the webhook *)
(* of one may have no time, or a later one.                                 *)
ProviderEvent(type, at, when) ==
    LET plain == type \in {"entered", "closed"} /\ at = provider.now + 1 /\ when = at IN
    /\ provider.count < MaxEvents
    /\ plain \/ provider.odd < MaxOdd
    /\ type = "entered" => provider.closed \/ provider.entered = 0
    /\ type = "closed" => ~provider.closed
    /\ provider' = [now |-> at,
                    count |-> provider.count + 1,
                    odd |-> IF plain THEN provider.odd ELSE provider.odd + 1,
                    events |-> provider.events \cup {Event(provider.count, type, at, when)},
                    entered |-> IF type = "entered" THEN at ELSE provider.entered,
                    closed |-> IF type \in {"entered", "closed"} THEN type = "closed"
                               ELSE provider.closed]
    /\ UNCHANGED <<ledger, inst, support, closing, assigner, watch>>

(* _get_or_create_instance: the thread of a message; for a ticket its       *)
(* placeholder, else its canonical thread, else a new placeholder.          *)
InstanceOf(e) ==
    IF \/ e.type = "sent"
       \/ inst["placeholder"].identity # "known" /\ inst["thread"].identity = "known"
                                                /\ inst["thread"].linked
    THEN "thread" ELSE "placeholder"

(* _is_stale_provider_event: only comparable times count, and equal ones    *)
(* pass.                                                                    *)
Stale(x, e) == e.when # 0 /\ x.cursor # 0 /\ e.when < x.cursor

(* What a new event that is not late does to the state of its instance x.   *)
Effect(x, e, created) ==
    LET y == IF x.state = "RECEIVED" THEN Transitioned(x, "NORMALIZED", FALSE, 0) ELSE x IN
    CASE e.type = "entered" -> Transitioned(y, "QUEUE_PENDING", TRUE, 0)
      [] e.type = "sent" /\ ~created /\ y.state = "HUMAN_ASSIGNED" ->
            Transitioned(y, "HUMAN_IN_PROGRESS", FALSE, 0)
      [] e.type = "sent" /\ created -> Transitioned(y, "IGNORED", FALSE, 0)
      [] OTHER -> y

(* _refresh_instance_snapshot, of which the cursor matters; _append_event,  *)
(* once for each idempotency key.                                           *)
Refreshed(x, e) == IF e.when = 0 THEN x ELSE [x EXCEPT !.cursor = e.when]
Appended(e) == ledger \cup {e}

(* record_normalized_event.  A closing event is deferred: it is recorded,   *)
(* and neither the snapshot with its cursor nor the state follows it.       *)
Record(e) ==
    LET i == InstanceOf(e)
        created == inst[i].identity = "absent"
        x == IF created THEN NewInstance(i) ELSE inst[i]
        y == IF Stale(x, e) \/ e.type = "closed" THEN x ELSE Refreshed(x, e)
        z == IF e \in ledger \/ Stale(x, e) THEN y ELSE Ensured(Effect(y, e, created))
    IN
    /\ e \in provider.events
    /\ inst' = [inst EXCEPT ![i] = z]
    /\ ledger' = Appended(e)
    /\ UNCHANGED <<provider, support, closing, assigner, watch>>

-----------------------------------------------------------------------------
(* The support cycle (SupportRecords has all of it): an entry opens a cycle *)
(* unless it or a newer one is known, by the time of the stage, or one is   *)
(* active.                                                                  *)
Enqueue(e) ==
    /\ e \in ledger /\ e.type = "entered"
    /\ e.at > support.entry /\ support.state \notin {"queued", "assigned"}
    /\ support' = Cycle(e.at, "queued")
    /\ UNCHANGED <<provider, ledger, inst, closing, assigner, watch>>

(* The matchmaker assigns it, and _transition_assigned_lifecycle follows:   *)
(* the queued instances are read, and then moved on one by one.             *)
Assign ==
    /\ support.state = "queued" /\ assigner.pc = "idle"
    /\ support' = [support EXCEPT !.state = "assigned"]
    /\ assigner' = [assigner EXCEPT !.pc = "assigned"]
    /\ UNCHANGED <<provider, ledger, inst, closing, watch>>

AssignRead ==
    /\ assigner.pc = "assigned"
    /\ assigner' = [pc |-> "read", found |->
            {i \in Instances : inst[i].identity # "absent" /\ inst[i].linked
                               /\ inst[i].state = "QUEUE_PENDING"}]
    /\ UNCHANGED <<provider, ledger, inst, support, closing, watch>>

AssignApply ==
    /\ assigner.pc = "read"
    /\ IF assigner.found = {}
       THEN assigner' = [assigner EXCEPT !.pc = "idle"] /\ UNCHANGED inst
       ELSE \E i \in assigner.found :
            /\ assigner' = [assigner EXCEPT !.found = @ \ {i}]
            /\ inst' = IF CanGo(inst[i], "HUMAN_ASSIGNED")
                       THEN [inst EXCEPT ![i] = Transitioned(@, "HUMAN_ASSIGNED", FALSE, 0)]
                       ELSE inst
    /\ UNCHANGED <<provider, ledger, support, closing, watch>>

(* reconcile_close_occurrence reads the provider before its transaction.    *)
Closes(e) == support.entry <= e.at /\ support.state \in {"queued", "assigned"}

CloseRead(e) ==
    /\ e \in ledger /\ e.type = "closed"
    /\ Closes(e) /\ provider.closed /\ provider.entered <= e.at
    /\ closing' = closing \cup {e}
    /\ UNCHANGED <<provider, ledger, inst, support, assigner, watch>>

(* _close_all_ticket_instances over every row that names the ticket, and    *)
(* the cursor that close_ticket_instances moves.  With bugs: superseded     *)
(* rows are left out; the cursor is not moved.                              *)
ClosedKnown(x, at) ==
    IF x.identity # "known" \/ ~x.linked THEN x
    ELSE LET y == Transitioned(x, "CLOSED", TRUE, at)
         IN [y EXCEPT !.cursor = IF at > @ THEN at ELSE @]
ClosedStill(x, at) ==
    IF x.identity = "absent" \/ ~x.linked THEN x ELSE Transitioned(x, "CLOSED", TRUE, at)
ClosedInstance(x, at) ==
    IF x.identity = "absent" \/ ~x.linked THEN x
    ELSE [ClosedStill(x, at) EXCEPT !.cursor = IF at > @ THEN at ELSE @]

(* transition_by_ticket; _transition_lifecycle_best_effort makes it only    *)
(* when it is valid.                                                        *)
ResolvedByHuman(x) ==
    IF x.identity # "absent" /\ CanGo(x, "RESOLVED_BY_HUMAN")
    THEN Transitioned(x, "RESOLVED_BY_HUMAN", FALSE, 0) ELSE x

(* The transaction of apply_close_occurrence, as far as _materialize goes   *)
(* on to the lifecycle: first transition_by_ticket, then the closure.       *)
CloseApply(e) ==
    LET i == InstanceOf(e)
        resolved == [inst EXCEPT ![i] = ResolvedByHuman(@)]
    IN
    /\ e \in closing
    /\ closing' = closing \ {e}
    /\ IF Closes(e)
       THEN /\ support' = [support EXCEPT !.state = "closed", !.until = e.at, !.known = ledger]
            /\ inst' = [j \in Instances |-> ClosedInstance(resolved[j], e.at)]
       ELSE UNCHANGED <<support, inst>>
    /\ UNCHANGED <<provider, ledger, assigner, watch>>

-----------------------------------------------------------------------------
(* run_lifecycle_watchdog: the rows are read without a lock; the counter    *)
(* is saved from the copy; the transitions look at the row again.           *)
WatchStep(w, from, to) ==
    /\ watch[w].pc = from
    /\ watch' = [watch EXCEPT ![w] = IF to = "idle" THEN IdleWatchdog ELSE [@ EXCEPT !.pc = to]]

Scan(w, i) ==
    /\ watch[w].pc = "idle"
    /\ inst[i].identity # "absent" /\ inst[i].state \in Timed
    /\ watch' = [watch EXCEPT ![w] = [pc |-> "scanned", inst |-> i,
                                      state |-> inst[i].state, failures |-> inst[i].failures]]
    /\ UNCHANGED <<provider, ledger, inst, support, closing, assigner>>

(* supersede_placeholder_if_canonical_exists.                               *)
Supersedes(w) ==
    watch[w].inst = "placeholder" /\ inst["thread"].identity = "known" /\ inst["thread"].linked

Supersede(w) ==
    /\ Supersedes(w)
    /\ WatchStep(w, "scanned", "idle")
    /\ inst' = [inst EXCEPT !["placeholder"] =
            [@ EXCEPT !.identity = "superseded", !.state = "IGNORED", !.failures = 0]]
    /\ UNCHANGED <<provider, ledger, support, closing, assigner>>

(* Above the budget the counter is not told apart.                          *)
Counted(w) ==
    IF watch[w].failures < MaxFailures THEN watch[w].failures + 1 ELSE watch[w].failures

Count(w) ==
    /\ ~Supersedes(w)
    /\ WatchStep(w, "scanned", "counted")
    /\ inst' = [inst EXCEPT ![watch[w].inst].failures = Counted(w)]
    /\ UNCHANGED <<provider, ledger, support, closing, assigner>>

(* The first transition is made unless the copy was retryable already; one  *)
(* that is not valid raises and ends the run.                               *)
Exhausted(w) == Counted(w) >= MaxFailures

MarkRetryable(w) ==
    LET i == watch[w].inst
        skip == watch[w].state = "FAILED_RETRYABLE"
        ok == skip \/ CanGo(inst[i], "FAILED_RETRYABLE")
    IN
    /\ WatchStep(w, "counted", IF ok /\ Exhausted(w) THEN "exhausted" ELSE "idle")
    /\ inst' = IF skip \/ ~ok THEN inst
               ELSE [inst EXCEPT ![i] = Transitioned(@, "FAILED_RETRYABLE", FALSE, 0)]
    /\ UNCHANGED <<provider, ledger, support, closing, assigner>>

GiveUp(w) ==
    LET i == watch[w].inst IN
    /\ WatchStep(w, "exhausted", "idle")
    /\ inst' = IF CanGo(inst[i], "FAILED_TERMINAL")
               THEN [inst EXCEPT ![i] = Transitioned(@, "FAILED_TERMINAL", FALSE, 0)]
               ELSE inst
    /\ UNCHANGED <<provider, ledger, support, closing, assigner>>

Watch(w) == Supersede(w) \/ Count(w) \/ MarkRetryable(w) \/ GiveUp(w)

-----------------------------------------------------------------------------
Next ==
    \/ \E type \in {"entered", "closed", "other", "sent"},
          at \in ({provider.now} \ {0}) \cup {provider.now + 1} :
            \E when \in {0} \cup (at..(at + MaxLag)) : ProviderEvent(type, at, when)
    \/ \E e \in provider.events : Record(e) \/ Enqueue(e) \/ CloseRead(e) \/ CloseApply(e)
    \/ Assign \/ AssignRead \/ AssignApply
    \/ \E w \in Watchdogs : Watch(w) \/ \E i \in Instances : Scan(w, i)

Spec == Init /\ [][Next]_vars

-----------------------------------------------------------------------------
(***************************************************************************)
(* Service cycles follow the state, over reopenings, timeouts and rows     *)
(* that are older than the cycles: only the last cycle of an instance may  *)
(* be open, and it is open exactly while the state is not terminal.  A     *)
(* superseded row keeps the cycle it had.                                  *)
(***************************************************************************)
AttendanceFollowsState == \A i \in Instances :
    LET x == inst[i] IN
    /\ \A k \in DOMAIN x.cycles : x.cycles[k] = "open" => k = Len(x.cycles)
    /\ x.cycles # <<>> /\ x.identity = "known" => (HasOpen(x) <=> x.state \notin Terminal)

(* An event that HubSpot does not date before a time t: the documented     *)
(* reading of late webhooks lets equal and missing times pass.              *)
NotBefore(e, t) == e.when = 0 \/ e.when >= t

(* After the closure of the support cycle was applied an entry came to be   *)
(* recorded that HubSpot does not date before that closure.                 *)
NewsSinceClosure ==
    \E e \in ledger \ support.known : e.type = "entered" /\ NotBefore(e, support.until)

(***************************************************************************)
(* Once the closure of a ticket is applied, no conversation of the ticket  *)
(* keeps an open attendance, not even a superseded one, until an entry is  *)
(* recorded that HubSpot does not date before the closure.  Entries that   *)
(* were recorded before, and late ones that are older, leave it quiet.     *)
(***************************************************************************)
ClosedTicketIsQuiet ==
    (support.state = "closed" /\ ~NewsSinceClosure) =>
        \A i \in Instances : inst[i].linked => ~HasOpen(inst[i])

(***************************************************************************)
(* A closed conversation is reopened only by an entry that is recorded     *)
(* then for the first time and that HubSpot does not date before the       *)
(* closure, in whatever order the webhooks arrive.  One of the closure's   *)
(* own time, or without a time, reopens it (_is_stale_provider_event).     *)
(***************************************************************************)
OnlyNewsReopens == [][\A i \in Instances :
    (inst[i].state = "CLOSED" /\ inst'[i].state \notin Terminal) =>
        \E e \in ledger' \ ledger : e.type = "entered" /\ NotBefore(e, inst[i].closedAt)]_vars
=============================================================================
