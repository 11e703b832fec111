------------------------- MODULE AgentAvailability -------------------------
(***************************************************************************)
(* The SAT heartbeat: which agents may be given tickets.  A heartbeat      *)
(* takes a database lease, reads the presence of every user from HubSpot   *)
(* (or from a short cache), and writes one eligibility decision per agent. *)
(* A heartbeat may outlive its lease, or die with it; the generation of    *)
(* the lease is the fencing token that orders what is written.  Outside    *)
(* the help desk's hours a heartbeat writes a veto instead.  A drain that  *)
(* is about to reserve an agent asks HubSpot once more about that agent,   *)
(* and reads the agent's row again under its lock.                         *)
(*                                                                         *)
(* Modelled from apps/support/sat_service.py, eligibility_service.py,      *)
(* _verify_candidates() of durable_assignment_service.py and the user      *)
(* requests of apps/integrations/hubspot/client.py, with                   *)
(* ABSENCE_SAFE_ELIGIBILITY_ENFORCED on.  status_enum follows the decision *)
(* in that mode and is left out, as are the revision, the audit rows and   *)
(* the time an agent spent online, which no decision reads.                *)
(***************************************************************************)
EXTENDS Integers, FiniteSets

CONSTANTS
    Agents,      \* active agents with a HubSpot owner
    Beats,       \* tasks that run the heartbeat: the schedule, ticket webhooks
    Drains,      \* matchmakers that look for an agent
    LeaseTTL,    \* AVAILABILITY_LEASE_TTL_SECONDS
    CacheTTL,    \* how long a reading of the users stays in the cache
    Stable,      \* AVAILABILITY_STABLE_SECONDS
    Samples,     \* AVAILABILITY_REQUIRED_SAMPLES
    MaxAge,      \* AVAILABILITY_FRESHNESS_SECONDS
    MaxClock,    \* bound: ticks of the clock
    MaxBeats,    \* bound: leases ever taken
    MaxChanges   \* bound: changes of presence, of hours and by administrators

TimesAssumption ==
    /\ {LeaseTTL, CacheTTL, Stable, Samples, MaxAge} \subseteq Nat \ {0}
    /\ {MaxClock, MaxBeats, MaxChanges} \subseteq Nat
    /\ CacheTTL < Stable

VARIABLES
    clock,    \* the time
    open,     \* TRUE while the help desk calendar is open
    presence, \* presence[a]: what HubSpot says of the agent
    enabled,  \* enabled[a]: auto_assign_enabled
    lease,    \* the row of AvailabilityReconciliationLease
    cached,   \* the cached reading of the users
    agent,    \* agent[a]: availability fields of the row of an agent
    beat,     \* beat[b]: local state of a heartbeat
    drain,    \* drain[m]: local state of a matchmaker
    changes,  \* changes made so far
    seen      \* seen[a]: the readings that found the agent available since
              \* one last found otherwise, by who asked for them

vars == <<clock, open, presence, enabled, lease, cached, agent, beat, drain, changes, seen>>

(***************************************************************************)
(* "out" is available, with an out-of-office interval that covers now.     *)
(***************************************************************************)
Presences == {"available", "out", "away"}

Never == -1

(***************************************************************************)
(* A reading: the presence of every agent, and the generation of the       *)
(* heartbeat that asked HubSpot.                                           *)
(***************************************************************************)
NoReading == [by |-> 0, of |-> [a \in Agents |-> "away"]]

Idle == [pc |-> "idle", generation |-> 0, forced |-> FALSE, now |-> 0, reading |-> NoReading]

Looking == "looking"      \* a drain without a candidate

Init ==
    /\ clock = 0
    /\ open \in BOOLEAN
    /\ presence \in [Agents -> Presences]
    /\ enabled = [a \in Agents |-> TRUE]
    /\ lease = [held |-> FALSE, expires |-> 0, generation |-> 0]
    /\ cached = [reading |-> NoReading, expires |-> 0]
    /\ agent = [a \in Agents |-> [eligible |-> FALSE, available |-> FALSE, since |-> Never,
                                  samples |-> 0, observed |-> Never, fence |-> 0]]
    /\ beat = [b \in Beats |-> Idle]
    /\ drain = [m \in Drains |-> [pc |-> Looking]]
    /\ changes = 0
    /\ seen = [a \in Agents |-> {}]

-----------------------------------------------------------------------------

Tick ==
    /\ clock < MaxClock
    /\ clock' = clock + 1
    /\ UNCHANGED <<open, presence, enabled, lease, cached, agent, beat, drain, changes, seen>>

(***************************************************************************)
(* People change their presence, the calendar opens and closes, and        *)
(* administrators switch automatic assignment per agent.                   *)
(***************************************************************************)
Change ==
    /\ changes < MaxChanges
    /\ changes' = changes + 1
    /\ \/ /\ \E a \in Agents : \E p \in Presences \ {presence[a]} :
                presence' = [presence EXCEPT ![a] = p]
          /\ UNCHANGED <<open, enabled>>
       \/ /\ open' = ~open
          /\ UNCHANGED <<presence, enabled>>
       \/ /\ \E a \in Agents : enabled' = [enabled EXCEPT ![a] = ~@]
          /\ UNCHANGED <<open, presence>>
    /\ UNCHANGED <<clock, lease, cached, agent, beat, drain, seen>>

Contended == lease.held /\ lease.expires > clock

(***************************************************************************)
(* _acquire_reconciliation_lease(), after is_business_hours() chose what   *)
(* the heartbeat is for.  A contended heartbeat ends: no state changes.    *)
(***************************************************************************)
Acquire(b) ==
    /\ beat[b].pc = "idle"
    /\ lease.generation < MaxBeats
    /\ ~Contended
    /\ lease' = [held |-> TRUE, expires |-> clock + LeaseTTL, generation |-> lease.generation + 1]
    /\ \E forced \in BOOLEAN :
          beat' = [beat EXCEPT ![b] = [Idle EXCEPT
                      !.pc = IF open THEN "leased" ELSE "veto",
                      !.generation = lease'.generation,
                      !.forced = forced]]
    /\ UNCHANGED <<clock, open, presence, enabled, cached, agent, drain, changes, seen>>

(***************************************************************************)
(* _release_reconciliation_lease(): only the token of the holder releases. *)
(* A token is named by the generation it was drawn for.                    *)
(***************************************************************************)
Released(b) ==
    IF lease.held /\ lease.generation = beat[b].generation
    THEN [lease EXCEPT !.held = FALSE, !.expires = 0]
    ELSE lease

-----------------------------------------------------------------------------

(***************************************************************************)
(* get_all_owners_availability(): a cached reading serves a heartbeat that *)
(* is not forced to ask.                                                   *)
(***************************************************************************)
ReadCache(b) ==
    /\ beat[b].pc = "leased"
    /\ ~beat[b].forced
    /\ cached.expires > clock
    /\ beat' = [beat EXCEPT ![b].pc = "read", ![b].now = clock, ![b].reading = cached.reading]
    /\ UNCHANGED <<clock, open, presence, enabled, lease, cached, agent, drain, changes, seen>>

Ask(b) ==
    /\ beat[b].pc = "leased"
    /\ beat[b].forced \/ cached.expires <= clock
    /\ beat' = [beat EXCEPT ![b].pc = "asking", ![b].reading = [by |-> beat[b].generation, of |-> presence]]
    /\ UNCHANGED <<clock, open, presence, enabled, lease, cached, agent, drain, changes, seen>>

(***************************************************************************)
(* The pages arrive, however late, and are cached for those who come next. *)
(***************************************************************************)
Answer(b) ==
    /\ beat[b].pc = "asking"
    /\ cached' = [reading |-> beat[b].reading, expires |-> clock + CacheTTL]
    /\ beat' = [beat EXCEPT ![b].pc = "read", ![b].now = clock]
    /\ UNCHANGED <<clock, open, presence, enabled, lease, agent, drain, changes, seen>>

(***************************************************************************)
(* The request fails: the lease is released and nothing is written.        *)
(***************************************************************************)
AskFails(b) ==
    /\ beat[b].pc = "asking"
    /\ lease' = Released(b)
    /\ beat' = [beat EXCEPT ![b] = Idle]
    /\ UNCHANGED <<clock, open, presence, enabled, cached, agent, drain, changes, seen>>

-----------------------------------------------------------------------------

Overtaken(b, a) == agent[a].fence > beat[b].generation

(***************************************************************************)
(* evaluate_observation_signals() on the reading, and the local vetoes.    *)
(***************************************************************************)
Found(b, a) == beat[b].reading.of[a] = "available" /\ enabled[a]

(***************************************************************************)
(* An agent found eligible continues the run of samples it is in, or       *)
(* starts one.                                                             *)
(***************************************************************************)
Continues(a) == agent[a].available /\ agent[a].since # Never

(***************************************************************************)
(* Long and often enough: neither alone suffices, as the next sample may   *)
(* be the cached reading of the last.                                      *)
(* With a bug: the number of samples alone decides.                        *)
(***************************************************************************)
SettledBySamples(samples, seconds) == samples >= Samples
Settled(samples, seconds) == samples >= Samples /\ seconds >= Stable

(***************************************************************************)
(* The row of an agent as the heartbeat leaves it.                         *)
(***************************************************************************)
Decided(b, a) ==
    LET since == IF Continues(a) THEN agent[a].since ELSE beat[b].now
        samples == IF Continues(a) THEN agent[a].samples + 1 ELSE 1
    IN  [eligible |-> Found(b, a) /\ Settled(samples, beat[b].now - since),
         available |-> beat[b].reading.of[a] \in {"available", "out"},
         since |-> IF Found(b, a) THEN since ELSE Never,
         samples |-> IF Found(b, a) THEN samples ELSE 0,
         observed |-> beat[b].now,
         fence |-> beat[b].generation]

(***************************************************************************)
(* The transaction of sat_heartbeat(): all agents not written by a later   *)
(* generation.                                                             *)
(***************************************************************************)
Apply(b) ==
    /\ beat[b].pc = "read"
    /\ agent' = [a \in Agents |-> IF Overtaken(b, a) THEN agent[a] ELSE Decided(b, a)]
    /\ seen' = [a \in Agents |->
                  IF Overtaken(b, a) THEN seen[a]
                  ELSE IF Found(b, a) THEN seen[a] \cup {beat[b].reading.by} ELSE {}]
    /\ beat' = [beat EXCEPT ![b].pc = "done"]
    /\ UNCHANGED <<clock, open, presence, enabled, lease, cached, drain, changes>>

(***************************************************************************)
(* The row of an agent after _materialize_off_hours_availability().  It is *)
(* only written when something in it changes or a refresh is due.          *)
(***************************************************************************)
VetoWrites(a, due) ==
    agent[a].eligible \/ agent[a].since # Never \/ agent[a].samples # 0 \/ due

Vetoed(b, a) ==
    [agent[a] EXCEPT !.eligible = FALSE, !.since = Never, !.samples = 0,
                     !.fence = beat[b].generation]

Veto(b) ==
    /\ beat[b].pc = "veto"
    /\ \E due \in BOOLEAN :
          agent' = [a \in Agents |->
                      IF ~Overtaken(b, a) /\ VetoWrites(a, due) THEN Vetoed(b, a) ELSE agent[a]]
    /\ seen' = [a \in Agents |-> IF Overtaken(b, a) THEN seen[a] ELSE {}]
    /\ beat' = [beat EXCEPT ![b].pc = "done"]
    /\ UNCHANGED <<clock, open, presence, enabled, lease, cached, drain, changes>>

Release(b) ==
    /\ beat[b].pc = "done"
    /\ lease' = Released(b)
    /\ beat' = [beat EXCEPT ![b] = Idle]
    /\ UNCHANGED <<clock, open, presence, enabled, cached, agent, drain, changes, seen>>

(***************************************************************************)
(* The worker is killed: its lease stays until it expires.                 *)
(***************************************************************************)
Crash(b) ==
    /\ beat[b].pc # "idle"
    /\ beat' = [beat EXCEPT ![b] = Idle]
    /\ UNCHANGED <<clock, open, presence, enabled, lease, cached, agent, drain, changes, seen>>

-----------------------------------------------------------------------------

(***************************************************************************)
(* evaluate_persisted_agent(), which every reservation asks.               *)
(***************************************************************************)
Reservable(a) ==
    /\ enabled[a]
    /\ agent[a].observed >= clock - MaxAge
    /\ agent[a].observed # Never
    /\ agent[a].eligible

(***************************************************************************)
(* get_user_by_id(), and what normalize_availability_item() and the vetoes *)
(* of evaluate_observation_signals() make of it.                           *)
(***************************************************************************)
OneUser(a) == presence[a]

Admits(said) == said = "available" /\ open

(***************************************************************************)
(* _verify_candidates(): the row of a candidate, then                      *)
(* sat_verify_agent_assignment_eligibility(), which asks HubSpot about     *)
(* this one agent.  A request that fails says nothing good of the agent,   *)
(* and the drain turns to the next.                                        *)
(***************************************************************************)
Verify(m, a) ==
    /\ drain[m].pc \in {Looking, "reserved"}
    /\ Reservable(a)
    /\ drain' = [drain EXCEPT ![m] =
          IF Admits(OneUser(a))
          THEN [pc |-> "verified", agent |-> a, said |-> OneUser(a)]
          ELSE [pc |-> Looking]]
    /\ UNCHANGED <<clock, open, presence, enabled, lease, cached, agent, beat, changes, seen>>

(***************************************************************************)
(* reserve_next_assignment(), the row of the agent locked: however long    *)
(* the answer took, the decision of the last heartbeat counts.             *)
(***************************************************************************)
Reserve(m) ==
    /\ drain[m].pc = "verified"
    /\ drain' = [drain EXCEPT ![m] =
          IF Reservable(drain[m].agent) THEN [@ EXCEPT !.pc = "reserved"]
          ELSE [pc |-> Looking]]
    /\ UNCHANGED <<clock, open, presence, enabled, lease, cached, agent, beat, changes, seen>>

Step(b) ==
    \/ Acquire(b)
    \/ ReadCache(b)
    \/ Ask(b)
    \/ Answer(b)
    \/ AskFails(b)
    \/ Apply(b)
    \/ Veto(b)
    \/ Release(b)
    \/ Crash(b)

Next ==
    \/ Tick
    \/ Change
    \/ \E b \in Beats : Step(b)
    \/ \E m \in Drains : Reserve(m) \/ \E a \in Agents : Verify(m, a)

Spec == Init /\ [][Next]_vars

-----------------------------------------------------------------------------

(***************************************************************************)
(* A reservation rests on three questions put to HubSpot and answered      *)
(* "available": two of heartbeats, with no other answer and no veto        *)
(* written since the first of them - a reading found in the cache again    *)
(* cannot stand in for the second - and one of the drain itself.           *)
(***************************************************************************)
Rests(m) ==
    /\ drain[m].said = "available"
    /\ \E r, s \in seen[drain[m].agent] : r # s

ReservedWasSeenThrice ==
    [][\A m \in Drains :
        drain[m].pc = "verified" /\ drain'[m].pc = "reserved" => Rests(m)]_vars

=============================================================================
