---------------------------- MODULE CalendarRules ----------------------------
(***************************************************************************)
(* Edits of the help desk calendar and its readers: audited idempotent     *)
(* administrative actions (apps/support/admin_audit.py,                    *)
(* execute_audited_action) around the creation, the update and the         *)
(* deactivation of a rule (helpdesk_calendar/service.py, save_rule,        *)
(* deactivate_rule, called from api.py), and the resolution of one day     *)
(* from the rules (resolve_day, _current_resolution).                      *)
(*                                                                         *)
(* Which dates a rule is for, and whether its intervals hold the present   *)
(* time, are two truth values of the rule.  A request without a key has an *)
(* audit row of its own, as a key that is used once.                       *)
(***************************************************************************)
EXTENDS Naturals, FiniteSets

CONSTANTS
    Requests,        \* administrative requests, repeated ones included
    AuditKeys,       \* idempotency keys
    Rules,           \* identifiers of rules
    Existing,        \* those of the rules that there are, never edited yet
    Readers,         \* heartbeats and webhooks that resolve the day
    Payloads,        \* what the rules may say: kind, priority, today, hours
    DefaultOpen,     \* what the legacy tables say of the day
    MaxEdits         \* bound: requests that are made

CalendarAssumption ==
    /\ Existing \subseteq Rules /\ IsFiniteSet(Rules) /\ "nobody" \notin Requests
    /\ Payloads \subseteq
        [kind : {"service", "absence"}, priority : Nat, today : BOOLEAN, hours : BOOLEAN]
    /\ DefaultOpen \in BOOLEAN /\ MaxEdits \in Nat

VARIABLES
    rule,            \* HelpdeskScheduleRule rows with their intervals
    audit,           \* AdministrativeActionAudit of each key
    request,         \* what each request asks and does
    reader,          \* what each reader has read
    edits            \* the requests that were made, and how often each was applied

vars == <<rule, audit, request, reader, edits>>

NoRule == [version |-> 0, active |-> FALSE, says |-> CHOOSE p \in Payloads : TRUE]
Free == [status |-> "none", print |-> <<>>, by |-> "nobody"]
Idle == [pc |-> "idle", key |-> "none", print |-> <<>>, rule |-> "none", copy |-> NoRule]
NoReading == [pc |-> "idle", rules |-> <<>>]

Init ==
    /\ rule \in {R \in [Rules -> [version : {0, 1}, active : BOOLEAN, says : Payloads]] :
            \A r \in Rules : IF r \in Existing THEN R[r].version = 1 /\ R[r].active
                             ELSE R[r] = NoRule}
    /\ audit = [k \in AuditKeys |-> Free]
    /\ request = [q \in Requests |-> Idle]
    /\ reader = [d \in Readers |-> NoReading]
    /\ edits = [made |-> 0, applied |-> [k \in AuditKeys |-> 0],
               of |-> [r \in Rules |-> rule[r].version]]

(* The fingerprint of a request: what it does to which rule, with what, and *)
(* the version that it expects (0: any).                                    *)
Prints ==
    {"create"} \X {CHOOSE r \in Rules : TRUE} \X Payloads \X {0}
    \cup {"update"} \X Rules \X Payloads \X {0, 1}
    \cup {"deactivate"} \X Rules \X {NoRule.says} \X {0, 1}
Does(f) == f[1]
RuleOf(f) == f[2]
Says(f) == f[3]
Expects(f) == f[4]

Answers(q) == request' = [request EXCEPT ![q] = Idle]

-----------------------------------------------------------------------------
Ask(q, k, f) ==
    /\ request[q].pc = "idle" /\ edits.made < MaxEdits
    /\ request' = [request EXCEPT ![q] = [Idle EXCEPT !.pc = "audit", !.key = k, !.print = f]]
    /\ edits' = [edits EXCEPT !.made = @ + 1]
    /\ UNCHANGED <<rule, audit, reader>>

(* get_or_create of the audit row: an uncommitted one of the same key is    *)
(* waited for; a committed one is replayed, or is a conflict.               *)
Audit(q) ==
    LET k == request[q].key IN
    /\ request[q].pc = "audit" /\ audit[k].status # "reserved"
    /\ IF audit[k].status = "none"
       THEN /\ audit' = [audit EXCEPT ![k] =
                   [status |-> "reserved", print |-> request[q].print, by |-> q]]
            /\ request' = [request EXCEPT ![q].pc = "lock"]
       ELSE Answers(q) /\ UNCHANGED audit
    /\ UNCHANGED <<rule, reader, edits>>

(* select_for_update of the rule; the rollback gives the key back.  With a  *)
(* bug: the rule is read without the lock.                                  *)
LocksUnlocked(q, r) == TRUE
Locks(q, r) == \A p \in Requests \ {q} : ~(request[p].pc = "commit" /\ request[p].rule = r)

(* A rule that is created has a fresh identifier.                           *)
Exists(r) == rule[r].version # 0
IsFresh(r) == ~Exists(r) /\ \A p \in Requests : request[p].rule # r

Lock(q, r) ==
    LET f == request[q].print
        accepted == Does(f) = "create" \/ (Exists(r) /\ Expects(f) \in {0, rule[r].version})
    IN
    /\ request[q].pc = "lock"
    /\ IF Does(f) = "create" THEN IsFresh(r) ELSE r = RuleOf(f) /\ Locks(q, r)
    /\ IF accepted
       THEN /\ request' = [request EXCEPT ![q].pc = "commit", ![q].rule = r, ![q].copy = rule[r]]
            /\ UNCHANGED audit
       ELSE /\ request' = [request EXCEPT ![q].pc = IF Exists(r) THEN "answer" ELSE "failed"]
            /\ audit' = [audit EXCEPT ![request[q].key] = Free]
    /\ UNCHANGED <<rule, reader, edits>>

Conflict(q) ==
    /\ request[q].pc = "answer"
    /\ Answers(q)
    /\ UNCHANGED <<rule, audit, reader, edits>>

(* The rule is saved from the copy that was read: a save leaves "active" as *)
(* it is, a deactivation leaves the rest.                                   *)
Edited(f, copy) ==
    CASE Does(f) = "create" -> [version |-> 1, active |-> TRUE, says |-> Says(f)]
      [] Does(f) = "update" -> [copy EXCEPT !.version = @ + 1, !.says = Says(f)]
      [] Does(f) = "deactivate" -> [copy EXCEPT !.version = @ + 1, !.active = FALSE]

Commit(q) ==
    LET k == request[q].key
        r == request[q].rule
    IN
    /\ request[q].pc = "commit"
    /\ rule' = [rule EXCEPT ![r] = Edited(request[q].print, request[q].copy)]
    /\ audit' = [audit EXCEPT ![k].status = "succeeded", ![k].by = "nobody"]
    /\ edits' = [edits EXCEPT !.applied[k] = @ + 1, !.of[r] = @ + 1]
    /\ Answers(q)
    /\ UNCHANGED reader

(* The transaction fails and is rolled back, the audit row with it.         *)
Rollback(q) ==
    /\ request[q].pc = "commit"
    /\ audit' = [audit EXCEPT ![request[q].key] = Free]
    /\ request' = [request EXCEPT ![q].pc = "failed", ![q].rule = "none"]
    /\ UNCHANGED <<rule, reader, edits>>

(* _record_failure, in a transaction of its own: get_or_create.  With a bug:*)
(* update_or_create, which overwrites what a repeated request achieved.     *)
FailureOverwrites(row, f) == [status |-> "failed", print |-> f, by |-> "nobody"]
FailureRecorded(row, f) ==
    IF row.status = "none" THEN [status |-> "failed", print |-> f, by |-> "nobody"] ELSE row

RecordFailure(q) ==
    LET k == request[q].key IN
    /\ request[q].pc = "failed" /\ audit[k].status # "reserved"
    /\ audit' = [audit EXCEPT ![k] = FailureRecorded(@, request[q].print)]
    /\ Answers(q)
    /\ UNCHANGED <<rule, reader, edits>>

(* The process dies: its transaction is rolled back, and nothing recorded.  *)
Crash(q) ==
    /\ request[q].pc \notin {"idle", "audit"}
    /\ audit' = [k \in AuditKeys |-> IF audit[k].by = q THEN Free ELSE audit[k]]
    /\ Answers(q)
    /\ UNCHANGED <<rule, reader, edits>>

-----------------------------------------------------------------------------
(* get_active_rules reads the rules, and their intervals in a second query. *)
ReadRules(d) ==
    /\ reader[d].pc = "idle"
    /\ reader' = [reader EXCEPT ![d] = [pc |-> "read", rules |-> rule]]
    /\ UNCHANGED <<rule, audit, request, edits>>

ReadIntervals(d) ==
    /\ reader[d].pc = "read"
    /\ reader' = [reader EXCEPT ![d] = [pc |-> "resolve", rules |->
            [r \in Rules |-> [@.rules[r] EXCEPT !.says.hours = rule[r].says.hours]]]]
    /\ UNCHANGED <<rule, audit, request, edits>>

(* resolve_day: the absences, or else all, that are for the day; the one of *)
(* the highest priority.  With a bug: the priority alone decides.           *)
Matching(R) == {r \in Rules : R[r].active /\ R[r].says.today}
Absences(R) == {r \in Matching(R) : R[r].says.kind = "absence"}
Highest(R, S) == {r \in S : \A s \in S : R[s].says.priority <= R[r].says.priority}

ChosenByPriority(R) == Highest(R, Matching(R))
Chosen(R) == Highest(R, IF Absences(R) # {} THEN Absences(R) ELSE Matching(R))

(* The first by identifier of those chosen: any of them.                    *)
IsOpen(R) ==
    IF Chosen(R) = {} THEN {DefaultOpen}
    ELSE {R[r].says.kind = "service" /\ R[r].says.hours : r \in Chosen(R)}

Resolve(d) ==
    /\ reader[d].pc = "resolve"
    /\ \E open \in IsOpen(reader[d].rules) :
          reader' = [reader EXCEPT ![d].pc = IF open THEN "open" ELSE "closed"]
    /\ UNCHANGED <<rule, audit, request, edits>>

Use(d) ==
    /\ reader[d].pc \in {"open", "closed"}
    /\ reader' = [reader EXCEPT ![d] = NoReading]
    /\ UNCHANGED <<rule, audit, request, edits>>

-----------------------------------------------------------------------------
Next ==
    \/ \E q \in Requests :
        \/ \E k \in AuditKeys, f \in Prints : Ask(q, k, f)
        \/ Audit(q) \/ (\E r \in Rules : Lock(q, r)) \/ Conflict(q) \/ Commit(q) \/ Rollback(q)
        \/ RecordFailure(q) \/ Crash(q)
    \/ \E d \in Readers : ReadRules(d) \/ ReadIntervals(d) \/ Resolve(d) \/ Use(d)

Spec == Init /\ [][Next]_vars

-----------------------------------------------------------------------------
(***************************************************************************)
(* The audit tells the truth: an edit is applied once per key and exactly  *)
(* when its audit row says so, although requests are repeated, overlap,    *)
(* fail, and record their failure after a repetition has succeeded.        *)
(***************************************************************************)
AuditMatches == \A k \in AuditKeys :
    edits.applied[k] = IF audit[k].status = "succeeded" THEN 1 ELSE 0

(***************************************************************************)
(* No edit is lost: every edit of a rule is made to the version that the   *)
(* one before it left behind.                                              *)
(***************************************************************************)
NoLostEdit == \A r \in Rules : rule[r].version = edits.of[r]

(***************************************************************************)
(* An absence closes the day: no reader takes the desk to be open while an *)
(* absence is in force that was there when it began to read, whatever the  *)
(* other rules say and whoever edits them meanwhile.                       *)
(***************************************************************************)
AbsenceCloses == \A d \in Readers :
    reader[d].pc = "open" =>
        \A r \in Absences(rule) : rule[r].version > reader[d].rules[r].version
=============================================================================
