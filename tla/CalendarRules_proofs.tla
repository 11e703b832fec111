------------------------ MODULE CalendarRules_proofs ------------------------
(***************************************************************************)
(* Proofs about CalendarRules, for any requests, keys, rules and payloads: *)
(* the audit tells the truth, no edit is lost, and an absence closes the   *)
(* day.                                                                    *)
(***************************************************************************)
EXTENDS CalendarRules, FiniteSetTheorems, TLAPS

(***************************************************************************)
(* Types.  A reader's copy of a rule may mix what two versions say.        *)
(***************************************************************************)
Saying == [kind : {"service", "absence"}, priority : Nat, today : BOOLEAN, hours : BOOLEAN]
Row == [version : Nat, active : BOOLEAN, says : Saying]
RuleTyped == rule \in [Rules -> Row]

AuditRow == [status : {"none", "reserved", "succeeded", "failed"},
             print : {<<>>} \cup Prints, by : Requests \cup {"nobody"}]
AuditTyped == audit \in [AuditKeys -> AuditRow]

Request == [pc : {"idle", "audit", "lock", "commit", "answer", "failed"},
            key : AuditKeys \cup {"none"}, print : {<<>>} \cup Prints,
            rule : Rules \cup {"none"}, copy : Row \cup {NoRule}]
RequestTyped ==
    /\ request \in [Requests -> Request]
    /\ \A q \in Requests : request[q].pc # "idle" =>
            request[q].key \in AuditKeys /\ request[q].print \in Prints

EditsTyped == edits \in [made : Nat, applied : [AuditKeys -> Nat], of : [Rules -> Nat]]

Reading == [pc : {"idle", "read", "resolve", "open", "closed"},
            rules : {<<>>} \cup [Rules -> Row]]
ReaderTyped ==
    /\ reader \in [Readers -> Reading]
    /\ \A d \in Readers : reader[d].pc # "idle" => reader[d].rules \in [Rules -> Row]

(***************************************************************************)
(* Who holds a key: an audit row is reserved exactly while one transaction *)
(* works under it.                                                         *)
(***************************************************************************)
Works(q) == request[q].pc \in {"lock", "commit"}

ReservedBy(k) ==
    IF audit[k].status = "reserved"
    THEN audit[k].by \in Requests /\ Works(audit[k].by) /\ request[audit[k].by].key = k
    ELSE audit[k].by = "nobody"

HasReserved(q) == Works(q) =>
    audit[request[q].key].status = "reserved" /\ audit[request[q].key].by = q

(***************************************************************************)
(* The copy that is about to be saved is the rule as it is, and nobody     *)
(* else is about to save that rule.                                        *)
(***************************************************************************)
CopyIsCurrent(q) == request[q].pc = "commit" =>
    /\ request[q].rule \in Rules
    /\ request[q].copy = rule[request[q].rule]
    /\ \A p \in Requests \ {q} : request[p].pc = "commit" => request[p].rule # request[q].rule
    /\ Does(request[q].print) = "create" => ~Exists(request[q].rule)

(***************************************************************************)
(* What a reader has of a rule agrees with the rule, but for the hours,    *)
(* until the rule has a newer version; and a desk that was taken to be     *)
(* open has no absence in what was read.                                   *)
(***************************************************************************)
Agrees(d, r) ==
    LET c == reader[d].rules[r] IN
    \/ rule[r].version > c.version
    \/ /\ c.version = rule[r].version /\ c.active = rule[r].active
       /\ c.says.kind = rule[r].says.kind /\ c.says.today = rule[r].says.today

ReadsTruly(d) ==
    /\ reader[d].pc # "idle" => \A r \in Rules : Agrees(d, r)
    /\ reader[d].pc = "open" => Absences(reader[d].rules) = {}

Typed == RuleTyped /\ AuditTyped /\ RequestTyped /\ EditsTyped /\ ReaderTyped

CalendarInv ==
    /\ CalendarAssumption /\ Typed
    /\ \A k \in AuditKeys : ReservedBy(k)
    /\ \A q \in Requests : HasReserved(q) /\ CopyIsCurrent(q)
    /\ \A d \in Readers : ReadsTruly(d)
    /\ AuditMatches /\ NoLostEdit

-----------------------------------------------------------------------------
(***************************************************************************)
(* Fingerprints.                                                           *)
(***************************************************************************)
LEMMA PrintParts ==
  ASSUME CalendarAssumption, NEW f \in Prints
  PROVE  /\ Does(f) \in {"create", "update", "deactivate"}
         /\ Does(f) # "deactivate" => Says(f) \in Saying
  BY DEF Prints, Does, Says, CalendarAssumption, Saying

LEMMA EditedTyped ==
  ASSUME CalendarAssumption, NEW f \in Prints, NEW copy \in Row,
         Does(f) = "create" => copy.version = 0
  PROVE  Edited(f, copy) \in Row /\ Edited(f, copy).version = copy.version + 1
<1>1. Does(f) \in {"create", "update", "deactivate"}
      /\ (Does(f) # "deactivate" => Says(f) \in Saying)
  BY PrintParts
<1>2. copy.version \in Nat /\ copy.version + 1 \in Nat
  BY DEF Row
<1>3. CASE Does(f) = "create"
  BY <1>1, <1>2, <1>3 DEF Edited, Row
<1>4. CASE Does(f) = "update"
  BY <1>1, <1>2, <1>4 DEF Edited, Row
<1>5. CASE Does(f) = "deactivate"
  BY <1>1, <1>2, <1>5 DEF Edited, Row
<1> QED
  BY <1>1, <1>3, <1>4, <1>5

(***************************************************************************)
(* Among finitely many rules that are for a day one has the highest        *)
(* priority: the one above which the fewest rules are.                     *)
(***************************************************************************)
LEMMA HighestExists ==
  ASSUME CalendarAssumption, NEW R \in [Rules -> Row], NEW S \in SUBSET Rules, S # {}
  PROVE  Highest(R, S) # {}
<1> DEFINE Above(r) == {s \in S : R[s].says.priority >= R[r].says.priority}
           T == {Above(r) : r \in S}
<1>1. \A r \in Rules : R[r].says.priority \in Nat
  BY DEF Row, Saying
<1>2. IsFiniteSet(S)
  BY FS_Subset DEF CalendarAssumption
<1>3. IsWellFoundedOn(StrictSubsetOrdering(S), FiniteSubsetsOf(S))
  BY FS_StrictSubsetOrderingWellFounded
<1>4. T \subseteq FiniteSubsetsOf(S) /\ T # {}
  <2>1. FiniteSubsetsOf(S) = SUBSET S
    BY <1>2, FS_FiniteSubsetsOfFinite
  <2>2. \A r \in S : Above(r) \in SUBSET S
    OBVIOUS
  <2>3. T \subseteq SUBSET S
    BY <2>2
  <2>4. T # {}
    <3>1. PICK r \in S : TRUE
      OBVIOUS
    <3>2. Above(r) \in T
      BY <3>1
    <3> QED
      BY <3>2
  <2> QED
    BY <2>1, <2>3, <2>4
<1>5. PICK x \in T : \A y \in T : ~(<<y, x>> \in StrictSubsetOrdering(S))
  <2> HIDE DEF T
  <2> QED
    BY <1>3, <1>4, WFMin
<1>6. PICK r \in S : x = Above(r)
  OBVIOUS
<1>7. ASSUME NEW s \in S PROVE R[s].says.priority <= R[r].says.priority
  <2> SUFFICES ASSUME R[s].says.priority > R[r].says.priority PROVE FALSE
    BY <1>1
  <2>1. Above(s) \subseteq Above(r)
    BY <1>1
  <2>2. r \in Above(r) /\ r \notin Above(s)
    BY <1>1
  <2>3. <<Above(s), Above(r)>> \in StrictSubsetOrdering(S)
    BY <2>1, <2>2 DEF StrictSubsetOrdering
  <2> QED
    BY <1>5, <1>6, <2>3
<1> QED
  BY <1>7 DEF Highest

(***************************************************************************)
(* Where an absence matches the day, no rule that may be chosen opens it.  *)
(***************************************************************************)
LEMMA AbsenceDecides ==
  ASSUME CalendarAssumption, NEW R \in [Rules -> Row], Absences(R) # {}
  PROVE  IsOpen(R) = {FALSE}
<1>1. Absences(R) \subseteq Rules
  BY DEF Absences, Matching
<1>2. Chosen(R) = Highest(R, Absences(R)) /\ Chosen(R) # {}
  BY <1>1, HighestExists DEF Chosen
<1>3. \A r \in Chosen(R) : R[r].says.kind = "absence"
  BY <1>2 DEF Highest, Absences
<1>4. \A r \in Chosen(R) : (R[r].says.kind = "service" /\ R[r].says.hours) = FALSE
  BY <1>3
<1> QED
  BY <1>2, <1>4 DEF IsOpen

-----------------------------------------------------------------------------
(***************************************************************************)
(* A step of one request that saves no rule: what is left to show of it is *)
(* who holds the keys, and that no row begins or ceases to tell of success.*)
(***************************************************************************)
SuccessStays == \A k \in AuditKeys :
    audit'[k].status = "succeeded" <=> audit[k].status = "succeeded"

LEMMA RequestMoved ==
  ASSUME CalendarInv, NEW q \in Requests, NEW to \in Request,
         request' = [request EXCEPT ![q] = to],
         to.pc # "idle" => to.key \in AuditKeys /\ to.print \in Prints
  PROVE  /\ RequestTyped' /\ request'[q] = to
         /\ \A p \in Requests \ {q} : request'[p] = request[p]
  BY DEF CalendarInv, Typed, RequestTyped

LEMMA Moves ==
  ASSUME CalendarInv, NEW q \in Requests, NEW to \in Request,
         request' = [request EXCEPT ![q] = to], to.pc # "commit",
         to.pc # "idle" => to.key \in AuditKeys /\ to.print \in Prints,
         UNCHANGED <<rule, reader>>, EditsTyped',
         edits'.applied = edits.applied, edits'.of = edits.of,
         AuditTyped', SuccessStays,
         \A k \in AuditKeys : ReservedBy(k)', \A p \in Requests : HasReserved(p)'
  PROVE  CalendarInv'
<1>1. /\ RequestTyped' /\ request'[q] = to
      /\ \A p \in Requests \ {q} : request'[p] = request[p]
  BY RequestMoved
<1>2. Typed'
  BY <1>1 DEF CalendarInv, Typed, RuleTyped, ReaderTyped
<1>3. \A p \in Requests : CopyIsCurrent(p)'
  BY <1>1 DEF CalendarInv, CopyIsCurrent, Exists
<1>4. \A d \in Readers : ReadsTruly(d)'
  BY DEF CalendarInv, ReadsTruly, Agrees, Absences, Matching
<1>5. AuditMatches' /\ NoLostEdit'
  BY DEF CalendarInv, AuditMatches, NoLostEdit, SuccessStays
<1>6. CalendarAssumption'
  BY DEF CalendarInv
<1> QED
  BY <1>2, <1>3, <1>4, <1>5, <1>6 DEF CalendarInv

(***************************************************************************)
(* A request that holds no key moves, without one.                         *)
(***************************************************************************)
LEMMA KeysStay ==
  ASSUME CalendarInv, NEW q \in Requests, ~Works(q), ~Works(q)', UNCHANGED audit,
         \A p \in Requests \ {q} : request'[p] = request[p]
  PROVE  /\ \A k \in AuditKeys : ReservedBy(k)'
         /\ \A p \in Requests : HasReserved(p)'
         /\ AuditTyped' /\ SuccessStays
<1>1. \A p \in Requests \ {q} : Works(p)' = Works(p)
  BY DEF Works
<1>2. \A p \in Requests : HasReserved(p)'
  BY <1>1 DEF CalendarInv, HasReserved
<1>3. ASSUME NEW k \in AuditKeys PROVE ReservedBy(k)'
  <2>1. ReservedBy(k)
    BY DEF CalendarInv
  <2>2. audit[k].status = "reserved" => audit[k].by # q
    BY <2>1 DEF ReservedBy
  <2> QED
    BY <1>1, <2>1, <2>2 DEF ReservedBy
<1> QED
  BY <1>2, <1>3 DEF CalendarInv, Typed, AuditTyped, SuccessStays

LEMMA IdleTyped == Idle \in Request /\ Idle.pc = "idle"
  BY DEF Idle, Request

LEMMA Asked ==
  ASSUME CalendarInv, NEW q \in Requests, NEW k \in AuditKeys, NEW f \in Prints, Ask(q, k, f)
  PROVE  CalendarInv'
<1> DEFINE to == [Idle EXCEPT !.pc = "audit", !.key = k, !.print = f]
<1>1. request' = [request EXCEPT ![q] = to] /\ request[q].pc = "idle"
      /\ edits' = [edits EXCEPT !.made = @ + 1] /\ UNCHANGED <<rule, audit, reader>>
  BY DEF Ask
<1>2. to \in Request /\ to.pc = "audit" /\ to.key = k /\ to.print = f
  BY DEF Idle, Request
<1> HIDE DEF to
<1>3. /\ request'[q] = to /\ \A p \in Requests \ {q} : request'[p] = request[p]
  BY <1>1, <1>2, RequestMoved
<1>4. EditsTyped' /\ edits'.applied = edits.applied /\ edits'.of = edits.of
  BY <1>1 DEF CalendarInv, Typed, EditsTyped
<1>5. ~Works(q) /\ ~Works(q)'
  BY <1>1, <1>2, <1>3 DEF Works
<1>6. /\ \A j \in AuditKeys : ReservedBy(j)'
      /\ \A p \in Requests : HasReserved(p)'
      /\ AuditTyped' /\ SuccessStays
  BY <1>1, <1>3, <1>5, KeysStay
<1> QED
  BY <1>1, <1>2, <1>4, <1>6, Moves

LEMMA Conflicted ==
  ASSUME CalendarInv, NEW q \in Requests, ~Works(q), Answers(q),
         UNCHANGED <<rule, audit, reader, edits>>
  PROVE  CalendarInv'
<1>1. request' = [request EXCEPT ![q] = Idle]
  BY DEF Answers
<1>2. /\ request'[q] = Idle /\ \A p \in Requests \ {q} : request'[p] = request[p]
  BY <1>1, IdleTyped, RequestMoved
<1>3. ~Works(q)'
  BY <1>2, IdleTyped DEF Works
<1>4. /\ \A j \in AuditKeys : ReservedBy(j)'
      /\ \A p \in Requests : HasReserved(p)'
      /\ AuditTyped' /\ SuccessStays
  BY <1>2, <1>3, KeysStay
<1>5. EditsTyped' /\ edits'.applied = edits.applied /\ edits'.of = edits.of
  BY DEF CalendarInv, Typed, EditsTyped
<1>6. /\ Idle \in Request /\ Idle.pc # "commit"
      /\ Idle.pc # "idle" => Idle.key \in AuditKeys /\ Idle.print \in Prints
      /\ UNCHANGED <<rule, reader>>
  BY IdleTyped
<1> QED
  BY <1>1, <1>4, <1>5, <1>6, Moves

(***************************************************************************)
(* A key is taken by the request that finds it unused.                     *)
(***************************************************************************)
LEMMA Audited ==
  ASSUME CalendarInv, NEW q \in Requests, Audit(q) PROVE CalendarInv'
<1> DEFINE k == request[q].key
           to == [request[q] EXCEPT !.pc = "lock"]
           row == [status |-> "reserved", print |-> request[q].print, by |-> q]
<1>1. request[q].pc = "audit" /\ UNCHANGED <<rule, reader, edits>>
  BY DEF Audit
<1>2. k \in AuditKeys /\ request[q].print \in Prints /\ request[q] \in Request
  BY <1>1 DEF CalendarInv, Typed, RequestTyped
<1>3. CASE audit[k].status # "none"
  BY <1>1, <1>3, Conflicted DEF Audit, Works
<1>4. CASE audit[k].status = "none"
  <2>1. audit' = [audit EXCEPT ![k] = row] /\ request' = [request EXCEPT ![q] = to]
    BY <1>2, <1>4 DEF Audit, Request
  <2>2. to \in Request /\ to.pc = "lock" /\ to.key = k /\ to.print = request[q].print
    BY <1>2 DEF Request
  <2>3. row \in AuditRow /\ row.status = "reserved" /\ row.by = q
    BY <1>2 DEF AuditRow
  <2> HIDE DEF to, row
  <2>4. /\ request'[q] = to /\ \A p \in Requests \ {q} : request'[p] = request[p]
    BY <1>2, <2>1, <2>2, RequestMoved
  <2>5. /\ AuditTyped' /\ audit'[k] = row /\ \A j \in AuditKeys \ {k} : audit'[j] = audit[j]
    BY <1>2, <2>1, <2>3 DEF CalendarInv, Typed, AuditTyped
  <2>6. Works(q)' /\ ~Works(q) /\ \A p \in Requests \ {q} : Works(p)' = Works(p)
    BY <1>1, <2>2, <2>4 DEF Works
  <2>7. ASSUME NEW p \in Requests PROVE HasReserved(p)'
    <3>1. CASE p = q
      BY <2>2, <2>3, <2>4, <2>5, <3>1 DEF HasReserved
    <3>2. CASE p # q
      BY <1>4, <2>4, <2>5, <2>6, <3>2 DEF CalendarInv, HasReserved, Typed, RequestTyped, Works
    <3> QED
      BY <3>1, <3>2
  <2>8. ASSUME NEW j \in AuditKeys PROVE ReservedBy(j)'
    <3>1. CASE j = k
      BY <2>2, <2>3, <2>4, <2>5, <2>6, <3>1 DEF ReservedBy
    <3>2. CASE j # k
      <4>1. ReservedBy(j)
        BY DEF CalendarInv
      <4> QED
        BY <2>4, <2>5, <2>6, <3>2, <4>1 DEF ReservedBy
    <3> QED
      BY <3>1, <3>2
  <2>9. SuccessStays
    BY <1>4, <2>3, <2>5 DEF SuccessStays
  <2>10. EditsTyped'
    BY <1>1 DEF CalendarInv, Typed, EditsTyped
  <2> QED
    BY <1>1, <1>2, <2>1, <2>2, <2>5, <2>7, <2>8, <2>9, <2>10, Moves
<1> QED
  BY <1>3, <1>4

(***************************************************************************)
(* A transaction that is rolled back gives its key back.                   *)
(***************************************************************************)
LEMMA GivenBack ==
  ASSUME CalendarInv, NEW q \in Requests, Works(q), NEW to \in Request,
         request' = [request EXCEPT ![q] = to], to.pc \notin {"lock", "commit"},
         to.pc # "idle" => to.key \in AuditKeys /\ to.print \in Prints,
         audit' = [audit EXCEPT ![request[q].key] = Free],
         UNCHANGED <<rule, reader, edits>>
  PROVE  CalendarInv'
<1> DEFINE k == request[q].key
<1>1. /\ request'[q] = to /\ \A p \in Requests \ {q} : request'[p] = request[p]
  BY RequestMoved
<1>2. k \in AuditKeys /\ HasReserved(q)
  BY DEF CalendarInv, Typed, RequestTyped, Works
<1>3. Free \in AuditRow /\ Free.status = "none" /\ Free.by = "nobody"
  BY DEF Free, AuditRow
<1>4. /\ AuditTyped' /\ audit'[k] = Free /\ \A j \in AuditKeys \ {k} : audit'[j] = audit[j]
  BY <1>2, <1>3 DEF CalendarInv, Typed, AuditTyped
<1>5. ~Works(q)' /\ \A p \in Requests \ {q} : Works(p)' = Works(p)
  BY <1>1 DEF Works
<1>6. \A p \in Requests \ {q} : Works(p) => request[p].key # k
  BY <1>2 DEF CalendarInv, HasReserved
<1>7. ASSUME NEW p \in Requests PROVE HasReserved(p)'
  <2>1. CASE p = q
    BY <1>5, <2>1 DEF HasReserved
  <2>2. CASE p # q
    BY <1>1, <1>4, <1>5, <1>6, <2>2 DEF CalendarInv, HasReserved, Typed, RequestTyped, Works
  <2> QED
    BY <2>1, <2>2
<1>8. ASSUME NEW j \in AuditKeys PROVE ReservedBy(j)'
  <2>1. CASE j = k
    BY <1>3, <1>4, <2>1 DEF ReservedBy
  <2>2. CASE j # k
    <3>1. ReservedBy(j)
      BY DEF CalendarInv
    <3>2. audit[j].status = "reserved" => audit[j].by # q
      BY <2>2, <3>1 DEF ReservedBy
    <3> QED
      BY <1>1, <1>4, <1>5, <2>2, <3>1, <3>2 DEF ReservedBy
  <2> QED
    BY <2>1, <2>2
<1>9. SuccessStays
  BY <1>2, <1>3, <1>4 DEF SuccessStays, HasReserved
<1>10. EditsTyped'
  BY DEF CalendarInv, Typed, EditsTyped
<1> QED
  BY <1>4, <1>7, <1>8, <1>9, <1>10, Moves

LEMMA RolledBack ==
  ASSUME CalendarInv, NEW q \in Requests, Rollback(q) PROVE CalendarInv'
<1> DEFINE to == [request[q] EXCEPT !.pc = "failed", !.rule = "none"]
<1>1. Works(q) /\ request[q] \in Request /\ request \in [Requests -> Request]
  BY DEF Rollback, Works, CalendarInv, Typed, RequestTyped
<1>2. request[q].key \in AuditKeys /\ request[q].print \in Prints
  BY <1>1 DEF CalendarInv, Typed, RequestTyped, Works
<1>3. /\ to \in Request /\ to.pc = "failed" /\ to.key = request[q].key
      /\ to.print = request[q].print
  BY <1>1 DEF Request
<1>4. request' = [request EXCEPT ![q] = to]
      /\ audit' = [audit EXCEPT ![request[q].key] = Free] /\ UNCHANGED <<rule, reader, edits>>
  BY <1>1 DEF Rollback, Request
<1> HIDE DEF to
<1> QED
  BY <1>1, <1>2, <1>3, <1>4, GivenBack

(***************************************************************************)
(* A process that dies has at most one key to give back.                   *)
(***************************************************************************)
LEMMA Crashed ==
  ASSUME CalendarInv, NEW q \in Requests, Crash(q) PROVE CalendarInv'
<1>1. audit' = [k \in AuditKeys |-> IF audit[k].by = q THEN Free ELSE audit[k]]
      /\ Answers(q) /\ UNCHANGED <<rule, reader, edits>>
  BY DEF Crash
<1>2. q # "nobody" /\ audit \in [AuditKeys -> AuditRow]
  BY DEF CalendarInv, CalendarAssumption, Typed, AuditTyped
<1>3. \A k \in AuditKeys : audit[k].by = q => Works(q) /\ request[q].key = k
  BY <1>2 DEF CalendarInv, ReservedBy
<1>4. CASE Works(q)
  <2>1. request[q].key \in AuditKeys /\ audit[request[q].key].by = q
    BY <1>4 DEF CalendarInv, HasReserved, Typed, RequestTyped, Works
  <2>2. audit' = [audit EXCEPT ![request[q].key] = Free]
    BY <1>1, <1>2, <1>3, <2>1
  <2>3. request' = [request EXCEPT ![q] = Idle]
    BY <1>1 DEF Answers
  <2>4. Idle.pc \notin {"lock", "commit"} /\ Idle \in Request
        /\ (Idle.pc # "idle" => Idle.key \in AuditKeys /\ Idle.print \in Prints)
    BY IdleTyped
  <2> QED
    BY <1>1, <1>4, <2>2, <2>3, <2>4, GivenBack
<1>5. CASE ~Works(q)
  <2>1. audit' = audit
    BY <1>1, <1>2, <1>3, <1>5
  <2> QED
    BY <1>1, <1>5, <2>1, Conflicted
<1> QED
  BY <1>4, <1>5

(***************************************************************************)
(* A failure is recorded where nothing is: it overwrites no success.       *)
(***************************************************************************)
LEMMA FailureIsRecorded ==
  ASSUME CalendarInv, NEW q \in Requests, RecordFailure(q) PROVE CalendarInv'
<1> DEFINE k == request[q].key
           row == FailureRecorded(audit[k], request[q].print)
<1>1. /\ request[q].pc = "failed" /\ audit[k].status # "reserved"
      /\ audit' = [audit EXCEPT ![k] = row] /\ request' = [request EXCEPT ![q] = Idle]
      /\ UNCHANGED <<rule, reader, edits>>
  BY DEF RecordFailure, Answers
<1>2. k \in AuditKeys /\ request[q].print \in Prints
  BY <1>1 DEF CalendarInv, Typed, RequestTyped
<1>3. audit[k] \in AuditRow /\ audit[k].by = "nobody"
  BY <1>1, <1>2 DEF CalendarInv, Typed, AuditTyped, ReservedBy
<1>4. /\ row \in AuditRow /\ row.status # "reserved" /\ row.by = "nobody"
      /\ row.status = "succeeded" <=> audit[k].status = "succeeded"
  BY <1>1, <1>2, <1>3 DEF FailureRecorded, AuditRow
<1> HIDE DEF row
<1>5. /\ AuditTyped' /\ audit'[k] = row /\ \A j \in AuditKeys \ {k} : audit'[j] = audit[j]
  BY <1>1, <1>2, <1>4 DEF CalendarInv, Typed, AuditTyped
<1>6. /\ request'[q] = Idle /\ \A p \in Requests \ {q} : request'[p] = request[p]
  BY <1>1, IdleTyped, RequestMoved
<1>7. ~Works(q) /\ ~Works(q)' /\ \A p \in Requests \ {q} : Works(p)' = Works(p)
  BY <1>1, <1>6, IdleTyped DEF Works
<1>8. ASSUME NEW p \in Requests PROVE HasReserved(p)'
  <2>1. CASE p = q
    BY <1>7, <2>1 DEF HasReserved
  <2>2. CASE p # q
    <3>1. Works(p) => request[p].key # k
      BY <1>1 DEF CalendarInv, HasReserved
    <3> QED
      BY <1>5, <1>6, <1>7, <2>2, <3>1 DEF CalendarInv, HasReserved, Typed, RequestTyped, Works
  <2> QED
    BY <2>1, <2>2
<1>9. ASSUME NEW j \in AuditKeys PROVE ReservedBy(j)'
  <2>1. CASE j = k
    BY <1>4, <1>5, <2>1 DEF ReservedBy
  <2>2. CASE j # k
    <3>1. ReservedBy(j)
      BY DEF CalendarInv
    <3>2. audit[j].status = "reserved" => audit[j].by # q
      BY <1>7, <3>1 DEF ReservedBy
    <3> QED
      BY <1>5, <1>6, <1>7, <2>2, <3>1, <3>2 DEF ReservedBy
  <2> QED
    BY <2>1, <2>2
<1>10. SuccessStays
  BY <1>4, <1>5 DEF SuccessStays
<1>11. EditsTyped'
  BY <1>1 DEF CalendarInv, Typed, EditsTyped
<1>12. /\ Idle \in Request /\ Idle.pc # "commit"
       /\ Idle.pc # "idle" => Idle.key \in AuditKeys /\ Idle.print \in Prints
  BY IdleTyped
<1> QED
  BY <1>1, <1>5, <1>8, <1>9, <1>10, <1>11, <1>12, Moves

(***************************************************************************)
(* The rule is locked, and its copy is the rule as it is until the commit. *)
(***************************************************************************)
LEMMA Locked ==
  ASSUME CalendarInv, NEW q \in Requests, NEW r \in Rules, Lock(q, r) PROVE CalendarInv'
<1> DEFINE f == request[q].print
           accepted == Does(f) = "create" \/ (Exists(r) /\ Expects(f) \in {0, rule[r].version})
<1>1. /\ request[q].pc = "lock" /\ Works(q) /\ UNCHANGED <<rule, reader, edits>>
      /\ IF Does(f) = "create" THEN IsFresh(r) ELSE r = RuleOf(f) /\ Locks(q, r)
  BY DEF Lock, Works
<1>2. request[q].key \in AuditKeys /\ f \in Prints /\ request[q] \in Request
  BY <1>1 DEF CalendarInv, Typed, RequestTyped
<1>3. rule[r] \in Row
  BY DEF CalendarInv, Typed, RuleTyped
<1>4. CASE ~accepted
  <2> DEFINE to == [request[q] EXCEPT !.pc = IF Exists(r) THEN "answer" ELSE "failed"]
  <2>1. /\ request' = [request EXCEPT ![q] = to]
        /\ audit' = [audit EXCEPT ![request[q].key] = Free]
    BY <1>2, <1>4 DEF Lock, Request
  <2>2. /\ to \in Request /\ to.pc \notin {"lock", "commit"}
        /\ to.key \in AuditKeys /\ to.print \in Prints
    BY <1>2 DEF Request
  <2> HIDE DEF to
  <2> QED
    BY <1>1, <2>1, <2>2, GivenBack
<1>5. CASE accepted
  <2> DEFINE to == [request[q] EXCEPT !.pc = "commit", !.rule = r, !.copy = rule[r]]
  <2>1. request' = [request EXCEPT ![q] = to] /\ UNCHANGED audit
    BY <1>2, <1>5 DEF Lock, Request
  <2>2. /\ to \in Request /\ to.pc = "commit" /\ to.rule = r /\ to.copy = rule[r]
        /\ to.key = request[q].key /\ to.print = f
    BY <1>2, <1>3 DEF Request
  <2> HIDE DEF to
  <2>3. /\ RequestTyped' /\ request'[q] = to
        /\ \A p \in Requests \ {q} : request'[p] = request[p]
    BY <1>2, <2>1, <2>2, RequestMoved
  <2>4. \A p \in Requests : Works(p)' = Works(p) /\ request'[p].key = request[p].key
    BY <1>1, <2>2, <2>3 DEF Works
  <2>5. \A p \in Requests : HasReserved(p)'
    BY <2>1, <2>4 DEF CalendarInv, HasReserved
  <2>6. \A k \in AuditKeys : ReservedBy(k)'
    BY <2>1, <2>4 DEF CalendarInv, ReservedBy
  <2>7. \A p \in Requests \ {q} : request[p].pc = "commit" => request[p].rule # r
    BY <1>1 DEF IsFresh, Locks
  <2>8. Does(f) = "create" => ~Exists(r)
    BY <1>1 DEF IsFresh
  <2>9. ASSUME NEW p \in Requests PROVE CopyIsCurrent(p)'
    <3>1. CASE p = q
      BY <1>1, <2>2, <2>3, <2>7, <2>8, <3>1 DEF CopyIsCurrent, Exists
    <3>2. CASE p # q
      BY <1>1, <2>2, <2>3, <2>7, <3>2 DEF CalendarInv, CopyIsCurrent, Exists
    <3> QED
      BY <3>1, <3>2
  <2>10. Typed'
    BY <1>1, <2>1, <2>3
       DEF CalendarInv, Typed, RuleTyped, AuditTyped, EditsTyped, ReaderTyped
  <2>11. \A d \in Readers : ReadsTruly(d)'
    BY <1>1 DEF CalendarInv, ReadsTruly, Agrees, Absences, Matching
  <2>12. AuditMatches' /\ NoLostEdit' /\ CalendarAssumption'
    BY <1>1, <2>1 DEF CalendarInv, AuditMatches, NoLostEdit
  <2> QED
    BY <2>5, <2>6, <2>9, <2>10, <2>11, <2>12 DEF CalendarInv
<1> QED
  BY <1>4, <1>5

(***************************************************************************)
(* The edit, its audit row and its version are one commit.                 *)
(***************************************************************************)
LEMMA Committed ==
  ASSUME CalendarInv, NEW q \in Requests, Commit(q) PROVE CalendarInv'
<1> DEFINE k == request[q].key
           r == request[q].rule
           row == [audit[k] EXCEPT !.status = "succeeded", !.by = "nobody"]
           saved == Edited(request[q].print, request[q].copy)
<1>1. /\ request[q].pc = "commit" /\ Works(q)
      /\ k \in AuditKeys /\ request[q].print \in Prints /\ request[q] \in Request
  BY DEF Commit, Works, CalendarInv, Typed, RequestTyped
<1>2. /\ r \in Rules /\ request[q].copy = rule[r] /\ rule[r] \in Row
      /\ \A p \in Requests \ {q} : request[p].pc = "commit" => request[p].rule # r
      /\ Does(request[q].print) = "create" => ~Exists(r)
  BY <1>1 DEF CalendarInv, CopyIsCurrent, Typed, RuleTyped
<1>3. audit[k] \in AuditRow /\ audit[k].status = "reserved" /\ audit[k].by = q
  BY <1>1 DEF CalendarInv, Typed, AuditTyped, HasReserved
<1>4. saved \in Row /\ saved.version = rule[r].version + 1
  BY <1>1, <1>2, EditedTyped DEF CalendarInv, Exists
<1>5. row \in AuditRow /\ row.status = "succeeded" /\ row.by = "nobody"
  BY <1>3 DEF AuditRow
<1>6. /\ rule' = [rule EXCEPT ![r] = saved] /\ audit' = [audit EXCEPT ![k] = row]
      /\ request' = [request EXCEPT ![q] = Idle] /\ UNCHANGED reader
  BY <1>1, <1>3 DEF Commit, Answers, AuditRow
<1>7. edits' = [edits EXCEPT !.applied[k] = @ + 1, !.of[r] = @ + 1]
  BY DEF Commit
<1> HIDE DEF row, saved
<1>8. /\ RuleTyped' /\ rule'[r] = saved /\ \A s \in Rules \ {r} : rule'[s] = rule[s]
  BY <1>2, <1>4, <1>6 DEF CalendarInv, Typed, RuleTyped
<1>9. /\ AuditTyped' /\ audit'[k] = row /\ \A j \in AuditKeys \ {k} : audit'[j] = audit[j]
  BY <1>1, <1>5, <1>6 DEF CalendarInv, Typed, AuditTyped
<1>10. /\ RequestTyped' /\ request'[q] = Idle
       /\ \A p \in Requests \ {q} : request'[p] = request[p]
  BY <1>6, IdleTyped, RequestMoved
<1>11. /\ EditsTyped' /\ edits'.applied = [edits.applied EXCEPT ![k] = @ + 1]
       /\ edits'.of = [edits.of EXCEPT ![r] = @ + 1]
  <2>1. edits \in [made : Nat, applied : [AuditKeys -> Nat], of : [Rules -> Nat]]
    BY DEF CalendarInv, Typed, EditsTyped
  <2>2. edits' = [made |-> edits.made, applied |-> [edits.applied EXCEPT ![k] = @ + 1],
                  of |-> [edits.of EXCEPT ![r] = @ + 1]]
    BY <1>7, <2>1
  <2>3. /\ [edits.applied EXCEPT ![k] = @ + 1] \in [AuditKeys -> Nat]
        /\ [edits.of EXCEPT ![r] = @ + 1] \in [Rules -> Nat]
    BY <1>1, <1>2, <2>1
  <2> QED
    BY <2>1, <2>2, <2>3 DEF EditsTyped
<1>12. edits.applied \in [AuditKeys -> Nat] /\ edits.of \in [Rules -> Nat]
  BY DEF CalendarInv, Typed, EditsTyped
<1>13. ~Works(q)' /\ \A p \in Requests \ {q} : Works(p)' = Works(p)
  BY <1>10, IdleTyped DEF Works
<1>14. Typed'
  BY <1>6, <1>8, <1>9, <1>10, <1>11 DEF CalendarInv, Typed, ReaderTyped
<1>15. ASSUME NEW p \in Requests PROVE HasReserved(p)'
  <2>1. CASE p = q
    BY <1>13, <2>1 DEF HasReserved
  <2>2. CASE p # q
    <3>1. Works(p) => request[p].key # k
      BY <1>3, <2>2 DEF CalendarInv, HasReserved
    <3> QED
      BY <1>9, <1>10, <1>13, <2>2, <3>1 DEF CalendarInv, HasReserved, Typed, RequestTyped, Works
  <2> QED
    BY <2>1, <2>2
<1>16. ASSUME NEW j \in AuditKeys PROVE ReservedBy(j)'
  <2>1. CASE j = k
    BY <1>5, <1>9, <2>1 DEF ReservedBy
  <2>2. CASE j # k
    <3>1. ReservedBy(j)
      BY DEF CalendarInv
    <3>2. audit[j].status = "reserved" => audit[j].by # q
      BY <2>2, <3>1 DEF ReservedBy
    <3> QED
      BY <1>9, <1>10, <1>13, <2>2, <3>1, <3>2 DEF ReservedBy
  <2> QED
    BY <2>1, <2>2
<1>17. ASSUME NEW p \in Requests PROVE CopyIsCurrent(p)'
  <2>1. CASE p = q
    BY <1>10, <2>1, IdleTyped DEF CopyIsCurrent
  <2>2. CASE p # q
    <3> SUFFICES ASSUME request'[p].pc = "commit" PROVE CopyIsCurrent(p)'
      BY DEF CopyIsCurrent
    <3>1. request[p].pc = "commit" /\ request'[p] = request[p] /\ request[p].rule # r
      BY <1>2, <1>10, <2>2
    <3>2. CopyIsCurrent(p)
      BY DEF CalendarInv
    <3>3. request[p].rule \in Rules /\ rule'[request[p].rule] = rule[request[p].rule]
      BY <1>8, <3>1, <3>2 DEF CopyIsCurrent
    <3>4. \A o \in Requests \ {p} :
             request'[o].pc = "commit" => request[o].pc = "commit" /\ request'[o] = request[o]
      BY <1>10, IdleTyped
    <3> QED
      BY <3>1, <3>2, <3>3, <3>4 DEF CopyIsCurrent, Exists
  <2> QED
    BY <2>1, <2>2
<1>18. ASSUME NEW d \in Readers PROVE ReadsTruly(d)'
  <2>1. ReadsTruly(d) /\ reader' = reader
    BY <1>6 DEF CalendarInv
  <2>2. ASSUME reader[d].pc # "idle", NEW s \in Rules PROVE Agrees(d, s)'
    <3>1. Agrees(d, s) /\ reader[d].rules \in [Rules -> Row]
      BY <2>1, <2>2 DEF ReadsTruly, CalendarInv, Typed, ReaderTyped
    <3>2. reader[d].rules[s].version \in Nat /\ rule[s].version \in Nat
      BY <3>1 DEF Row, CalendarInv, Typed, RuleTyped
    <3>3. CASE s = r
      BY <1>4, <1>8, <2>1, <3>1, <3>2, <3>3 DEF Agrees
    <3>4. CASE s # r
      BY <1>8, <2>1, <3>1, <3>4 DEF Agrees
    <3> QED
      BY <3>3, <3>4
  <2> QED
    BY <2>1, <2>2 DEF ReadsTruly, Absences, Matching
<1>19. AuditMatches'
  <2>1. edits'.applied[k] = 1
    BY <1>1, <1>3, <1>11, <1>12 DEF CalendarInv, AuditMatches
  <2> QED
    BY <1>1, <1>5, <1>9, <1>11, <1>12, <2>1 DEF CalendarInv, AuditMatches
<1>20. NoLostEdit'
  BY <1>2, <1>4, <1>8, <1>11, <1>12 DEF CalendarInv, NoLostEdit
<1>21. CalendarAssumption'
  BY DEF CalendarInv
<1> QED
  BY <1>14, <1>15, <1>16, <1>17, <1>18, <1>19, <1>20, <1>21 DEF CalendarInv

-----------------------------------------------------------------------------
(***************************************************************************)
(* A step of one reader: what is left to show is what it has now.          *)
(***************************************************************************)
LEMMA ReaderMoved ==
  ASSUME CalendarInv, NEW d \in Readers, NEW to \in Reading,
         reader' = [reader EXCEPT ![d] = to], UNCHANGED <<rule, audit, request, edits>>,
         to.pc # "idle" => to.rules \in [Rules -> Row],
         ReadsTruly(d)'
  PROVE  CalendarInv'
<1>1. /\ ReaderTyped' /\ \A e \in Readers \ {d} : reader'[e] = reader[e]
  BY DEF CalendarInv, Typed, ReaderTyped
<1>2. Typed'
  BY <1>1 DEF CalendarInv, Typed, RuleTyped, AuditTyped, RequestTyped, EditsTyped
<1>3. ASSUME NEW e \in Readers PROVE ReadsTruly(e)'
  <2>1. CASE e = d
    BY <2>1
  <2>2. CASE e # d
    BY <1>1, <2>2 DEF CalendarInv, ReadsTruly, Agrees, Absences, Matching
  <2> QED
    BY <2>1, <2>2
<1>4. \A k \in AuditKeys : ReservedBy(k)'
  BY DEF CalendarInv, ReservedBy, Works
<1>5. \A q \in Requests : HasReserved(q)' /\ CopyIsCurrent(q)'
  BY DEF CalendarInv, HasReserved, Works, CopyIsCurrent, Exists
<1>6. AuditMatches' /\ NoLostEdit' /\ CalendarAssumption'
  BY DEF CalendarInv, AuditMatches, NoLostEdit
<1> QED
  BY <1>2, <1>3, <1>4, <1>5, <1>6 DEF CalendarInv

LEMMA RulesRead ==
  ASSUME CalendarInv, NEW d \in Readers, ReadRules(d) PROVE CalendarInv'
<1> DEFINE to == [pc |-> "read", rules |-> rule]
<1>1. reader' = [reader EXCEPT ![d] = to] /\ UNCHANGED <<rule, audit, request, edits>>
  BY DEF ReadRules
<1>2. rule \in [Rules -> Row] /\ reader \in [Readers -> Reading]
  BY DEF CalendarInv, Typed, RuleTyped, ReaderTyped
<1>3. to \in Reading /\ to.pc = "read" /\ to.rules = rule
  BY <1>2 DEF Reading
<1> HIDE DEF to
<1>4. reader'[d] = to
  BY <1>1, <1>2
<1>5. ReadsTruly(d)'
  BY <1>1, <1>3, <1>4 DEF ReadsTruly, Agrees
<1> QED
  BY <1>1, <1>2, <1>3, <1>5, ReaderMoved

LEMMA IntervalsRead ==
  ASSUME CalendarInv, NEW d \in Readers, ReadIntervals(d) PROVE CalendarInv'
<1> DEFINE with == [r \in Rules |->
                       [reader[d].rules[r] EXCEPT !.says.hours = rule[r].says.hours]]
           to == [pc |-> "resolve", rules |-> with]
<1>1. /\ rule \in [Rules -> Row] /\ reader \in [Readers -> Reading]
      /\ reader[d].pc = "read" /\ reader[d].rules \in [Rules -> Row]
      /\ ReadsTruly(d)
  BY DEF ReadIntervals, CalendarInv, Typed, RuleTyped, ReaderTyped
<1>2. reader' = [reader EXCEPT ![d] = to] /\ UNCHANGED <<rule, audit, request, edits>>
  BY <1>1 DEF ReadIntervals, Reading
<1>3. ASSUME NEW r \in Rules
      PROVE  /\ with[r] \in Row
             /\ with[r].version = reader[d].rules[r].version
             /\ with[r].active = reader[d].rules[r].active
             /\ with[r].says.kind = reader[d].rules[r].says.kind
             /\ with[r].says.today = reader[d].rules[r].says.today
  <2>1. reader[d].rules[r] \in Row /\ rule[r].says.hours \in BOOLEAN
    BY <1>1 DEF Row, Saying
  <2> QED
    BY <2>1 DEF Row, Saying
<1>4. with \in [Rules -> Row]
  <2>1. \A r \in Rules : with[r] \in Row
    BY <1>3
  <2> QED
    BY <2>1
<1> HIDE DEF with
<1>5. to \in Reading /\ to.pc = "resolve" /\ to.rules = with
  BY <1>4 DEF Reading
<1> HIDE DEF to
<1>6. reader'[d] = to
  BY <1>1, <1>2
<1>7. ASSUME NEW r \in Rules PROVE Agrees(d, r)'
  <2>1. Agrees(d, r)
    BY <1>1 DEF ReadsTruly
  <2> QED
    BY <1>2, <1>3, <1>5, <1>6, <2>1 DEF Agrees
<1>8. ReadsTruly(d)'
  BY <1>5, <1>6, <1>7 DEF ReadsTruly
<1> QED
  BY <1>2, <1>4, <1>5, <1>8, ReaderMoved

(***************************************************************************)
(* The day is taken to be open only where no absence was read.             *)
(***************************************************************************)
LEMMA Resolved ==
  ASSUME CalendarInv, NEW d \in Readers, Resolve(d) PROVE CalendarInv'
<1>1. /\ reader[d] \in Reading /\ reader[d].pc = "resolve"
      /\ reader[d].rules \in [Rules -> Row]
      /\ ReadsTruly(d) /\ reader \in [Readers -> Reading] /\ CalendarAssumption
  BY DEF Resolve, CalendarInv, Typed, ReaderTyped
<1>2. PICK open \in IsOpen(reader[d].rules) :
         reader' = [reader EXCEPT ![d].pc = IF open THEN "open" ELSE "closed"]
  BY DEF Resolve
<1> DEFINE to == [reader[d] EXCEPT !.pc = IF open THEN "open" ELSE "closed"]
<1>3. reader' = [reader EXCEPT ![d] = to] /\ UNCHANGED <<rule, audit, request, edits>>
  BY <1>1, <1>2 DEF Resolve, Reading
<1>4. to \in Reading /\ to.rules = reader[d].rules /\ (to.pc = "open" => open)
  BY <1>1 DEF Reading
<1>5. open => Absences(reader[d].rules) = {}
  BY <1>1, AbsenceDecides
<1> HIDE DEF to
<1>6. reader'[d] = to
  BY <1>1, <1>3
<1>7. \A r \in Rules : Agrees(d, r)'
  BY <1>1, <1>3, <1>4, <1>6 DEF ReadsTruly, Agrees
<1>8. reader'[d].pc = "open" => Absences(reader'[d].rules) = {}
  BY <1>4, <1>5, <1>6
<1>9. ReadsTruly(d)'
  BY <1>7, <1>8 DEF ReadsTruly, Absences, Matching
<1> QED
  BY <1>1, <1>3, <1>4, <1>9, ReaderMoved

LEMMA Used ==
  ASSUME CalendarInv, NEW d \in Readers, Use(d) PROVE CalendarInv'
<1>1. reader' = [reader EXCEPT ![d] = NoReading] /\ UNCHANGED <<rule, audit, request, edits>>
      /\ reader \in [Readers -> Reading]
  BY DEF Use, CalendarInv, Typed, ReaderTyped
<1>2. NoReading \in Reading /\ NoReading.pc = "idle"
  BY DEF NoReading, Reading
<1>3. reader'[d] = NoReading
  BY <1>1
<1>4. ReadsTruly(d)'
  BY <1>2, <1>3 DEF ReadsTruly
<1> QED
  BY <1>1, <1>2, <1>4, ReaderMoved

-----------------------------------------------------------------------------
LEMMA CalendarInit == CalendarAssumption /\ Init => CalendarInv
<1> SUFFICES ASSUME CalendarAssumption, Init PROVE CalendarInv
  OBVIOUS
<1>1. RuleTyped
  <2>1. rule \in [Rules -> [version : {0, 1}, active : BOOLEAN, says : Payloads]]
    BY DEF Init
  <2>2. \A r \in Rules : rule[r] \in Row
    BY <2>1 DEF CalendarAssumption, Row, Saying
  <2> QED
    BY <2>1, <2>2 DEF RuleTyped
<1>2. AuditTyped /\ \A k \in AuditKeys : audit[k].status = "none" /\ audit[k].by = "nobody"
  BY DEF Init, AuditTyped, AuditRow, Free
<1>3. request \in [Requests -> Request] /\ \A q \in Requests : request[q].pc = "idle"
  BY IdleTyped DEF Init
<1>4. EditsTyped
  BY <1>1 DEF Init, EditsTyped, RuleTyped, Row
<1>5. ReaderTyped /\ \A d \in Readers : reader[d].pc = "idle"
  BY DEF Init, ReaderTyped, NoReading, Reading
<1>6. AuditMatches /\ NoLostEdit
  BY <1>2 DEF Init, AuditMatches, NoLostEdit
<1>7. RequestTyped /\ \A q \in Requests : HasReserved(q) /\ CopyIsCurrent(q)
  BY <1>3 DEF RequestTyped, HasReserved, CopyIsCurrent, Works
<1>8. \A k \in AuditKeys : ReservedBy(k)
  BY <1>2 DEF ReservedBy
<1>9. \A d \in Readers : ReadsTruly(d)
  BY <1>5 DEF ReadsTruly
<1> QED
  BY <1>1, <1>2, <1>4, <1>5, <1>6, <1>7, <1>8, <1>9 DEF CalendarInv, Typed

LEMMA CalendarStep == CalendarInv /\ [Next]_vars => CalendarInv'
<1> SUFFICES ASSUME CalendarInv, [Next]_vars PROVE CalendarInv'
  OBVIOUS
<1>1. ASSUME NEW q \in Requests, NEW k \in AuditKeys, NEW f \in Prints, Ask(q, k, f)
      PROVE  CalendarInv'
  BY <1>1, Asked
<1>2. ASSUME NEW q \in Requests, Audit(q) PROVE CalendarInv'
  BY <1>2, Audited
<1>3. ASSUME NEW q \in Requests, NEW r \in Rules, Lock(q, r) PROVE CalendarInv'
  BY <1>3, Locked
<1>4. ASSUME NEW q \in Requests, Conflict(q) PROVE CalendarInv'
  BY <1>4, Conflicted DEF Conflict, Works
<1>5. ASSUME NEW q \in Requests, Commit(q) PROVE CalendarInv'
  BY <1>5, Committed
<1>6. ASSUME NEW q \in Requests, Rollback(q) PROVE CalendarInv'
  BY <1>6, RolledBack
<1>7. ASSUME NEW q \in Requests, RecordFailure(q) PROVE CalendarInv'
  BY <1>7, FailureIsRecorded
<1>8. ASSUME NEW q \in Requests, Crash(q) PROVE CalendarInv'
  BY <1>8, Crashed
<1>9. ASSUME NEW d \in Readers, ReadRules(d) \/ ReadIntervals(d) \/ Resolve(d) \/ Use(d)
      PROVE  CalendarInv'
  BY <1>9, RulesRead, IntervalsRead, Resolved, Used
<1>10. CASE UNCHANGED vars
  <2>1. UNCHANGED rule /\ UNCHANGED audit /\ UNCHANGED request /\ UNCHANGED reader
        /\ UNCHANGED edits
    BY <1>10 DEF vars
  <2>2. Typed'
    BY <2>1 DEF CalendarInv, Typed, RuleTyped, AuditTyped, RequestTyped, EditsTyped, ReaderTyped
  <2>3. \A k \in AuditKeys : ReservedBy(k)'
    BY <2>1 DEF CalendarInv, ReservedBy, Works
  <2>4. \A q \in Requests : HasReserved(q)' /\ CopyIsCurrent(q)'
    BY <2>1 DEF CalendarInv, HasReserved, Works, CopyIsCurrent, Exists
  <2>5. \A d \in Readers : ReadsTruly(d)'
    BY <2>1 DEF CalendarInv, ReadsTruly, Agrees, Absences, Matching
  <2>6. AuditMatches' /\ NoLostEdit' /\ CalendarAssumption'
    BY <2>1 DEF CalendarInv, AuditMatches, NoLostEdit
  <2> QED
    BY <2>2, <2>3, <2>4, <2>5, <2>6 DEF CalendarInv
<1> QED
  BY <1>1, <1>2, <1>3, <1>4, <1>5, <1>6, <1>7, <1>8, <1>9, <1>10 DEF Next

LEMMA CalendarInvariance == ASSUME CalendarAssumption PROVE Spec => []CalendarInv
<1>1. Init => CalendarInv
  BY CalendarInit
<1> QED
  BY <1>1, CalendarStep, PTL DEF Spec

(***************************************************************************)
(* The audit tells the truth: whatever is repeated, overlaps, fails or     *)
(* dies, an edit was applied once where its audit row says that it         *)
(* succeeded, and not at all where the row says anything else              *)
(* (execute_audited_action and its _record_failure).                       *)
(***************************************************************************)
THEOREM AuditIsTrue == ASSUME CalendarAssumption PROVE Spec => []AuditMatches
<1>1. CalendarInv => AuditMatches
  BY DEF CalendarInv
<1> QED
  BY <1>1, CalendarInvariance, PTL

(***************************************************************************)
(* No edit of a rule is lost: each is saved over the version that the one  *)
(* before it left behind (save_rule and deactivate_rule, under the lock of *)
(* the rule).                                                              *)
(***************************************************************************)
THEOREM EditsAreKept == ASSUME CalendarAssumption PROVE Spec => []NoLostEdit
<1>1. CalendarInv => NoLostEdit
  BY DEF CalendarInv
<1> QED
  BY <1>1, CalendarInvariance, PTL

(***************************************************************************)
(* An absence closes the day for every reader that began to read while it  *)
(* was there, whatever the other rules say, whatever their priorities, and *)
(* although the intervals are read after the rules (resolve_day).          *)
(***************************************************************************)
THEOREM AbsencesClose == ASSUME CalendarAssumption PROVE Spec => []AbsenceCloses
<1>1. CalendarInv => AbsenceCloses
  <2> SUFFICES ASSUME CalendarInv, NEW d \in Readers, reader[d].pc = "open",
                      NEW r \in Absences(rule)
               PROVE  rule[r].version > reader[d].rules[r].version
    BY DEF AbsenceCloses
  <2>1. r \in Rules /\ rule[r].active /\ rule[r].says.today /\ rule[r].says.kind = "absence"
    BY DEF Absences, Matching
  <2>2. Agrees(d, r) /\ Absences(reader[d].rules) = {}
    BY <2>1 DEF CalendarInv, ReadsTruly
  <2>3. r \notin Absences(reader[d].rules)
    BY <2>2
  <2> QED
    BY <2>1, <2>2, <2>3 DEF Agrees, Absences, Matching
<1> QED
  BY <1>1, CalendarInvariance, PTL
=============================================================================
