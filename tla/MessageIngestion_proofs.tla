----------------------- MODULE MessageIngestion_proofs -----------------------
(***************************************************************************)
(* The safety of ingestion for any set of messages, any lookback and any   *)
(* number of hydrations and reconcilers, although two reconcilers may walk *)
(* one thread at once.                                                     *)
(***************************************************************************)
EXTENDS MessageIngestion, TLAPS

(***************************************************************************)
(* The inductive invariant, in two parts: the rows, and the walk of each   *)
(* reconciler.  A reconciler whose claim was released or taken over still  *)
(* advances the cursor, so what it has listed must be enough by itself: of *)
(* the messages that a later one would hide behind the lookback, those it  *)
(* no longer has before it are settled.                                    *)
(***************************************************************************)
RowsInv ==
    /\ row \in [Messages -> Settled \cup {"none", "received", "error"}]
    /\ outbox \in [Messages -> Nat]
    /\ ReadyHasOutbox

WalkTyped ==
    /\ listed \subseteq Messages
    /\ cursor \in [last : Messages \cup {0}, lock : {"none", "fresh", "stale"}]
    /\ cursor.last \in listed \cup {0}
    /\ reconciler \in [Reconcilers -> [pc : {"idle", "claimed", "open", "listed", "ingested"},
                                       todo : SUBSET Messages, cutoff : Int]]

Hidden(r) == \A m \in reconciler[r].todo, n \in listed \ reconciler[r].todo :
    n < m - Lookback => IsSettled(n)

Walking(r) ==
    /\ reconciler[r].todo \subseteq listed
    /\ reconciler[r].pc # "idle" => reconciler[r].cutoff <= cursor.last - Lookback
    /\ reconciler[r].pc \in {"listed", "ingested"} => Hidden(r)
    /\ reconciler[r].pc = "ingested" =>
          \A m \in reconciler[r].todo : Oldest(r, m) => IsSettled(m)

WalkInv ==
    /\ WalkTyped
    /\ CursorPassesNothing
    /\ \A r \in Reconcilers : Walking(r)

IngestionInv == RowsInv /\ WalkInv

(***************************************************************************)
(* What a transaction does to the rows: it keeps each settled one.         *)
(***************************************************************************)
Keeps == \A n \in Messages : IsSettled(n) => row'[n] = row[n]

LEMMA MessagesAreNat == Lookback \in Nat /\ \A m \in Messages : m \in Nat /\ m > 0
  BY IngestionAssumption DEF Messages

LEMMA LastIsNat == ASSUME IngestionInv PROVE cursor.last \in Nat
<1>1. cursor.last \in Messages \cup {0}
  BY DEF IngestionInv, WalkInv, WalkTyped
<1> QED
  BY <1>1, MessagesAreNat

LEMMA IngestKeeps ==
  ASSUME RowsInv, NEW m, Ingest(m)
  PROVE  RowsInv' /\ Keeps /\ (m \in Messages => IsSettled(m)')
<1>1. CASE IsSettled(m)
  BY <1>1 DEF Ingest, RowsInv, ReadyHasOutbox, Keeps, IsSettled
<1>2. CASE ~IsSettled(m)
  <2>1. row' = [row EXCEPT ![m] = IF m \in Customer THEN "ready" ELSE "ignored"]
        /\ outbox' = IF m \in Customer /\ outbox[m] = 0
                     THEN [outbox EXCEPT ![m] = 1] ELSE outbox
    BY <1>2 DEF Ingest
  <2>2. m \in Messages => row[m] # "ready" /\ outbox[m] = 0
    BY <1>2 DEF RowsInv, ReadyHasOutbox, IsSettled, Settled
  <2>3. row' \in [Messages -> Settled \cup {"none", "received", "error"}]
        /\ outbox' \in [Messages -> Nat]
    BY <2>1 DEF RowsInv, Settled
  <2>4. m \in Messages => row'[m] = (IF m \in Customer THEN "ready" ELSE "ignored")
                         /\ outbox'[m] = (IF m \in Customer THEN 1 ELSE 0)
    BY <2>1, <2>2 DEF RowsInv
  <2>5. \A n \in Messages \ {m} : row'[n] = row[n] /\ outbox'[n] = outbox[n]
    BY <2>1 DEF RowsInv
  <2>6. ReadyHasOutbox'
    BY <2>4, <2>5 DEF RowsInv, ReadyHasOutbox
  <2>7. Keeps /\ (m \in Messages => IsSettled(m)')
    BY <1>2, <2>4, <2>5 DEF Keeps, IsSettled, Settled
  <2> QED
    BY <2>3, <2>6, <2>7 DEF RowsInv
<1> QED
  BY <1>1, <1>2

LEMMA EnvelopeKeeps ==
  ASSUME RowsInv, NEW m \in Messages, row' = Enveloped(m), outbox' = outbox
  PROVE  RowsInv' /\ Keeps
<1>1. row' \in [Messages -> Settled \cup {"none", "received", "error"}]
  BY DEF RowsInv, Enveloped
<1>2. \A n \in Messages : row'[n] = row[n] \/ (row[n] = "none" /\ row'[n] = "received")
  BY DEF RowsInv, Enveloped
<1> QED
  BY <1>1, <1>2 DEF RowsInv, ReadyHasOutbox, Keeps, IsSettled, Settled

LEMMA ErrorKeeps ==
  ASSUME RowsInv, NEW m, row' = ErrorRecorded(m), outbox' = outbox
  PROVE  RowsInv' /\ Keeps
<1>1. row' \in [Messages -> Settled \cup {"none", "received", "error"}]
  BY DEF RowsInv, ErrorRecorded
<1>2. \A n \in Messages : row'[n] = row[n] \/ (~IsSettled(n) /\ row'[n] = "error")
  BY DEF RowsInv, ErrorRecorded
<1> QED
  BY <1>1, <1>2 DEF RowsInv, ReadyHasOutbox, Keeps, IsSettled, Settled

(***************************************************************************)
(* Steps that change the rows alone.                                       *)
(***************************************************************************)
LEMMA RowsChanged ==
  ASSUME IngestionInv, RowsInv', Keeps, UNCHANGED <<listed, cursor, reconciler>>
  PROVE  IngestionInv'
<1>1. \A n \in listed : IsSettled(n) => IsSettled(n)'
  BY DEF IngestionInv, WalkInv, WalkTyped, Keeps, IsSettled
<1>2. WalkTyped' /\ CursorPassesNothing'
  BY <1>1 DEF IngestionInv, WalkInv, WalkTyped, CursorPassesNothing
<1>3. ASSUME NEW r \in Reconcilers PROVE Walking(r)'
  BY <1>1 DEF IngestionInv, WalkInv, Walking, Hidden, Oldest
<1> QED
  BY <1>2, <1>3 DEF IngestionInv, WalkInv

(***************************************************************************)
(* A message appears late by the lookback at most: the cursor has not      *)
(* passed it, and no reconciler can hide it.                               *)
(***************************************************************************)
LEMMA Appeared ==
  ASSUME IngestionInv, NEW m \in Messages, Appear(m) PROVE IngestionInv' /\ Keeps
<1>1. listed' = listed \cup {m} /\ UNCHANGED <<row, outbox, cursor, reconciler>>
      /\ (\A n \in listed : n - m <= Lookback)
  BY DEF Appear
<1>2. m \in Nat /\ m > 0 /\ Lookback \in Nat /\ \A n \in listed : n \in Nat
  BY MessagesAreNat DEF IngestionInv, WalkInv, WalkTyped
<1>3. RowsInv' /\ Keeps
  BY <1>1 DEF IngestionInv, RowsInv, ReadyHasOutbox, Keeps
<1>4. WalkTyped'
  BY <1>1 DEF IngestionInv, WalkInv, WalkTyped
<1>5. ~(m < cursor.last - Lookback)
  <2>1. CASE cursor.last = 0
    BY <1>2, <2>1
  <2>2. CASE cursor.last \in listed
    <3>1. cursor.last - m <= Lookback /\ cursor.last \in Nat
      BY <1>1, <1>2, <2>2
    <3> QED
      BY <1>2, <3>1
  <2> QED
    BY <2>1, <2>2 DEF IngestionInv, WalkInv, WalkTyped
<1>6. CursorPassesNothing'
  BY <1>1, <1>5 DEF IngestionInv, WalkInv, CursorPassesNothing, IsSettled
<1>7. ASSUME NEW r \in Reconcilers PROVE Walking(r)'
  <2>1. reconciler[r].todo \subseteq listed
    BY DEF IngestionInv, WalkInv, Walking
  <2>2. \A t \in reconciler[r].todo : ~(m < t - Lookback)
    <3> TAKE t \in reconciler[r].todo
    <3>1. t - m <= Lookback /\ t \in Nat
      BY <1>1, <1>2, <2>1
    <3> QED
      BY <1>2, <3>1
  <2>3. Hidden(r) => Hidden(r)'
    BY <1>1, <2>2 DEF Hidden, IsSettled
  <2> QED
    BY <1>1, <2>1, <2>3 DEF IngestionInv, WalkInv, Walking, Oldest, IsSettled
<1> QED
  BY <1>3, <1>4, <1>6, <1>7 DEF IngestionInv, WalkInv

(***************************************************************************)
(* One reconciler moves, and the last message of the cursor stays.         *)
(***************************************************************************)
LEMMA ReconcilerMoved ==
  ASSUME IngestionInv, NEW r \in Reconcilers,
         NEW to \in [pc : {"idle", "claimed", "open", "listed", "ingested"},
                     todo : SUBSET Messages, cutoff : Int],
         reconciler' = [reconciler EXCEPT ![r] = to],
         cursor' \in [last : Messages \cup {0}, lock : {"none", "fresh", "stale"}],
         cursor'.last = cursor.last, listed' = listed, RowsInv', Keeps, Walking(r)'
  PROVE  IngestionInv'
<1>1. reconciler' \in [Reconcilers -> [pc : {"idle", "claimed", "open", "listed", "ingested"},
                                       todo : SUBSET Messages, cutoff : Int]]
      /\ \A s \in Reconcilers \ {r} : reconciler'[s] = reconciler[s]
  BY DEF IngestionInv, WalkInv, WalkTyped
<1>2. \A n \in listed : IsSettled(n) => IsSettled(n)'
  BY DEF IngestionInv, WalkInv, WalkTyped, Keeps, IsSettled
<1>3. WalkTyped' /\ CursorPassesNothing'
  BY <1>1, <1>2 DEF IngestionInv, WalkInv, WalkTyped, CursorPassesNothing
<1>4. ASSUME NEW s \in Reconcilers \ {r} PROVE Walking(s)'
  <2>1. reconciler'[s] = reconciler[s] /\ Walking(s)
    BY <1>1, <1>4 DEF IngestionInv, WalkInv
  <2> QED
    BY <1>2, <2>1 DEF Walking, Hidden, Oldest
<1> QED
  BY <1>3, <1>4 DEF IngestionInv, WalkInv

LEMMA Gone ==
  ASSUME IngestionInv, NEW r \in Reconcilers,
         reconciler' = [reconciler EXCEPT ![r] = IdleReconciler],
         cursor' = cursor \/ cursor' = [cursor EXCEPT !.lock = "none"],
         UNCHANGED <<listed, row, outbox>>
  PROVE  IngestionInv' /\ Keeps
<1>1. IdleReconciler \in [pc : {"idle", "claimed", "open", "listed", "ingested"},
                          todo : SUBSET Messages, cutoff : Int]
  BY DEF IdleReconciler
<1>2. cursor' \in [last : Messages \cup {0}, lock : {"none", "fresh", "stale"}]
      /\ cursor'.last = cursor.last
  BY DEF IngestionInv, WalkInv, WalkTyped
<1>3. reconciler'[r] = IdleReconciler
  BY DEF IngestionInv, WalkInv, WalkTyped
<1>4. Walking(r)'
  BY <1>3 DEF Walking, IdleReconciler
<1>5. RowsInv' /\ Keeps
  BY DEF IngestionInv, RowsInv, ReadyHasOutbox, Keeps
<1> QED
  BY <1>1, <1>2, <1>4, <1>5, ReconcilerMoved

LEMMA Claimed ==
  ASSUME IngestionInv, NEW r \in Reconcilers, Claim(r) PROVE IngestionInv' /\ Keeps
<1> DEFINE to == [pc |-> "claimed", todo |-> {}, cutoff |-> cursor.last - Lookback]
<1>1. reconciler' = [reconciler EXCEPT ![r] = to] /\ cursor' = [cursor EXCEPT !.lock = "fresh"]
      /\ UNCHANGED <<listed, row, outbox>>
  BY DEF Claim, ReconcilerStep
<1>2. cursor.last \in Nat /\ Lookback \in Nat
  BY LastIsNat, MessagesAreNat
<1>3. to \in [pc : {"idle", "claimed", "open", "listed", "ingested"},
              todo : SUBSET Messages, cutoff : Int]
  BY <1>2
<1>4. cursor' \in [last : Messages \cup {0}, lock : {"none", "fresh", "stale"}]
      /\ cursor'.last = cursor.last
  BY <1>1 DEF IngestionInv, WalkInv, WalkTyped
<1>5. reconciler'[r] = to
  BY <1>1 DEF IngestionInv, WalkInv, WalkTyped
<1>6. Walking(r)'
  BY <1>2, <1>4, <1>5 DEF Walking
<1>7. RowsInv' /\ Keeps
  BY <1>1 DEF IngestionInv, RowsInv, ReadyHasOutbox, Keeps
<1> QED
  BY <1>1, <1>3, <1>4, <1>6, <1>7, ReconcilerMoved

(***************************************************************************)
(* A thread that is open changes no more than where the reconciler is.     *)
(***************************************************************************)
LEMMA OpenSeen ==
  ASSUME IngestionInv, NEW r \in Reconcilers, SeeOpen(r) PROVE IngestionInv' /\ Keeps
<1> DEFINE to == [reconciler[r] EXCEPT !.pc = "open"]
<1>1. reconciler' = [reconciler EXCEPT ![r] = to] /\ reconciler[r].pc = "claimed"
      /\ UNCHANGED <<listed, row, outbox, cursor>>
  BY DEF SeeOpen, ReconcilerStep
<1>2. reconciler[r] \in [pc : {"idle", "claimed", "open", "listed", "ingested"},
                         todo : SUBSET Messages, cutoff : Int]
  BY DEF IngestionInv, WalkInv, WalkTyped
<1>3. to \in [pc : {"idle", "claimed", "open", "listed", "ingested"},
              todo : SUBSET Messages, cutoff : Int]
      /\ to.pc = "open" /\ to.todo = reconciler[r].todo
      /\ to.cutoff = reconciler[r].cutoff
  BY <1>2
<1>4. reconciler'[r] = to
  BY <1>1 DEF IngestionInv, WalkInv, WalkTyped
<1> HIDE DEF to
<1>5. Walking(r)'
  BY <1>1, <1>3, <1>4 DEF IngestionInv, WalkInv, Walking
<1>6. RowsInv' /\ Keeps
  BY <1>1 DEF IngestionInv, RowsInv, ReadyHasOutbox, Keeps
<1>7. cursor' \in [last : Messages \cup {0}, lock : {"none", "fresh", "stale"}]
  BY <1>1 DEF IngestionInv, WalkInv, WalkTyped
<1> QED
  BY <1>1, <1>3, <1>5, <1>6, <1>7, ReconcilerMoved

(***************************************************************************)
(* What List leaves out is older than the cutoff, and so the cursor had    *)
(* passed it.                                                              *)
(***************************************************************************)
LEMMA Listed ==
  ASSUME IngestionInv, NEW r \in Reconcilers, List(r) PROVE IngestionInv' /\ Keeps
<1> DEFINE to == [reconciler[r] EXCEPT !.pc = "listed", !.todo = listed \ Skipped(r)]
<1>1. reconciler' = [reconciler EXCEPT ![r] = to] /\ reconciler[r].pc = "open"
      /\ UNCHANGED <<listed, row, outbox, cursor>>
  BY DEF List, ReconcilerStep
<1>2. reconciler[r] \in [pc : {"idle", "claimed", "open", "listed", "ingested"},
                         todo : SUBSET Messages, cutoff : Int]
      /\ listed \subseteq Messages
  BY DEF IngestionInv, WalkInv, WalkTyped
<1>3. to \in [pc : {"idle", "claimed", "open", "listed", "ingested"},
              todo : SUBSET Messages, cutoff : Int]
      /\ to.pc = "listed" /\ to.todo = listed \ Skipped(r)
      /\ to.cutoff = reconciler[r].cutoff
  BY <1>2
<1>4. reconciler'[r] = to
  BY <1>1 DEF IngestionInv, WalkInv, WalkTyped
<1>5. reconciler[r].cutoff <= cursor.last - Lookback
  BY <1>1 DEF IngestionInv, WalkInv, Walking
<1>6. \A n \in Skipped(r) : n < cursor.last - Lookback
  <2> TAKE n \in Skipped(r)
  <2>1. n \in Messages /\ n < reconciler[r].cutoff /\ reconciler[r].cutoff \in Int
    BY <1>2 DEF Skipped
  <2>2. n \in Nat /\ cursor.last \in Nat /\ Lookback \in Nat
    BY <2>1, LastIsNat, MessagesAreNat
  <2> QED
    BY <1>5, <2>1, <2>2
<1>7. \A n \in Skipped(r) : n \in listed /\ IsSettled(n)
  BY <1>6 DEF IngestionInv, WalkInv, CursorPassesNothing, Skipped
<1> HIDE DEF to
<1>8. Hidden(r)'
  BY <1>1, <1>3, <1>4, <1>7 DEF Hidden, IsSettled
<1>9. Walking(r)'
  BY <1>1, <1>3, <1>4, <1>5, <1>8 DEF Walking
<1>10. RowsInv' /\ Keeps
  BY <1>1 DEF IngestionInv, RowsInv, ReadyHasOutbox, Keeps
<1>11. cursor' \in [last : Messages \cup {0}, lock : {"none", "fresh", "stale"}]
  BY <1>1 DEF IngestionInv, WalkInv, WalkTyped
<1> QED
  BY <1>1, <1>3, <1>9, <1>10, <1>11, ReconcilerMoved

LEMMA NextIngested ==
  ASSUME IngestionInv, NEW r \in Reconcilers, IngestNext(r) PROVE IngestionInv' /\ Keeps
<1> DEFINE to == [reconciler[r] EXCEPT !.pc = "ingested"]
<1>1. PICK m \in reconciler[r].todo : Oldest(r, m) /\ Ingest(m)
  BY DEF IngestNext
<1>2. reconciler' = [reconciler EXCEPT ![r] = to] /\ reconciler[r].pc = "listed"
      /\ UNCHANGED <<listed, cursor>>
  BY DEF IngestNext, ReconcilerStep
<1>3. reconciler[r] \in [pc : {"idle", "claimed", "open", "listed", "ingested"},
                         todo : SUBSET Messages, cutoff : Int]
  BY DEF IngestionInv, WalkInv, WalkTyped
<1>4. to \in [pc : {"idle", "claimed", "open", "listed", "ingested"},
              todo : SUBSET Messages, cutoff : Int]
      /\ to.pc = "ingested" /\ to.todo = reconciler[r].todo
      /\ to.cutoff = reconciler[r].cutoff
  BY <1>3
<1>5. reconciler'[r] = to
  BY <1>2 DEF IngestionInv, WalkInv, WalkTyped
<1>6. RowsInv' /\ Keeps /\ IsSettled(m)'
  BY <1>1, <1>3, IngestKeeps DEF IngestionInv
<1>7. \A n \in reconciler[r].todo : Oldest(r, n) => n = m
  <2> TAKE n \in reconciler[r].todo
  <2>1. m \in Nat /\ n \in Nat
    <3>1. m \in Messages /\ n \in Messages
      BY <1>3
    <3> QED
      BY <3>1, MessagesAreNat
  <2>2. Oldest(r, n) => m <= n /\ n <= m
    BY <1>1 DEF Oldest
  <2> QED
    BY <2>1, <2>2
<1>8. \A n \in listed : IsSettled(n) => IsSettled(n)'
  BY <1>6 DEF IngestionInv, WalkInv, WalkTyped, Keeps, IsSettled
<1> HIDE DEF to
<1>9. Hidden(r)'
  BY <1>2, <1>4, <1>5, <1>8 DEF IngestionInv, WalkInv, Walking, Hidden
<1>10. \A n : Oldest(r, n)' => Oldest(r, n)
  BY <1>4, <1>5 DEF Oldest
<1>11. Walking(r)'
  BY <1>2, <1>4, <1>5, <1>6, <1>7, <1>9, <1>10 DEF IngestionInv, WalkInv, Walking
<1>12. cursor' \in [last : Messages \cup {0}, lock : {"none", "fresh", "stale"}]
  BY <1>2 DEF IngestionInv, WalkInv, WalkTyped
<1> QED
  BY <1>2, <1>4, <1>6, <1>11, <1>12, ReconcilerMoved

(***************************************************************************)
(* The cursor advances to the oldest message of a reconciler's list, which *)
(* it has ingested: what is older by more than the lookback is not on the  *)
(* list any more, and settled.                                             *)
(***************************************************************************)
LEMMA CursorAdvanced ==
  ASSUME IngestionInv, NEW r \in Reconcilers, Advance(r) PROVE IngestionInv' /\ Keeps
<1> DEFINE Rec == [pc : {"idle", "claimed", "open", "listed", "ingested"},
                   todo : SUBSET Messages, cutoff : Int]
<1>1. PICK m \in reconciler[r].todo :
        /\ Oldest(r, m) /\ reconciler[r].pc = "ingested"
        /\ reconciler' = [reconciler EXCEPT ![r] =
              [reconciler[r] EXCEPT !.pc = "listed", !.todo = reconciler[r].todo \ {m}]]
        /\ cursor' = [last |-> Advanced(m), lock |-> "none"]
        /\ UNCHANGED <<listed, row, outbox>>
  BY DEF Advance, ReconcilerStep
<1> DEFINE to == [reconciler[r] EXCEPT !.pc = "listed", !.todo = reconciler[r].todo \ {m}]
<1>2. reconciler \in [Reconcilers -> Rec] /\ listed \subseteq Messages
      /\ reconciler[r].todo \subseteq listed
      /\ cursor.last \in Messages \cup {0} /\ cursor.last \in listed \cup {0}
  BY DEF IngestionInv, WalkInv, WalkTyped, Walking
<1>3. m \in listed /\ m \in Nat /\ cursor.last \in Nat /\ Lookback \in Nat
      /\ \A n \in listed : n \in Nat
  BY <1>1, <1>2, LastIsNat, MessagesAreNat
<1>4. Advanced(m) \in {m, cursor.last} /\ Advanced(m) >= cursor.last
  BY <1>3 DEF Advanced
<1>5. to \in Rec /\ to.pc = "listed" /\ to.todo = reconciler[r].todo \ {m}
      /\ to.cutoff = reconciler[r].cutoff
  BY <1>2
<1>6. reconciler'[r] = to /\ \A s \in Reconcilers \ {r} : reconciler'[s] = reconciler[s]
  BY <1>1, <1>2
<1>7. WalkTyped'
  BY <1>1, <1>2, <1>3, <1>4, <1>5 DEF WalkTyped
<1>8. RowsInv' /\ Keeps
  BY <1>1 DEF IngestionInv, RowsInv, ReadyHasOutbox, Keeps
<1>9. IsSettled(m) /\ Hidden(r)
  BY <1>1 DEF IngestionInv, WalkInv, Walking
<1>10. \A n \in listed : n < m - Lookback => IsSettled(n)
  <2> TAKE n \in listed
  <2>1. n \in reconciler[r].todo => ~(n < m - Lookback)
    BY <1>1, <1>3 DEF Oldest
  <2> QED
    BY <1>1, <1>9, <2>1 DEF Hidden
<1>11. CursorPassesNothing'
  BY <1>1, <1>4, <1>10 DEF IngestionInv, WalkInv, CursorPassesNothing, IsSettled
<1>12. cursor'.last >= cursor.last /\ cursor'.last \in Nat
  BY <1>1, <1>3, <1>4
<1> HIDE DEF to
<1>13. ASSUME NEW s \in Reconcilers \ {r} PROVE Walking(s)'
  <2>1. reconciler'[s] = reconciler[s] /\ Walking(s) /\ reconciler[s].cutoff \in Int
    BY <1>2, <1>6, <1>13 DEF IngestionInv, WalkInv
  <2>2. reconciler[s].cutoff <= cursor.last - Lookback
          => reconciler[s].cutoff <= cursor'.last - Lookback
    BY <1>3, <1>12, <2>1
  <2> QED
    BY <1>1, <2>1, <2>2 DEF Walking, Hidden, Oldest, IsSettled
<1>14. Walking(r)'
  <2>1. reconciler[r].cutoff <= cursor.last - Lookback /\ reconciler[r].cutoff \in Int
    BY <1>1, <1>2 DEF IngestionInv, WalkInv, Walking
  <2>2. reconciler[r].cutoff <= cursor'.last - Lookback
    BY <1>3, <1>12, <2>1
  <2>3. Hidden(r)'
    BY <1>1, <1>5, <1>6, <1>9 DEF Hidden, IsSettled
  <2> QED
    BY <1>1, <1>2, <1>5, <1>6, <2>2, <2>3 DEF Walking
<1> QED
  BY <1>7, <1>8, <1>11, <1>13, <1>14 DEF IngestionInv, WalkInv

(***************************************************************************)
(* The step lemma, and the initial states.                                 *)
(***************************************************************************)
LEMMA IngestionInitially == Init => IngestionInv
  BY DEF Init, IngestionInv, RowsInv, WalkInv, WalkTyped, ReadyHasOutbox,
         CursorPassesNothing, Walking, IdleReconciler

LEMMA RowsStep ==
  ASSUME IngestionInv, UNCHANGED <<listed, cursor, reconciler>>,
         \/ \E m \in listed : row' = Enveloped(m) /\ outbox' = outbox
         \/ \E m : Ingest(m)
         \/ \E m : row' = ErrorRecorded(m) /\ outbox' = outbox
         \/ UNCHANGED <<row, outbox>>
  PROVE  IngestionInv' /\ Keeps
<1>1. RowsInv /\ listed \subseteq Messages
  BY DEF IngestionInv, WalkInv, WalkTyped
<1>2. CASE UNCHANGED <<row, outbox>>
  BY <1>1, <1>2, RowsChanged DEF RowsInv, ReadyHasOutbox, Keeps
<1>3. ASSUME NEW m \in listed, row' = Enveloped(m), outbox' = outbox
      PROVE  IngestionInv' /\ Keeps
  BY <1>1, <1>3, EnvelopeKeeps, RowsChanged
<1>4. ASSUME NEW m, Ingest(m) PROVE IngestionInv' /\ Keeps
  BY <1>1, <1>4, IngestKeeps, RowsChanged
<1>5. ASSUME NEW m, row' = ErrorRecorded(m), outbox' = outbox
      PROVE  IngestionInv' /\ Keeps
  BY <1>1, <1>5, ErrorKeeps, RowsChanged
<1> QED
  BY <1>2, <1>3, <1>4, <1>5

LEMMA HydrationStep ==
  ASSUME IngestionInv, NEW k \in Hydrations,
         Hydrate(k) \/ HydrateFail(k) \/ HydrateLost(k)
  PROVE  IngestionInv' /\ Keeps
<1>1. UNCHANGED <<listed, cursor, reconciler>>
  BY DEF Hydrate, HydrateStart, HydrateIngest, HydrateFail, HydrateLost
<1>2. \/ \E m : Ingest(m)
      \/ \E m : row' = ErrorRecorded(m) /\ outbox' = outbox
      \/ UNCHANGED <<row, outbox>>
  BY DEF Hydrate, HydrateStart, HydrateIngest, HydrateFail, HydrateLost
<1> QED
  BY <1>1, <1>2, RowsStep

LEMMA MessageStep ==
  ASSUME IngestionInv, NEW m \in Messages,
         WebhookUndispatched(m) \/ \E k \in Hydrations : Webhook(m, k)
  PROVE  IngestionInv' /\ Keeps
<1>1. /\ UNCHANGED <<listed, cursor, reconciler, outbox>>
      /\ m \in listed /\ row' = Enveloped(m)
  BY DEF WebhookUndispatched, Webhook
<1> QED
  BY <1>1, RowsStep

LEMMA ReconcilerStepKeeps ==
  ASSUME IngestionInv, NEW r \in Reconcilers,
         Claim(r) \/ Reconcile(r) \/ Fail(r) \/ Die(r)
  PROVE  IngestionInv' /\ Keeps
<1>1. CASE Finish(r) \/ SkipShut(r) \/ Fail(r) \/ Die(r)
  BY <1>1, Gone DEF Finish, SkipShut, Fail, Die, ReconcilerStep
<1>2. CASE Claim(r)
  BY <1>2, Claimed
<1>3. CASE List(r)
  BY <1>3, Listed
<1>4. CASE IngestNext(r)
  BY <1>4, NextIngested
<1>5. CASE Advance(r)
  BY <1>5, CursorAdvanced
<1>6. CASE SeeOpen(r)
  BY <1>6, OpenSeen
<1> QED
  BY <1>1, <1>2, <1>3, <1>4, <1>5, <1>6 DEF Reconcile

LEMMA Expired == ASSUME IngestionInv, Expire PROVE IngestionInv' /\ Keeps
<1>1. cursor' = [cursor EXCEPT !.lock = "stale"] /\ UNCHANGED <<listed, row, outbox, reconciler>>
  BY DEF Expire
<1>2. cursor' \in [last : Messages \cup {0}, lock : {"none", "fresh", "stale"}]
      /\ cursor'.last = cursor.last
  BY <1>1 DEF IngestionInv, WalkInv, WalkTyped
<1>3. RowsInv' /\ Keeps
  BY <1>1 DEF IngestionInv, RowsInv, ReadyHasOutbox, Keeps
<1>4. WalkTyped' /\ CursorPassesNothing'
  BY <1>1, <1>2 DEF IngestionInv, WalkInv, WalkTyped, CursorPassesNothing, IsSettled
<1>5. ASSUME NEW r \in Reconcilers PROVE Walking(r)'
  BY <1>1, <1>2 DEF IngestionInv, WalkInv, Walking, Hidden, Oldest, IsSettled
<1> QED
  BY <1>3, <1>4, <1>5 DEF IngestionInv, WalkInv

LEMMA IngestionStep == IngestionInv /\ [Next]_vars => IngestionInv' /\ Keeps
<1> SUFFICES ASSUME IngestionInv, [Next]_vars PROVE IngestionInv' /\ Keeps
  OBVIOUS
<1>1. ASSUME NEW m \in Messages,
             Appear(m) \/ WebhookUndispatched(m) \/ \E k \in Hydrations : Webhook(m, k)
      PROVE  IngestionInv' /\ Keeps
  BY <1>1, Appeared, MessageStep
<1>2. ASSUME NEW k \in Hydrations, Hydrate(k) \/ HydrateFail(k) \/ HydrateLost(k)
      PROVE  IngestionInv' /\ Keeps
  BY <1>2, HydrationStep
<1>3. ASSUME NEW r \in Reconcilers, Claim(r) \/ Reconcile(r) \/ Fail(r) \/ Die(r)
      PROVE  IngestionInv' /\ Keeps
  BY <1>3, ReconcilerStepKeeps
<1>4. CASE Expire
  BY <1>4, Expired
<1>5. CASE UNCHANGED vars \/ Turn
  BY <1>5, RowsStep DEF vars, Turn
<1> QED
  BY <1>1, <1>2, <1>3, <1>4, <1>5 DEF Next

LEMMA IngestionInvariant == Spec => []IngestionInv
  BY IngestionInitially, IngestionStep, PTL DEF Spec

(***************************************************************************)
(* Ledger and outbox agree: a message is ready exactly when it has its one *)
(* outbox row, whoever ingested it and however often.                      *)
(***************************************************************************)
THEOREM IngestedOnce == Spec => []ReadyHasOutbox
<1>1. IngestionInv => ReadyHasOutbox
  BY DEF IngestionInv, RowsInv
<1> QED
  BY <1>1, IngestionInvariant, PTL

(***************************************************************************)
(* The cursor never passes an unsettled message, for any lookback that     *)
(* covers how late HubSpot may show a message.                             *)
(***************************************************************************)
THEOREM NothingIsPassed == Spec => []CursorPassesNothing
<1>1. IngestionInv => CursorPassesNothing
  BY DEF IngestionInv, WalkInv
<1> QED
  BY <1>1, IngestionInvariant, PTL

(***************************************************************************)
(* A settled message stays as it is: no late error and no second           *)
(* ingestion changes its row.                                              *)
(***************************************************************************)
THEOREM SettledForGood == Spec => SettledStays
<1>1. IngestionInv /\ [Next]_vars =>
        [\A m \in Messages : IsSettled(m) => row'[m] = row[m]]_vars
  BY IngestionStep DEF Keeps
<1> QED
  BY <1>1, IngestionInvariant, PTL DEF Spec, SettledStays
=============================================================================
