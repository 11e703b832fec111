-------------------------- MODULE AgentTurns_proofs --------------------------
(***************************************************************************)
(* Nobody is passed over for long, for any number of agents, drains and    *)
(* attempts left to the repair, and whatever the bounds: BoundedBypass is  *)
(* an invariant.                                                           *)
(*                                                                         *)
(* What the drains may still log before the agent a has its turn is a set  *)
(* of pairs of a drain and an agent: each drain may give one ticket to     *)
(* each agent ahead of a, one to each that an old ranking prefers to a,    *)
(* and one more while the newest log names a, the drain ranked without a   *)
(* or has reserved already.  An assignment of another agent that a drain   *)
(* logs uses one pair up; a reservation exchanges one for another.  Only a *)
(* log of a itself adds pairs: one for each drain at most.                 *)
(***************************************************************************)
EXTENDS AgentTurns, FiniteSetTheorems, WellFoundedInduction, TLAPS

Tasks == Cardinality(Drains)

(* The order of candidates, while the numbers of chats play no role in it.  *)
Earlier(b, a) == last[b] < last[a] \/ (last[b] = last[a] /\ b < a)

Preferred(d, a) ==
    {b \in DOMAIN turn[d].place \ {a} :
        a \in DOMAIN turn[d].place /\ turn[d].place[b] <= turn[d].place[a]}

Loose(d, a) ==
    \/ turn[d].pc = "idle" /\ log = a
    \/ turn[d].pc = "ranked" /\ a \notin DOMAIN turn[d].place
    \/ turn[d].pc = "given"

(* What drain d may still log of the agent b, or of anyone where b is a.    *)
MayLog(d, b, a) ==
    \/ Earlier(b, a)
    \/ turn[d].pc = "ranked" /\ b \in Preferred(d, a)
    \/ b = a /\ Loose(d, a)

Left(a) == {p \in Drains \X Team : MayLog(p[1], p[2], a)}

(***************************************************************************)
(* The inductive invariant.                                                *)
(***************************************************************************)
TurnTyped(d) ==
    \/ turn[d] = Idle
    \/ \E S \in SUBSET Team : \E place \in [S -> Nat] : turn[d] = Turn("ranked", place, NoOne)
    \/ \E a \in Team : last[a] # 0 /\ turn[d] = Turn("given", <<>>, a)

TurnsTyped ==
    /\ able \in [Team -> BOOLEAN] /\ chats \in [Team -> Int]
    /\ last \in [Team -> Nat] /\ reserved \in Nat
    /\ left \in [Ways -> [Team -> Nat]]
    /\ passed \in [Team -> Nat] /\ logged \in [Team -> Nat]
    /\ DOMAIN turn = Drains /\ \A d \in Drains : TurnTyped(d)

(* Reservations are numbered, and who never had one has no chats and no     *)
(* attempts.                                                                *)
Numbered ==
    /\ \A a \in Team : last[a] <= reserved /\ (last[a] = 0 => chats[a] = 0)
    /\ \A a, b \in Team : last[a] = last[b] /\ last[a] # 0 => a = b
    /\ \A w \in Ways, a \in Team : left[w][a] > 0 => last[a] # 0

Quota(a) == Tasks * N + Tasks * logged[a]

Bounded(a) ==
    IF Eligible(a) THEN passed[a] + Cardinality(Left(a)) <= Quota(a) ELSE passed[a] = 0

TurnsInv == TurnsTyped /\ Numbered /\ \A a \in Team : Bounded(a)

-----------------------------------------------------------------------------
(***************************************************************************)
(* Sizes.                                                                  *)
(***************************************************************************)
LEMMA Sizes ==
  ASSUME TurnsAssumption
  PROVE  /\ Tasks \in Nat /\ IsFiniteSet(Drains)
         /\ \A S \in SUBSET (Drains \X Team) :
              IsFiniteSet(S) /\ Cardinality(S) \in Nat /\ Cardinality(S) <= Tasks * N
<1>1. IsFiniteSet(Team) /\ Cardinality(Team) = N
  <2>1. N \in Int /\ 1 \in Int /\ ~(1 > N)
    BY DEF TurnsAssumption
  <2>2. IsFiniteSet(1..N) /\ Cardinality(1..N) = N - 1 + 1
    BY <2>1, FS_Interval
  <2> QED BY <2>1, <2>2 DEF Team
<1>2. IsFiniteSet(Drains) /\ Tasks \in Nat
  BY FS_CardinalityType DEF TurnsAssumption, Tasks
<1>3. IsFiniteSet(Drains \X Team) /\ Cardinality(Drains \X Team) = Tasks * N
  BY <1>1, <1>2, FS_Product DEF Tasks
<1>4. ASSUME NEW S \in SUBSET (Drains \X Team)
      PROVE  IsFiniteSet(S) /\ Cardinality(S) \in Nat /\ Cardinality(S) <= Tasks * N
  <2>1. IsFiniteSet(S) /\ Cardinality(S) <= Cardinality(Drains \X Team)
    BY <1>3, FS_Subset
  <2>2. Cardinality(S) \in Nat
    BY <2>1, FS_CardinalityType
  <2> QED BY <1>3, <2>1, <2>2
<1> QED BY <1>2, <1>4

LEMMA SizesOf ==
  ASSUME TurnsAssumption, NEW a
  PROVE  /\ Left(a) \in SUBSET (Drains \X Team) /\ Left(a)' \in SUBSET (Drains \X Team)
         /\ IsFiniteSet(Left(a)) /\ IsFiniteSet(Left(a)')
         /\ Cardinality(Left(a)) \in Nat /\ Cardinality(Left(a)') \in Nat
         /\ Cardinality(Left(a)) <= Tasks * N /\ Cardinality(Left(a)') <= Tasks * N
<1>1. Left(a) \in SUBSET (Drains \X Team) /\ Left(a)' \in SUBSET (Drains \X Team)
  BY DEF Left
<1> HIDE DEF Left
<1> QED BY <1>1, Sizes

LEMMA TypedParts ==
  ASSUME TurnsInv
  PROVE  /\ able \in [Team -> BOOLEAN] /\ chats \in [Team -> Int]
         /\ last \in [Team -> Nat] /\ reserved \in Nat
         /\ left \in [Ways -> [Team -> Nat]]
         /\ passed \in [Team -> Nat] /\ logged \in [Team -> Nat]
         /\ DOMAIN turn = Drains /\ \A d \in Drains : TurnTyped(d)
BY DEF TurnsInv, TurnsTyped

LEMMA Quotas ==
  ASSUME TurnsAssumption, TurnsInv, NEW a \in Team, logged'[a] \in Nat
  PROVE  /\ Tasks \in Nat /\ passed[a] \in Nat /\ Bounded(a)
         /\ Quota(a) \in Nat /\ Quota(a)' \in Nat /\ Tasks * N <= Quota(a)'
         /\ logged'[a] = logged[a] => Quota(a)' = Quota(a)
         /\ logged'[a] = logged[a] + 1 => Quota(a)' = Quota(a) + Tasks
<1>1. Tasks \in Nat /\ N \in Nat /\ Tasks' = Tasks
  BY Sizes DEF TurnsAssumption, Tasks
<1>2. logged[a] \in Nat /\ passed[a] \in Nat /\ Bounded(a)
  BY TypedParts DEF TurnsInv
<1>3. \A t, g \in Nat : t * g \in Nat /\ t * (g + 1) = t * g + t
  OBVIOUS
<1>4. Tasks * N \in Nat /\ Tasks * logged[a] \in Nat /\ Tasks * logged'[a] \in Nat
      /\ Tasks * (logged[a] + 1) = Tasks * logged[a] + Tasks
  BY <1>1, <1>2, <1>3
<1>5. Quota(a) = Tasks * N + Tasks * logged[a] /\ Quota(a)' = Tasks * N + Tasks * logged'[a]
  BY <1>1 DEF Quota
<1>6. logged'[a] = logged[a] => Quota(a)' = Quota(a)
  BY <1>5
<1>7. logged'[a] = logged[a] + 1 => Quota(a)' = Quota(a) + Tasks
  BY <1>1, <1>4, <1>5
<1>8. Quota(a) \in Nat /\ Quota(a)' \in Nat /\ Tasks * N <= Quota(a)'
  BY <1>4, <1>5
<1> QED BY <1>1, <1>2, <1>6, <1>7, <1>8

(* The bound is met where nobody was passed over yet.                       *)
LEMMA Anew ==
  ASSUME TurnsAssumption, TurnsInv, NEW a \in Team, passed'[a] = 0, logged'[a] \in Nat
  PROVE  Bounded(a)'
<1>1. Tasks * N \in Int
  BY Sizes DEF TurnsAssumption
<1>2. 0 + Cardinality(Left(a)') <= Quota(a)'
  BY <1>1, SizesOf, Quotas
<1> QED BY <1>2 DEF Bounded

(***************************************************************************)
(* Steps that pass nobody over.                                            *)
(***************************************************************************)
LEMMA Counts ==
  ASSUME NEW p \in [Team -> Nat], NEW own \in [Team -> Nat], Counted(p, own)
  PROVE  /\ passed' \in [Team -> Nat] /\ logged' \in [Team -> Nat]
         /\ \A a \in Team :
              IF Eligible(a)' /\ last'[a] = last[a]
              THEN passed'[a] = p[a] /\ logged'[a] = own[a]
              ELSE passed'[a] = 0 /\ logged'[a] = 0
BY DEF Counted, Waited, Eligible

LEMMA Fewer ==
  ASSUME TurnsAssumption, TurnsInv, Counted(passed, logged), NEW a \in Team,
         Eligible(a) /\ Eligible(a)' /\ last'[a] = last[a]
            => Cardinality(Left(a)') <= Cardinality(Left(a))
  PROVE  Bounded(a)'
<1>1. /\ logged'[a] \in Nat
      /\ IF Eligible(a)' /\ last'[a] = last[a]
         THEN passed'[a] = passed[a] /\ logged'[a] = logged[a]
         ELSE passed'[a] = 0
  BY Counts, TypedParts
<1>2. CASE passed'[a] = 0
  BY <1>1, <1>2, Anew
<1>3. CASE passed'[a] # 0
  <2>1. /\ Eligible(a)' /\ last'[a] = last[a]
        /\ passed'[a] = passed[a] /\ logged'[a] = logged[a]
    BY <1>1, <1>3
  <2>2. Eligible(a) /\ Bounded(a) /\ passed[a] \in Nat
    BY <1>1, <1>3, <2>1, Quotas DEF Bounded
  <2>3. Quota(a)' = Quota(a) /\ Quota(a) \in Nat
    BY <1>1, <2>1, Quotas
  <2>4. passed'[a] + Cardinality(Left(a)') <= Quota(a)'
    BY <2>1, <2>2, <2>3, SizesOf DEF Bounded
  <2> QED BY <2>1, <2>4 DEF Bounded
<1> QED BY <1>2, <1>3

(* Drains that do nothing, while reservations only add up.                  *)
LEMMA TurnStays ==
  ASSUME NEW d \in Drains, TurnTyped(d), turn'[d] = turn[d],
         \A a \in Team : last[a] # 0 => last'[a] # 0
  PROVE  TurnTyped(d)'
<1>1. CASE turn[d] = Idle
  BY <1>1 DEF TurnTyped
<1>2. CASE \E S \in SUBSET Team : \E place \in [S -> Nat] : turn[d] = Turn("ranked", place, NoOne)
  <2>1. \E S \in SUBSET Team : \E place \in [S -> Nat] : turn'[d] = Turn("ranked", place, NoOne)
    BY <1>2
  <2> QED BY <2>1 DEF TurnTyped
<1>3. CASE \E a \in Team : last[a] # 0 /\ turn[d] = Turn("given", <<>>, a)
  <2>1. \E a \in Team : last'[a] # 0 /\ turn'[d] = Turn("given", <<>>, a)
    BY <1>3
  <2> QED BY <2>1 DEF TurnTyped
<1> QED BY <1>1, <1>2, <1>3 DEF TurnTyped

LEMMA TurnBecomes ==
  ASSUME TurnsInv, NEW d \in Drains, NEW t, turn' = [turn EXCEPT ![d] = t]
  PROVE  /\ DOMAIN turn' = Drains /\ turn'[d] = t
         /\ \A e \in Drains : e # d => turn'[e] = turn[e]
BY TypedParts

(* What a drain may still log depends on its own turn, the times of the     *)
(* last reservations and the newest log.                                    *)
LEMMA MayLogSame ==
  ASSUME NEW d \in Drains, NEW a, NEW b, turn'[d] = turn[d], UNCHANGED last,
         turn[d].pc = "idle" => (log' = a => log = a)
  PROVE  MayLog(d, b, a)' => MayLog(d, b, a)
<1>1. Earlier(b, a)' => Earlier(b, a)
  BY DEF Earlier
<1>2. Loose(d, a)' => Loose(d, a)
  BY DEF Loose
<1>3. Preferred(d, a)' = Preferred(d, a)
  BY DEF Preferred
<1> QED BY <1>1, <1>2, <1>3 DEF MayLog

LEMMA NothingMoves ==
  ASSUME TurnsAssumption, UNCHANGED <<last, log, turn>>, NEW a \in Team
  PROVE  Cardinality(Left(a)') <= Cardinality(Left(a))
<1>1. Left(a)' \subseteq Left(a)
  <2> SUFFICES ASSUME NEW d \in Drains, NEW b \in Team, MayLog(d, b, a)'
               PROVE  MayLog(d, b, a)
    BY DEF Left
  <2> QED BY MayLogSame
<1> QED BY <1>1, SizesOf, FS_Subset

(* An attempt that comes from a drain or from another way of being open.    *)
LEMMA MovedTyped ==
  ASSUME TurnsInv, NEW a \in Team, NEW from, NEW to,
         from \in Ways => left[from][a] > 0,
         left' = Moved(a, from, to)
  PROVE  /\ left' \in [Ways -> [Team -> Nat]]
         /\ \A w \in Ways, b \in Team : b # a => left'[w][b] = left[w][b]
<1>1. left \in [Ways -> [Team -> Nat]]
  BY TypedParts
<1>2. ASSUME NEW w \in Ways
      PROVE  left'[w] \in [Team -> Nat] /\ \A b \in Team : b # a => left'[w][b] = left[w][b]
  <2>1. left'[w] = [left[w] EXCEPT ![a] =
                      IF w = from THEN left[w][a] - 1
                      ELSE IF w = to THEN left[w][a] + 1 ELSE left[w][a]]
    BY DEF Moved
  <2>2. left[w] \in [Team -> Nat] /\ left[w][a] \in Nat /\ (w = from => left[w][a] > 0)
    BY <1>1
  <2>3. (IF w = from THEN left[w][a] - 1
         ELSE IF w = to THEN left[w][a] + 1 ELSE left[w][a]) \in Nat
    BY <2>2
  <2> QED BY <2>1, <2>2, <2>3
<1>3. left' = [w \in Ways |-> left'[w]]
  BY DEF Moved
<1> QED BY <1>2, <1>3

LEMMA MovedNumbered ==
  ASSUME TurnsInv, NEW a \in Team, NEW from, NEW to, last[a] # 0 \/ last'[a] # 0,
         from \in Ways => left[from][a] > 0,
         left' = Moved(a, from, to), UNCHANGED last
  PROVE  \A w \in Ways, b \in Team : left'[w][b] > 0 => last'[b] # 0
<1>1. \A w \in Ways, b \in Team : b # a => left'[w][b] = left[w][b]
  BY MovedTyped
<1> QED BY <1>1 DEF TurnsInv, Numbered

-----------------------------------------------------------------------------
(***************************************************************************)
(* People: eligibility changes, tickets end, tickets are assigned.         *)
(***************************************************************************)
LEMMA InvFlip ==
  ASSUME TurnsAssumption, TurnsInv, NEW a \in Team, Flip(a)
  PROVE  TurnsInv'
<1>1. /\ able' = [able EXCEPT ![a] = ~@] /\ UNCHANGED <<chats, last, log, turn, left, reserved>>
      /\ Counted(passed, logged)
  BY DEF Flip
<1>2. passed' \in [Team -> Nat] /\ logged' \in [Team -> Nat]
  BY <1>1, TypedParts, Counts
<1>3. TurnsTyped'
  <2>1. able' \in [Team -> BOOLEAN]
    BY <1>1, TypedParts
  <2>2. \A d \in Drains : TurnTyped(d)'
    BY <1>1, TypedParts, TurnStays
  <2> QED BY <1>1, <1>2, <2>1, <2>2, TypedParts DEF TurnsTyped
<1>4. Numbered'
  BY <1>1 DEF TurnsInv, Numbered
<1>5. ASSUME NEW c \in Team PROVE Bounded(c)'
  BY <1>1, Fewer, NothingMoves
<1> QED BY <1>3, <1>4, <1>5 DEF TurnsInv

LEMMA InvEnds ==
  ASSUME TurnsAssumption, TurnsInv, NEW a \in Team, Ends(a)
  PROVE  TurnsInv'
<1>1. /\ chats[a] > Cardinality(Given(a)) + left["held"][a]
      /\ chats' = [chats EXCEPT ![a] = @ - 1]
      /\ UNCHANGED <<able, last, log, turn, left, reserved>>
      /\ Counted(passed, logged)
  BY DEF Ends
<1>2. passed' \in [Team -> Nat] /\ logged' \in [Team -> Nat]
  BY <1>1, TypedParts, Counts
<1>3. TurnsTyped'
  <2>1. chats' \in [Team -> Int]
    BY <1>1, TypedParts
  <2>2. \A d \in Drains : TurnTyped(d)'
    BY <1>1, TypedParts, TurnStays
  <2> QED BY <1>1, <1>2, <2>1, <2>2, TypedParts DEF TurnsTyped
<1>4. Numbered'
  <2>1. chats[a] # 0
    <3>1. Given(a) \in SUBSET Drains
      BY DEF Given
    <3>2. IsFiniteSet(Given(a))
      BY <3>1, Sizes, FS_Subset
    <3>3. Cardinality(Given(a)) \in Nat
      BY <3>2, FS_CardinalityType
    <3>4. left["held"][a] \in Nat
      BY TypedParts DEF Ways
    <3> QED BY <1>1, <3>3, <3>4, TypedParts
  <2> QED BY <1>1, <2>1, TypedParts DEF TurnsInv, Numbered
<1>5. ASSUME NEW c \in Team PROVE Bounded(c)'
  BY <1>1, Fewer, NothingMoves
<1> QED BY <1>3, <1>4, <1>5 DEF TurnsInv

(***************************************************************************)
(* A reservation, whoever makes it: it is the last one, so who was ahead   *)
(* of another agent may only fall behind it.                               *)
(***************************************************************************)
LEMMA ReservedLast ==
  ASSUME TurnsInv, NEW c \in Team, Reserved(c)
  PROVE  /\ chats' \in [Team -> Int] /\ last' \in [Team -> Nat] /\ reserved' \in Nat
         /\ last'[c] = reserved + 1 /\ last'[c] # last[c] /\ reserved' = reserved + 1
         /\ \A a \in Team : a # c => last'[a] = last[a] /\ chats'[a] = chats[a]
         /\ \A a \in Team : last[a] # 0 => last'[a] # 0
         /\ \A a \in Team : last[a] \in Nat /\ last[a] <= reserved
         /\ \A a, b \in Team : a # c /\ Earlier(b, a)' => b # c /\ Earlier(b, a)
<1>1. reserved \in Nat /\ \A a \in Team : last[a] \in Nat /\ last[a] <= reserved
  BY TypedParts DEF TurnsInv, Numbered
<1>2. /\ chats' = [chats EXCEPT ![c] = @ + 1] /\ reserved' = reserved + 1
      /\ last' = [last EXCEPT ![c] = reserved + 1]
  BY DEF Reserved
<1>3. /\ last'[c] = reserved + 1
      /\ \A a \in Team : a # c => last'[a] = last[a] /\ chats'[a] = chats[a]
  BY <1>2, TypedParts
<1>4. chats' \in [Team -> Int] /\ last' \in [Team -> Nat]
  BY <1>1, <1>2, TypedParts
<1>5. \A a, b \in Team : a # c /\ Earlier(b, a)' => b # c /\ Earlier(b, a)
  BY <1>1, <1>3 DEF Earlier
<1> QED BY <1>1, <1>2, <1>3, <1>4, <1>5

LEMMA ReservedNumbered ==
  ASSUME TurnsInv, NEW c \in Team, Reserved(c),
         \A w \in Ways, a \in Team : a # c => left'[w][a] = left[w][a]
  PROVE  Numbered'
<1>1. /\ last'[c] = reserved + 1 /\ reserved' = reserved + 1 /\ reserved \in Nat
      /\ \A a \in Team : last[a] \in Nat /\ last[a] <= reserved
      /\ \A a \in Team : a # c => last'[a] = last[a] /\ chats'[a] = chats[a]
  BY ReservedLast, TypedParts
<1>2. /\ \A a \in Team : last'[a] <= reserved' /\ (last'[a] = 0 => chats'[a] = 0)
      /\ \A a, b \in Team : last'[a] = last'[b] /\ last'[a] # 0 => a = b
  <2>1. /\ \A a \in Team : last[a] = 0 => chats[a] = 0
        /\ \A a, b \in Team : last[a] = last[b] /\ last[a] # 0 => a = b
    BY DEF TurnsInv, Numbered
  <2>2. ASSUME NEW a \in Team PROVE last'[a] <= reserved' /\ (last'[a] = 0 => chats'[a] = 0)
    BY <1>1, <2>1
  <2>3. ASSUME NEW a \in Team, NEW b \in Team, last'[a] = last'[b], last'[a] # 0 PROVE a = b
    BY <1>1, <2>1, <2>3
  <2> QED BY <2>2, <2>3
<1>3. \A w \in Ways, a \in Team : left'[w][a] > 0 => last'[a] # 0
  BY ReservedLast DEF TurnsInv, Numbered
<1> QED BY <1>2, <1>3 DEF Numbered

LEMMA ReservedBound ==
  ASSUME TurnsAssumption, TurnsInv, NEW c \in Team, Reserved(c), UNCHANGED <<log, turn>>,
         Counted(passed, logged), NEW a \in Team
  PROVE  Bounded(a)'
<1>1. CASE a = c
  BY <1>1, ReservedLast, Fewer
<1>2. CASE a # c
  <2>1. ASSUME NEW d \in Drains, NEW b \in Team, MayLog(d, b, a)' PROVE MayLog(d, b, a)
    <3>1. Earlier(b, a)' => Earlier(b, a)
      BY <1>2, ReservedLast
    <3>2. Loose(d, a)' => Loose(d, a)
      BY DEF Loose
    <3>3. Preferred(d, a)' = Preferred(d, a)
      BY DEF Preferred
    <3> QED BY <2>1, <3>1, <3>2, <3>3 DEF MayLog
  <2>2. Left(a)' \subseteq Left(a)
    BY <2>1 DEF Left
  <2>3. Cardinality(Left(a)') <= Cardinality(Left(a))
    BY <2>2, SizesOf, FS_Subset
  <2> QED BY <2>3, Fewer
<1> QED BY <1>1, <1>2

LEMMA InvAssigned ==
  ASSUME TurnsAssumption, TurnsInv, NEW c \in Team, Assigned(c)
  PROVE  TurnsInv'
<1>1. Reserved(c) /\ UNCHANGED <<able, log, turn, left>> /\ Counted(passed, logged)
  BY DEF Assigned
<1>2. passed' \in [Team -> Nat] /\ logged' \in [Team -> Nat]
  BY <1>1, TypedParts, Counts
<1>3. \A d \in Drains : TurnTyped(d)'
  BY <1>1, ReservedLast, TypedParts, TurnStays
<1>4. TurnsTyped'
  BY <1>1, <1>2, <1>3, ReservedLast, TypedParts DEF TurnsTyped
<1>5. Numbered'
  BY <1>1, ReservedNumbered
<1>6. \A a \in Team : Bounded(a)'
  BY <1>1, ReservedBound
<1> QED BY <1>4, <1>5, <1>6 DEF TurnsInv

(***************************************************************************)
(* A ranking: whom it prefers to an agent had its last turn earlier.       *)
(***************************************************************************)
LEMMA BeforeIsEarlier ==
  ASSUME TurnsInv, NEW a \in Team, NEW b \in Team
  PROVE  Before(b, a) <=> Earlier(b, a)
<1>1. last[a] \in Nat /\ last[b] \in Nat /\ chats[a] \in Int /\ chats[b] \in Int /\ a \in Int /\ b \in Int
  BY TypedParts DEF Team
<1>2. (last[a] = last[b] /\ last[a] # 0 => a = b) /\ (last[a] = 0 => chats[a] = 0)
      /\ (last[b] = 0 => chats[b] = 0)
  BY DEF TurnsInv, Numbered
<1> QED BY <1>1, <1>2 DEF Before, Earlier

LEMMA EarlierOrders ==
  ASSUME TurnsInv, NEW a \in Team, NEW b \in Team
  PROVE  /\ ~Earlier(a, a)
         /\ a # b => Earlier(a, b) \/ Earlier(b, a)
         /\ \A c \in Team : Earlier(c, a) /\ Earlier(a, b) => Earlier(c, b)
<1>1. \A c \in Team : last[c] \in Nat /\ c \in Int
  BY TypedParts DEF Team
<1> QED BY <1>1 DEF Earlier

LEMMA PlacesFollow ==
  ASSUME TurnsAssumption, TurnsInv, NEW C \in SUBSET Team, NEW a \in C, NEW b \in C, a # b,
         Cardinality({x \in C : Before(x, b)}) <= Cardinality({x \in C : Before(x, a)})
  PROVE  Earlier(b, a)
<1> SUFFICES ASSUME ~Earlier(b, a) PROVE FALSE
  OBVIOUS
<1> DEFINE A == {x \in C : Before(x, a)}
           B == {x \in C : Before(x, b)}
<1>1. Earlier(a, b) /\ a \in Team /\ b \in Team
  BY EarlierOrders
<1>2. a \in B /\ a \notin A
  BY <1>1, BeforeIsEarlier, EarlierOrders
<1>3. A \subseteq B
  <2>1. ASSUME NEW x \in C, Before(x, a) PROVE Before(x, b)
    <3>1. x \in Team /\ Earlier(x, a)
      BY <1>1, <2>1, BeforeIsEarlier
    <3>2. Earlier(x, b)
      BY <1>1, <3>1, EarlierOrders
    <3> QED BY <1>1, <3>1, <3>2, BeforeIsEarlier
  <2> QED BY <2>1
<1>4. IsFiniteSet(B)
  <2>1. IsFiniteSet(Team)
    BY FS_Interval DEF TurnsAssumption, Team
  <2>2. B \in SUBSET Team
    OBVIOUS
  <2> QED BY <2>1, <2>2, FS_Subset
<1>5. Cardinality(B) <= Cardinality(A)
  OBVIOUS
<1> HIDE DEF A, B
<1>6. IsFiniteSet(A) /\ Cardinality(A) <= Cardinality(B) /\ Cardinality(A) # Cardinality(B)
  BY <1>2, <1>3, <1>4, FS_Subset
<1>7. Cardinality(A) \in Nat /\ Cardinality(B) \in Nat
  BY <1>4, <1>6, FS_CardinalityType
<1> QED BY <1>5, <1>6, <1>7

LEMMA Ranked ==
  ASSUME TurnsAssumption, TurnsInv, NEW d, Rank(d), d \in Drains
  PROVE  \E place \in [Candidates -> Nat] :
            /\ turn' = [turn EXCEPT ![d] = Turn("ranked", place, NoOne)]
            /\ \A a, b \in Candidates : a # b /\ place[b] <= place[a] => Earlier(b, a)
<1> DEFINE place == [c \in Candidates |-> Cardinality({b \in Candidates : Before(b, c)})]
<1>1. Candidates \in SUBSET Team
  BY DEF Candidates
<1>2. IsFiniteSet(Team)
  BY FS_Interval DEF TurnsAssumption, Team
<1>3. ASSUME NEW c \in Candidates PROVE Cardinality({b \in Candidates : Before(b, c)}) \in Nat
  <2>1. {b \in Candidates : Before(b, c)} \in SUBSET Team
    BY <1>1
  <2>2. IsFiniteSet({b \in Candidates : Before(b, c)})
    BY <1>2, <2>1, FS_Subset
  <2> QED BY <2>2, FS_CardinalityType
<1>4. place \in [Candidates -> Nat]
  BY <1>3
<1>5. turn' = [turn EXCEPT ![d] = Turn("ranked", place, NoOne)]
  BY DEF Rank
<1>6. ASSUME NEW a \in Candidates, NEW b \in Candidates, a # b, place[b] <= place[a]
      PROVE  Earlier(b, a)
  BY <1>1, <1>6, PlacesFollow
<1> HIDE DEF place
<1> QED BY <1>4, <1>5, <1>6

LEMMA CandidateOrLast ==
  ASSUME NEW a \in Team, Eligible(a), a \notin Candidates
  PROVE  log = a
BY DEF Candidates

LEMMA InvRank ==
  ASSUME TurnsAssumption, TurnsInv, NEW d \in Drains, Rank(d)
  PROVE  TurnsInv'
<1>1. /\ turn[d].pc = "idle"
      /\ UNCHANGED <<able, chats, last, log, left, reserved, passed, logged>>
  BY DEF Rank
<1>2. PICK place \in [Candidates -> Nat] :
         /\ turn' = [turn EXCEPT ![d] = Turn("ranked", place, NoOne)]
         /\ \A a, b \in Candidates : a # b /\ place[b] <= place[a] => Earlier(b, a)
  BY Ranked
<1>3. /\ DOMAIN turn' = Drains /\ turn'[d] = Turn("ranked", place, NoOne)
      /\ \A e \in Drains : e # d => turn'[e] = turn[e]
  BY <1>2, TurnBecomes
<1>4. TurnsTyped'
  <2>1. Candidates \in SUBSET Team
    BY DEF Candidates
  <2>2. TurnTyped(d)'
    BY <1>3, <2>1 DEF TurnTyped
  <2>3. \A e \in Drains : e # d => TurnTyped(e)'
    BY <1>1, <1>3, TypedParts, TurnStays
  <2> QED BY <1>1, <1>3, <2>2, <2>3, TypedParts DEF TurnsTyped
<1>5. Numbered'
  BY <1>1 DEF TurnsInv, Numbered
<1>6. ASSUME NEW a \in Team PROVE Bounded(a)'
  <2>1. ASSUME Eligible(a) PROVE Cardinality(Left(a)') <= Cardinality(Left(a))
    <3>1. ASSUME NEW e \in Drains, NEW b \in Team, MayLog(e, b, a)' PROVE MayLog(e, b, a)
      <4>1. CASE e # d
        BY <1>1, <1>3, <3>1, <4>1, MayLogSame
      <4>2. CASE e = d
        <5>1. Earlier(b, a)' <=> Earlier(b, a)
          BY <1>1 DEF Earlier
        <5>2. turn'[d].pc = "ranked" /\ turn'[d].place = place /\ DOMAIN place = Candidates
          BY <1>3 DEF Turn
        <5>3. b \in Preferred(d, a)' => Earlier(b, a)
          BY <1>2, <5>2 DEF Preferred
        <5>4. Loose(d, a)' => Loose(d, a)
          BY <1>1, <2>1, <5>2, CandidateOrLast DEF Loose
        <5> QED BY <3>1, <4>2, <5>1, <5>3, <5>4 DEF MayLog
      <4> QED BY <4>1, <4>2
    <3>2. Left(a)' \subseteq Left(a)
      BY <3>1 DEF Left
    <3> QED BY <3>2, SizesOf, FS_Subset
  <2>2. /\ (Eligible(a)' <=> Eligible(a))
        /\ passed'[a] = passed[a] /\ logged'[a] = logged[a] /\ logged[a] \in Nat
    BY <1>1, TypedParts DEF Eligible
  <2>3. CASE ~Eligible(a)
    BY <2>2, <2>3, Quotas DEF Bounded
  <2>4. CASE Eligible(a)
    <3>1. /\ Bounded(a) /\ passed[a] \in Nat
          /\ Quota(a)' = Quota(a) /\ Quota(a) \in Nat
      BY <2>2, Quotas
    <3>2. passed'[a] + Cardinality(Left(a)') <= Quota(a)'
      BY <2>1, <2>2, <2>4, <3>1, SizesOf DEF Bounded
    <3> QED BY <2>2, <2>4, <3>2 DEF Bounded
  <2> QED BY <2>3, <2>4
<1> QED BY <1>4, <1>5, <1>6 DEF TurnsInv

(***************************************************************************)
(* A reservation: of the first candidate, and the ranking is used up.      *)
(***************************************************************************)
LEMMA LeastExists ==
  ASSUME NEW S, IsFiniteSet(S), S # {}, NEW f, \A x \in S : f[x] \in Nat
  PROVE  \E x \in S : \A y \in S : f[x] <= f[y]
<1> DEFINE Below(x) == {y \in S : f[y] <= f[x]}
           T == {Below(x) : x \in S}
<1>1. IsWellFoundedOn(StrictSubsetOrdering(S), FiniteSubsetsOf(S))
  BY FS_StrictSubsetOrderingWellFounded
<1>2. T \subseteq FiniteSubsetsOf(S) /\ T # {}
  <2>1. FiniteSubsetsOf(S) = SUBSET S
    BY FS_FiniteSubsetsOfFinite
  <2>2. \A x \in S : Below(x) \in SUBSET S
    OBVIOUS
  <2>3. T \subseteq SUBSET S
    BY <2>2
  <2>4. T # {}
    OBVIOUS
  <2> QED BY <2>1, <2>3, <2>4
<1>3. PICK b \in T : \A c \in T : ~(<<c, b>> \in StrictSubsetOrdering(S))
  <2> HIDE DEF T
  <2> QED BY <1>1, <1>2, WFMin
<1>4. PICK x \in S : b = Below(x)
  OBVIOUS
<1>5. ASSUME NEW y \in S PROVE f[x] <= f[y]
  <2> SUFFICES ASSUME f[y] < f[x] PROVE FALSE
    OBVIOUS
  <2>1. Below(y) \subseteq Below(x)
    <3>1. \A z \in S : f[z] <= f[y] => f[z] <= f[x]
      OBVIOUS
    <3> QED BY <3>1
  <2>2. x \in Below(x) /\ x \notin Below(y)
    OBVIOUS
  <2>3. <<Below(y), Below(x)>> \in StrictSubsetOrdering(S)
    <3>1. Below(y) \subseteq S /\ Below(x) \subseteq S /\ Below(y) # Below(x)
      BY <2>2
    <3> HIDE DEF Below
    <3> QED BY <2>1, <3>1 DEF StrictSubsetOrdering
  <2> QED BY <1>3, <1>4, <2>3
<1> QED BY <1>5

LEMMA RankedTurn ==
  ASSUME TurnsInv, NEW d \in Drains, turn[d].pc = "ranked"
  PROVE  /\ DOMAIN turn[d].place \in SUBSET Team
         /\ \A c \in DOMAIN turn[d].place : turn[d].place[c] \in Nat
<1>1. TurnTyped(d)
  BY TypedParts
<1>2. PICK S \in SUBSET Team : \E place \in [S -> Nat] : turn[d] = Turn("ranked", place, NoOne)
  <2>1. turn[d] # Idle
    BY DEF Turn, Idle
  <2>2. \A a \in Team : turn[d] # Turn("given", <<>>, a)
    BY DEF Turn
  <2> QED BY <1>1, <2>1, <2>2 DEF TurnTyped
<1>3. PICK place \in [S -> Nat] : turn[d] = Turn("ranked", place, NoOne)
  BY <1>2
<1>4. turn[d].place = place
  BY <1>3 DEF Turn
<1> QED BY <1>4

LEMMA FirstIsLeast ==
  ASSUME TurnsAssumption, TurnsInv, NEW d \in Drains, turn[d].pc = "ranked", Still(d) # {}
  PROVE  /\ First(d) \in Team /\ First(d) \in DOMAIN turn[d].place
         /\ \A b \in Still(d) : turn[d].place[First(d)] <= turn[d].place[b]
<1>1. Still(d) \in SUBSET Team /\ \A c \in Still(d) : turn[d].place[c] \in Nat
  BY RankedTurn DEF Still
<1>2. IsFiniteSet(Still(d))
  <2>1. IsFiniteSet(Team)
    BY FS_Interval DEF TurnsAssumption, Team
  <2> QED BY <1>1, <2>1, FS_Subset
<1>3. \E c \in Still(d) : \A b \in Still(d) : turn[d].place[c] <= turn[d].place[b]
  BY <1>1, <1>2, LeastExists
<1>4. First(d) \in Still(d) /\ \A b \in Still(d) : turn[d].place[First(d)] <= turn[d].place[b]
  BY <1>3 DEF First
<1> QED BY <1>1, <1>4 DEF Still

LEMMA InvReserveNone ==
  ASSUME TurnsAssumption, TurnsInv, NEW d \in Drains, Reserve(d), Still(d) = {}
  PROVE  TurnsInv'
<1>1. /\ turn[d].pc = "ranked" /\ turn' = [turn EXCEPT ![d] = Idle]
      /\ UNCHANGED <<able, chats, last, log, left, reserved>>
      /\ Counted(passed, logged)
  BY DEF Reserve
<1>2. passed' \in [Team -> Nat] /\ logged' \in [Team -> Nat]
  BY <1>1, TypedParts, Counts
<1>3. /\ DOMAIN turn' = Drains /\ turn'[d] = Idle
      /\ \A e \in Drains : e # d => turn'[e] = turn[e]
  BY <1>1, TurnBecomes
<1>4. TurnsTyped'
  <2>1. TurnTyped(d)'
    BY <1>3 DEF TurnTyped
  <2>2. \A e \in Drains : e # d => TurnTyped(e)'
    BY <1>1, <1>3, TypedParts, TurnStays
  <2> QED BY <1>1, <1>2, <1>3, <2>1, <2>2, TypedParts DEF TurnsTyped
<1>5. Numbered'
  BY <1>1 DEF TurnsInv, Numbered
<1>6. ASSUME NEW a \in Team PROVE Bounded(a)'
  <2>1. ASSUME Eligible(a) PROVE Cardinality(Left(a)') <= Cardinality(Left(a))
    <3>1. ASSUME NEW e \in Drains, NEW b \in Team, MayLog(e, b, a)' PROVE MayLog(e, b, a)
      <4>1. CASE e # d
        BY <1>1, <1>3, <3>1, <4>1, MayLogSame
      <4>2. CASE e = d
        <5>1. Earlier(b, a)' <=> Earlier(b, a)
          BY <1>1 DEF Earlier
        <5>2. turn'[d].pc = "idle"
          BY <1>3 DEF Idle, Turn
        <5>3. Loose(d, a)
          BY <1>1, <2>1 DEF Still, Loose
        <5> QED BY <3>1, <4>2, <5>1, <5>2, <5>3 DEF MayLog
      <4> QED BY <4>1, <4>2
    <3>2. Left(a)' \subseteq Left(a)
      BY <3>1 DEF Left
    <3> QED BY <3>2, SizesOf, FS_Subset
  <2> QED BY <1>1, <2>1, Fewer
<1> QED BY <1>4, <1>5, <1>6 DEF TurnsInv

LEMMA Exchanged ==
  ASSUME NEW S, IsFiniteSet(S), NEW x \in S, NEW y, NEW T, T \subseteq (S \ {x}) \cup {y}
  PROVE  Cardinality(T) <= Cardinality(S)
<1>1. IsFiniteSet(S \ {x}) /\ Cardinality(S \ {x}) = Cardinality(S) - 1
  BY FS_RemoveElement
<1>2. /\ IsFiniteSet((S \ {x}) \cup {y})
      /\ \/ Cardinality((S \ {x}) \cup {y}) = Cardinality(S \ {x})
         \/ Cardinality((S \ {x}) \cup {y}) = Cardinality(S \ {x}) + 1
  BY <1>1, FS_AddElement
<1>3. IsFiniteSet(T) /\ Cardinality(T) <= Cardinality((S \ {x}) \cup {y})
  BY <1>2, FS_Subset
<1>4. Cardinality(S) \in Nat /\ Cardinality(T) \in Nat
  BY <1>3, FS_CardinalityType
<1> QED BY <1>1, <1>2, <1>3, <1>4

(* Seen from another agent, which keeps waiting: the reserved agent has had *)
(* its turn, and this drain may log one ticket more.                        *)
LEMMA Reserves ==
  ASSUME TurnsAssumption, TurnsInv, NEW d \in Drains, turn[d].pc = "ranked", Still(d) # {},
         NEW c \in Team, c = First(d), NEW a \in Team, a # c, Eligible(a),
         turn' = [turn EXCEPT ![d] = Turn("given", <<>>, c)], Reserved(c), UNCHANGED log
  PROVE  Cardinality(Left(a)') <= Cardinality(Left(a))
<1>1. /\ turn'[d] = Turn("given", <<>>, c)
      /\ \A e \in Drains : e # d => turn'[e] = turn[e]
  BY TurnBecomes
<1>2. \A b \in Team : Earlier(b, a)' => b # c /\ Earlier(b, a)
  BY ReservedLast
<1>3. ASSUME NEW e \in Drains, NEW b \in Team, MayLog(e, b, a)'
      PROVE  (MayLog(e, b, a) /\ ~(e = d /\ b = c)) \/ (e = d /\ b = a)
  <2>1. CASE e # d
    <3>1. Loose(e, a)' => Loose(e, a)
      BY <1>1, <2>1 DEF Loose
    <3>2. Preferred(e, a)' = Preferred(e, a)
      BY <1>1, <2>1 DEF Preferred
    <3>3. turn'[e] = turn[e]
      BY <1>1, <2>1
    <3> QED BY <1>2, <1>3, <2>1, <3>1, <3>2, <3>3 DEF MayLog
  <2>2. CASE e = d
    <3>1. turn'[d].pc = "given"
      BY <1>1 DEF Turn
    <3> QED BY <1>2, <1>3, <2>2, <3>1 DEF MayLog
  <2> QED BY <2>1, <2>2
<1>4. Left(a)' \subseteq (Left(a) \ {<<d, c>>}) \cup {<<d, a>>}
  BY <1>3 DEF Left
<1>5. Cardinality(Left(a)') <= Cardinality(Left(a))
  <2>1. CASE a \in DOMAIN turn[d].place
    <3>1. turn[d].place[c] <= turn[d].place[a] /\ c \in DOMAIN turn[d].place
      BY <2>1, FirstIsLeast DEF Still
    <3>2. MayLog(d, c, a)
      BY <2>1, <3>1 DEF MayLog, Preferred
    <3>3. <<d, c>> \in Left(a)
      BY <3>2 DEF Left
    <3> QED BY <1>4, <3>3, SizesOf, Exchanged
  <2>2. CASE a \notin DOMAIN turn[d].place
    <3>1. MayLog(d, a, a)
      BY <2>2 DEF MayLog, Loose
    <3>2. <<d, a>> \in Left(a)
      BY <3>1 DEF Left
    <3> QED BY <1>4, <3>2, SizesOf, FS_Subset
  <2> QED BY <2>1, <2>2
<1> QED BY <1>5

LEMMA InvReserve ==
  ASSUME TurnsAssumption, TurnsInv, NEW d \in Drains, Reserve(d), Still(d) # {}
  PROVE  TurnsInv'
<1>1. PICK c \in Team : c = First(d)
  BY FirstIsLeast DEF Reserve
<1>2. /\ turn[d].pc = "ranked" /\ turn' = [turn EXCEPT ![d] = Turn("given", <<>>, c)]
      /\ Reserved(c) /\ UNCHANGED <<able, log, left>> /\ Counted(passed, logged)
  BY <1>1 DEF Reserve
<1>3. passed' \in [Team -> Nat] /\ logged' \in [Team -> Nat]
  BY <1>2, TypedParts, Counts
<1>4. /\ DOMAIN turn' = Drains /\ turn'[d] = Turn("given", <<>>, c)
      /\ \A e \in Drains : e # d => turn'[e] = turn[e]
  BY <1>2, TurnBecomes
<1>5. TurnsTyped'
  <2>1. TurnTyped(d)'
    <3>1. last'[c] # 0
      BY <1>2, ReservedLast, TypedParts
    <3> QED BY <1>4, <3>1 DEF TurnTyped
  <2>2. \A e \in Drains : e # d => TurnTyped(e)'
    BY <1>2, <1>4, ReservedLast, TypedParts, TurnStays
  <2> QED BY <1>2, <1>3, <1>4, <2>1, <2>2, ReservedLast, TypedParts DEF TurnsTyped
<1>6. Numbered'
  BY <1>2, ReservedNumbered
<1>7. ASSUME NEW a \in Team PROVE Bounded(a)'
  <2>1. CASE a = c
    BY <1>2, <2>1, ReservedLast, Fewer
  <2>2. CASE a # c
    <3>1. ASSUME Eligible(a) PROVE Cardinality(Left(a)') <= Cardinality(Left(a))
      BY <1>1, <1>2, <2>2, <3>1, Reserves
    <3> QED BY <1>2, <3>1, Fewer
  <2> QED BY <2>1, <2>2
<1> QED BY <1>5, <1>6, <1>7 DEF TurnsInv

(***************************************************************************)
(* The end of an assignment: it is logged, or undone.                      *)
(***************************************************************************)
LEMMA GivenTurn ==
  ASSUME TurnsInv, NEW d \in Drains, turn[d].pc = "given"
  PROVE  turn[d].agent \in Team /\ last[turn[d].agent] # 0
<1>1. TurnTyped(d)
  BY TypedParts
<1>2. turn[d] # Idle /\ \A S \in SUBSET Team : \A p \in [S -> Nat] : turn[d] # Turn("ranked", p, NoOne)
  BY DEF Turn, Idle
<1>3. PICK a \in Team : last[a] # 0 /\ turn[d] = Turn("given", <<>>, a)
  BY <1>1, <1>2 DEF TurnTyped
<1>4. turn[d].agent = a
  BY <1>3 DEF Turn
<1> QED BY <1>3, <1>4

(* The drain is idle again and whatever it may log then it might before,    *)
(* save that the newest log may name a now.                                 *)
LEMMA Released ==
  ASSUME TurnsAssumption, TurnsInv, NEW d \in Drains, turn[d].pc = "given",
         turn' = [turn EXCEPT ![d] = Idle], UNCHANGED last, NEW a \in Team
  PROVE  /\ \A e \in Drains, b \in Team :
               MayLog(e, b, a)' => MayLog(e, b, a) \/ (b = a /\ log' = a)
         /\ log' # a => ~MayLog(d, a, a)'
         /\ MayLog(d, a, a)
<1>1. /\ turn'[d] = Idle /\ Idle.pc = "idle"
      /\ \A e \in Drains : e # d => turn'[e] = turn[e]
  BY TurnBecomes DEF Idle, Turn
<1>2. \A b \in Team : Earlier(b, a)' <=> Earlier(b, a)
  BY DEF Earlier
<1>3. ASSUME NEW e \in Drains, NEW b \in Team, MayLog(e, b, a)'
      PROVE  MayLog(e, b, a) \/ (b = a /\ log' = a)
  <2>1. CASE e = d
    BY <1>1, <1>2, <1>3, <2>1 DEF MayLog, Loose
  <2>2. CASE e # d
    <3>1. Preferred(e, a)' = Preferred(e, a) /\ turn'[e] = turn[e]
      BY <1>1, <2>2 DEF Preferred
    <3>2. Loose(e, a)' => Loose(e, a) \/ log' = a
      BY <3>1 DEF Loose
    <3> QED BY <1>2, <1>3, <3>1, <3>2 DEF MayLog
  <2> QED BY <2>1, <2>2
<1>4. log' # a => ~MayLog(d, a, a)'
  BY <1>1, <1>2, EarlierOrders DEF MayLog, Loose
<1>5. MayLog(d, a, a)
  BY DEF MayLog, Loose
<1> QED BY <1>3, <1>4, <1>5

(* Of another agent: it uses up the pair of this drain and a.               *)
LEMMA PassesOver ==
  ASSUME TurnsAssumption, TurnsInv, NEW d \in Drains, turn[d].pc = "given",
         turn' = [turn EXCEPT ![d] = Idle], UNCHANGED last, NEW a \in Team, log' # a,
         Eligible(a), Eligible(a)', passed'[a] = passed[a] + 1, logged'[a] = logged[a]
  PROVE  Bounded(a)'
<1>1. Left(a)' \subseteq Left(a) \ {<<d, a>>} /\ <<d, a>> \in Left(a)
  <2>1. \A e \in Drains, b \in Team : MayLog(e, b, a)' => MayLog(e, b, a) /\ ~(e = d /\ b = a)
    BY Released
  <2>2. Left(a)' \subseteq Left(a) \ {<<d, a>>}
    BY <2>1 DEF Left
  <2>3. MayLog(d, a, a)
    BY Released
  <2>4. <<d, a>> \in Left(a)
    BY <2>3 DEF Left
  <2> QED BY <2>2, <2>4
<1>2. Cardinality(Left(a)') <= Cardinality(Left(a)) - 1
  <2>1. IsFiniteSet(Left(a) \ {<<d, a>>}) /\ Cardinality(Left(a) \ {<<d, a>>}) = Cardinality(Left(a)) - 1
    BY <1>1, SizesOf, FS_RemoveElement
  <2> QED BY <1>1, <2>1, FS_Subset
<1>3. /\ Bounded(a) /\ passed[a] \in Nat
      /\ Quota(a)' = Quota(a) /\ Quota(a) \in Nat
  BY TypedParts, Quotas
<1>4. passed'[a] + Cardinality(Left(a)') <= Quota(a)'
  BY <1>2, <1>3, SizesOf DEF Bounded
<1> QED BY <1>4 DEF Bounded

(* Of a itself, by whomever: each drain may now log a ticket more.          *)
LEMMA OwnLogged ==
  ASSUME TurnsAssumption, TurnsInv, NEW a \in Team, Eligible(a), Eligible(a)',
         \A e \in Drains, b \in Team : MayLog(e, b, a)' => MayLog(e, b, a) \/ b = a,
         passed'[a] = passed[a], logged'[a] = logged[a] + 1
  PROVE  Bounded(a)'
<1> DEFINE More == Drains \X {a}
<1>1. IsFiniteSet(More) /\ Cardinality(More) = Tasks
  <2>1. IsFiniteSet({a}) /\ Cardinality({a}) = 1 /\ IsFiniteSet(Drains)
    BY FS_Singleton, Sizes
  <2>2. IsFiniteSet(More) /\ Cardinality(More) = Cardinality(Drains) * Cardinality({a})
    BY <2>1, FS_Product
  <2>3. Cardinality(Drains) \in Nat
    BY <2>1, FS_CardinalityType
  <2> QED BY <2>1, <2>2, <2>3 DEF Tasks
<1>2. Left(a)' \subseteq Left(a) \cup More
  BY DEF Left
<1>3. Cardinality(Left(a)') <= Cardinality(Left(a)) + Tasks
  <2> HIDE DEF More
  <2>1. /\ IsFiniteSet(Left(a) \cup More)
        /\ Cardinality(Left(a) \cup More)
              = Cardinality(Left(a)) + Cardinality(More) - Cardinality(Left(a) \cap More)
    BY <1>1, SizesOf, FS_Union
  <2>2. Cardinality(Left(a) \cap More) \in Nat
    <3>1. Left(a) \cap More \in SUBSET More
      OBVIOUS
    <3>2. IsFiniteSet(Left(a) \cap More)
      BY <1>1, <3>1, FS_Subset
    <3> QED BY <3>2, FS_CardinalityType
  <2>3. Cardinality(Left(a)') <= Cardinality(Left(a) \cup More)
    BY <1>2, <2>1, FS_Subset
  <2>4. Tasks \in Nat
    BY Sizes
  <2> QED BY <1>1, <2>1, <2>2, <2>3, <2>4, SizesOf
<1>4. /\ Bounded(a) /\ passed[a] \in Nat /\ Tasks \in Nat
      /\ Quota(a)' = Quota(a) + Tasks /\ Quota(a) \in Nat
  BY TypedParts, Quotas
<1>5. passed'[a] + Cardinality(Left(a)') <= Quota(a)'
  BY <1>3, <1>4, SizesOf DEF Bounded
<1> QED BY <1>5 DEF Bounded

LEMMA OwnLogCounted ==
  ASSUME TurnsInv, NEW c \in Team
  PROVE  /\ OwnLog(c) \in [Team -> Nat] /\ OwnLog(c)[c] = logged[c] + 1
         /\ \A a \in Team : a # c => OwnLog(c)[a] = logged[a]
BY TypedParts DEF OwnLog

LEMMA InvFinalize ==
  ASSUME TurnsAssumption, TurnsInv, NEW d \in Drains, Finalize(d)
  PROVE  TurnsInv'
<1> DEFINE more == [a \in Team |-> IF a = log' THEN passed[a] ELSE passed[a] + 1]
<1>1. /\ turn[d].pc = "given" /\ log' = turn[d].agent /\ turn' = [turn EXCEPT ![d] = Idle]
      /\ UNCHANGED <<able, chats, last, left, reserved>>
      /\ Counted(more, OwnLog(log'))
  BY DEF Finalize
<1>2. log' \in Team
  BY <1>1, GivenTurn
<1>3. /\ passed' \in [Team -> Nat] /\ logged' \in [Team -> Nat]
      /\ \A a \in Team :
            IF Eligible(a)' THEN passed'[a] = more[a] /\ logged'[a] = OwnLog(log')[a]
            ELSE passed'[a] = 0 /\ logged'[a] = 0
  <2>1. more \in [Team -> Nat]
    BY TypedParts
  <2>2. OwnLog(log') \in [Team -> Nat]
    BY <1>2, OwnLogCounted
  <2> HIDE DEF more
  <2> QED BY <1>1, <2>1, <2>2, Counts
<1>4. /\ DOMAIN turn' = Drains /\ turn'[d] = Idle
      /\ \A e \in Drains : e # d => turn'[e] = turn[e]
  BY <1>1, TurnBecomes
<1>5. TurnsTyped'
  <2>1. TurnTyped(d)'
    BY <1>4 DEF TurnTyped
  <2>2. \A e \in Drains : e # d => TurnTyped(e)'
    BY <1>1, <1>4, TypedParts, TurnStays
  <2> QED BY <1>1, <1>3, <1>4, <2>1, <2>2, TypedParts DEF TurnsTyped
<1>6. Numbered'
  BY <1>1 DEF TurnsInv, Numbered
<1>7. ASSUME NEW a \in Team PROVE Bounded(a)'
  <2>1. Eligible(a)' <=> Eligible(a)
    BY <1>1 DEF Eligible
  <2>2. CASE ~Eligible(a)
    BY <1>3, <2>1, <2>2, Anew
  <2>3. CASE Eligible(a) /\ a = log'
    <3>1. passed'[a] = passed[a] /\ logged'[a] = logged[a] + 1
      BY <1>2, <1>3, <2>1, <2>3, OwnLogCounted
    <3>2. \A e \in Drains, b \in Team : MayLog(e, b, a)' => MayLog(e, b, a) \/ b = a
      BY <1>1, Released
    <3> QED BY <2>1, <2>3, <3>1, <3>2, OwnLogged
  <2>4. CASE Eligible(a) /\ a # log'
    <3>1. passed'[a] = passed[a] + 1 /\ logged'[a] = logged[a]
      BY <1>2, <1>3, <2>1, <2>4, OwnLogCounted
    <3> QED BY <1>1, <2>1, <2>4, <3>1, PassesOver
  <2> QED BY <2>2, <2>3, <2>4
<1> QED BY <1>5, <1>6, <1>7 DEF TurnsInv

(***************************************************************************)
(* Undone or broken off, an assignment leaves the drain without a log.     *)
(***************************************************************************)
LEMMA GivenUp ==
  ASSUME TurnsAssumption, TurnsInv, NEW d \in Drains, turn[d].pc = "given",
         turn' = [turn EXCEPT ![d] = Idle], UNCHANGED <<last, log>>,
         Counted(passed, logged), NEW a \in Team
  PROVE  Bounded(a)'
<1>1. /\ turn'[d] = Idle
      /\ \A e \in Drains : e # d => turn'[e] = turn[e]
  BY TurnBecomes
<1>2. ASSUME NEW e \in Drains, NEW b \in Team, MayLog(e, b, a)' PROVE MayLog(e, b, a)
  <2>1. CASE e # d
    BY <1>1, <1>2, <2>1, MayLogSame
  <2>2. CASE e = d
    <3>1. MayLog(e, b, a) \/ b = a
      BY <1>2, Released
    <3>2. MayLog(d, a, a)
      BY Released
    <3> QED BY <2>2, <3>1, <3>2
  <2> QED BY <2>1, <2>2
<1>3. Left(a)' \subseteq Left(a)
  BY <1>2 DEF Left
<1>4. Cardinality(Left(a)') <= Cardinality(Left(a))
  BY <1>3, SizesOf, FS_Subset
<1> QED BY <1>4, Fewer

LEMMA InvGivenUp ==
  ASSUME TurnsAssumption, TurnsInv, NEW d \in Drains, Compensate(d) \/ Leave(d)
  PROVE  TurnsInv'
<1> DEFINE c == turn[d].agent
<1>1. /\ turn[d].pc = "given" /\ turn' = [turn EXCEPT ![d] = Idle]
      /\ UNCHANGED <<able, last, log, reserved>> /\ Counted(passed, logged)
      /\ chats' = chats \/ chats' = [chats EXCEPT ![c] = @ - 1]
  BY DEF Compensate, Leave
<1>2. PICK to : left' = Moved(c, "drain", to)
  BY DEF Compensate, Leave
<1>3. c \in Team /\ last[c] # 0
  BY <1>1, GivenTurn
<1> HIDE DEF c
<1>4. /\ passed' \in [Team -> Nat] /\ logged' \in [Team -> Nat]
      /\ chats' \in [Team -> Int] /\ \A a \in Team : a # c => chats'[a] = chats[a]
  BY <1>1, <1>3, TypedParts, Counts
<1>5. "drain" \notin Ways
  BY DEF Ways
<1>6. left' \in [Ways -> [Team -> Nat]]
  BY <1>2, <1>3, <1>5, MovedTyped
<1>7. /\ DOMAIN turn' = Drains /\ turn'[d] = Idle
      /\ \A e \in Drains : e # d => turn'[e] = turn[e]
  BY <1>1, TurnBecomes
<1>8. TurnsTyped'
  <2>1. TurnTyped(d)'
    BY <1>7 DEF TurnTyped
  <2>2. \A e \in Drains : e # d => TurnTyped(e)'
    BY <1>1, <1>7, TypedParts, TurnStays
  <2> QED BY <1>1, <1>4, <1>6, <1>7, <2>1, <2>2, TypedParts DEF TurnsTyped
<1>9. Numbered'
  <2>1. \A w \in Ways, a \in Team : left'[w][a] > 0 => last'[a] # 0
    BY <1>1, <1>2, <1>3, <1>5, MovedNumbered
  <2> QED BY <1>1, <1>3, <1>4, <2>1 DEF TurnsInv, Numbered
<1>10. \A a \in Team : Bounded(a)'
  BY <1>1, GivenUp
<1> QED BY <1>8, <1>9, <1>10 DEF TurnsInv

(***************************************************************************)
(* The repair.                                                             *)
(***************************************************************************)
LEMMA InvRepairLogs ==
  ASSUME TurnsAssumption, TurnsInv, NEW c \in Team, RepairLogs(c)
  PROVE  TurnsInv'
<1>1. PICK from \in {"held", "unread"} : left[from][c] > 0 /\ left' = Moved(c, from, "gone")
  BY DEF RepairLogs
<1>2. /\ log' = c /\ UNCHANGED <<able, chats, last, turn, reserved>>
      /\ Counted(passed, OwnLog(c))
  BY DEF RepairLogs
<1>3. from \in Ways /\ last[c] # 0
  BY <1>1 DEF Ways, TurnsInv, Numbered
<1>4. /\ passed' \in [Team -> Nat] /\ logged' \in [Team -> Nat]
      /\ \A a \in Team :
            IF Eligible(a)' THEN passed'[a] = passed[a] /\ logged'[a] = OwnLog(c)[a]
            ELSE passed'[a] = 0 /\ logged'[a] = 0
  BY <1>2, OwnLogCounted, TypedParts, Counts
<1>5. left' \in [Ways -> [Team -> Nat]]
  BY <1>1, MovedTyped
<1>6. TurnsTyped'
  <2>1. \A d \in Drains : TurnTyped(d)'
    BY <1>2, TypedParts, TurnStays
  <2> QED BY <1>2, <1>4, <1>5, <2>1, TypedParts DEF TurnsTyped
<1>7. Numbered'
  <2>1. \A w \in Ways, a \in Team : left'[w][a] > 0 => last'[a] # 0
    BY <1>1, <1>2, <1>3, MovedNumbered
  <2> QED BY <1>2, <2>1 DEF TurnsInv, Numbered
<1>8. ASSUME NEW a \in Team PROVE Bounded(a)'
  <2>1. Eligible(a)' <=> Eligible(a)
    BY <1>2 DEF Eligible
  <2>2. \A e \in Drains, b \in Team : MayLog(e, b, a)' => MayLog(e, b, a) \/ (b = a /\ a = c)
    <3> TAKE e \in Drains, b \in Team
    <3>1. CASE a # c
      BY <1>2, <3>1, MayLogSame
    <3>2. CASE a = c
      <4>1. Earlier(b, a)' <=> Earlier(b, a)
        BY <1>2 DEF Earlier
      <4>2. Preferred(e, a)' = Preferred(e, a) /\ turn'[e] = turn[e]
        BY <1>2 DEF Preferred
      <4> QED BY <3>2, <4>1, <4>2 DEF MayLog
    <3> QED BY <3>1, <3>2
  <2>3. CASE ~Eligible(a)
    BY <1>4, <2>1, <2>3, Anew
  <2>4. CASE Eligible(a) /\ a = c
    <3>1. passed'[a] = passed[a] /\ logged'[a] = logged[a] + 1
      BY <1>4, <2>1, <2>4, OwnLogCounted
    <3> QED BY <2>1, <2>2, <2>4, <3>1, OwnLogged
  <2>5. CASE Eligible(a) /\ a # c
    <3>1. passed'[a] = passed[a] /\ logged'[a] = logged[a]
      BY <1>4, <2>1, <2>5, OwnLogCounted
    <3>2. Left(a)' \subseteq Left(a)
      BY <2>2, <2>5 DEF Left
    <3>3. Cardinality(Left(a)') <= Cardinality(Left(a))
      BY <3>2, SizesOf, FS_Subset
    <3>4. /\ Bounded(a) /\ passed[a] \in Nat
          /\ Quota(a)' = Quota(a) /\ Quota(a) \in Nat
      BY <3>1, TypedParts, Quotas
    <3>5. passed'[a] + Cardinality(Left(a)') <= Quota(a)'
      BY <2>5, <3>1, <3>3, <3>4, SizesOf DEF Bounded
    <3> QED BY <2>1, <2>5, <3>5 DEF Bounded
  <2> QED BY <2>3, <2>4, <2>5
<1> QED BY <1>6, <1>7, <1>8 DEF TurnsInv

LEMMA InvRepairUndoes ==
  ASSUME TurnsAssumption, TurnsInv, NEW c \in Team, RepairUndoes(c)
  PROVE  TurnsInv'
<1>1. PICK from \in Ways, to \in {"gone", "retryable", "unread"} :
         /\ left[from][c] > 0 /\ left' = Moved(c, from, to)
         /\ chats' = [chats EXCEPT ![c] = IF from = "held" THEN @ - 1 ELSE @]
  BY DEF RepairUndoes
<1>2. UNCHANGED <<able, last, log, turn, reserved>> /\ Counted(passed, logged)
  BY DEF RepairUndoes
<1>3. last[c] # 0
  BY <1>1 DEF TurnsInv, Numbered
<1>4. /\ passed' \in [Team -> Nat] /\ logged' \in [Team -> Nat]
      /\ chats' \in [Team -> Int] /\ \A a \in Team : a # c => chats'[a] = chats[a]
  BY <1>1, <1>2, TypedParts, Counts
<1>5. left' \in [Ways -> [Team -> Nat]]
  BY <1>1, MovedTyped
<1>6. TurnsTyped'
  <2>1. \A d \in Drains : TurnTyped(d)'
    BY <1>2, TypedParts, TurnStays
  <2> QED BY <1>2, <1>4, <1>5, <2>1, TypedParts DEF TurnsTyped
<1>7. Numbered'
  <2>1. \A w \in Ways, a \in Team : left'[w][a] > 0 => last'[a] # 0
    BY <1>1, <1>2, <1>3, MovedNumbered
  <2> QED BY <1>2, <1>3, <1>4, <2>1 DEF TurnsInv, Numbered
<1>8. ASSUME NEW a \in Team PROVE Bounded(a)'
  BY <1>2, Fewer, NothingMoves
<1> QED BY <1>6, <1>7, <1>8 DEF TurnsInv

LEMMA InvRetry ==
  ASSUME TurnsAssumption, TurnsInv, NEW c \in Team, Retry(c)
  PROVE  TurnsInv'
<1>1. /\ left["retryable"][c] > 0 /\ left' = Moved(c, "retryable", "held")
      /\ Reserved(c) /\ UNCHANGED <<able, log, turn>> /\ Counted(passed, logged)
  BY DEF Retry
<1>2. passed' \in [Team -> Nat] /\ logged' \in [Team -> Nat]
  BY <1>1, TypedParts, Counts
<1>3. /\ left' \in [Ways -> [Team -> Nat]]
      /\ \A w \in Ways, b \in Team : b # c => left'[w][b] = left[w][b]
  BY <1>1, MovedTyped
<1>4. \A d \in Drains : TurnTyped(d)'
  BY <1>1, ReservedLast, TypedParts, TurnStays
<1>5. TurnsTyped'
  BY <1>1, <1>2, <1>3, <1>4, ReservedLast, TypedParts DEF TurnsTyped
<1>6. Numbered'
  BY <1>1, <1>3, ReservedNumbered
<1>7. \A a \in Team : Bounded(a)'
  BY <1>1, ReservedBound
<1> QED BY <1>5, <1>6, <1>7 DEF TurnsInv

-----------------------------------------------------------------------------
LEMMA TurnsInitially ==
  ASSUME TurnsAssumption, Init
  PROVE  TurnsInv
<1>1. TurnsTyped
  <2>1. \A d \in Drains : turn[d] = Idle
    BY DEF Init
  <2>2. \A d \in Drains : TurnTyped(d)
    BY <2>1 DEF TurnTyped
  <2> QED BY <2>2 DEF Init, TurnsTyped
<1>2. Numbered
  BY DEF Init, Numbered
<1>3. ASSUME NEW a \in Team PROVE Bounded(a)
  <2>1. passed[a] = 0 /\ logged[a] = 0
    BY DEF Init
  <2>2. /\ Cardinality(Left(a)) <= Tasks * N /\ Cardinality(Left(a)) \in Nat
        /\ Tasks \in Nat /\ Tasks * N \in Nat /\ Tasks * 0 = 0
    <3>1. \A t, n \in Nat : t * n \in Nat /\ t * 0 = 0
      OBVIOUS
    <3> QED BY <3>1, SizesOf, Sizes DEF TurnsAssumption
  <2> QED BY <2>1, <2>2 DEF Bounded, Quota
<1> QED BY <1>1, <1>2, <1>3 DEF TurnsInv

LEMMA TurnsStep ==
  ASSUME TurnsAssumption, TurnsInv, [Next]_vars
  PROVE  TurnsInv'
<1>1. ASSUME NEW a \in Team, Flip(a) \/ Ends(a) \/ Assigned(a) PROVE TurnsInv'
  BY <1>1, InvFlip, InvEnds, InvAssigned
<1>2. ASSUME NEW a \in Team, Repair(a) PROVE TurnsInv'
  BY <1>2, InvRepairLogs, InvRepairUndoes, InvRetry DEF Repair
<1>3. ASSUME NEW d \in Drains, Rank(d) PROVE TurnsInv'
  BY <1>3, InvRank
<1>4. ASSUME NEW d \in Drains, Reserve(d) PROVE TurnsInv'
  BY <1>4, InvReserve, InvReserveNone
<1>5. ASSUME NEW d \in Drains, Finalize(d) PROVE TurnsInv'
  BY <1>5, InvFinalize
<1>6. ASSUME NEW d \in Drains, Compensate(d) \/ Leave(d) PROVE TurnsInv'
  BY <1>6, InvGivenUp
<1>7. CASE UNCHANGED vars
  <2>1. /\ UNCHANGED able /\ UNCHANGED chats /\ UNCHANGED last /\ UNCHANGED log
        /\ UNCHANGED turn /\ UNCHANGED left /\ UNCHANGED reserved
        /\ UNCHANGED passed /\ UNCHANGED logged
    BY <1>7 DEF vars
  <2>2. TurnsTyped'
    BY <2>1 DEF TurnsInv, TurnsTyped, TurnTyped
  <2>3. Numbered'
    BY <2>1 DEF TurnsInv, Numbered
  <2>4. ASSUME NEW a \in Team PROVE Bounded(a)'
    <3>1. Left(a)' = Left(a)
      BY <2>1 DEF Left, MayLog, Earlier, Preferred, Loose
    <3>2. Eligible(a)' = Eligible(a)
      BY <2>1 DEF Eligible
    <3> QED
      BY <2>1, <3>1, <3>2 DEF TurnsInv, Bounded, Quota, Tasks
  <2> QED
    BY <2>2, <2>3, <2>4 DEF TurnsInv
<1> QED BY <1>1, <1>2, <1>3, <1>4, <1>5, <1>6, <1>7 DEF Next

LEMMA BypassBounded ==
  ASSUME TurnsAssumption, TurnsInv
  PROVE  BoundedBypass
<1>1. ASSUME NEW a \in Team PROVE passed[a] <= Tasks * (N + logged[a])
  <2>1. Bounded(a) /\ passed[a] \in Nat /\ logged[a] \in Nat
    BY TypedParts DEF TurnsInv
  <2>2. Quota(a) = Tasks * (N + logged[a]) /\ Quota(a) \in Nat
    <3>1. \A t, n, l \in Nat : t * (n + l) = t * n + t * l /\ t * n \in Nat
      OBVIOUS
    <3>2. Tasks \in Nat /\ N \in Nat
      BY Sizes DEF TurnsAssumption
    <3> QED BY <2>1, <3>1, <3>2 DEF Quota
  <2>3. Cardinality(Left(a)) \in Nat
    BY SizesOf
  <2>4. passed[a] <= Quota(a)
    BY <2>1, <2>2, <2>3 DEF Bounded
  <2> QED BY <2>2, <2>4
<1> QED BY <1>1 DEF BoundedBypass, Tasks

(* However the drains overlap, their rankings age, people come and go and   *)
(* assignments are undone, broken off, retried or logged late by the        *)
(* repair, an agent that may be given a ticket is passed over at most so    *)
(* often before its own turn (get_ranked_eligible_agents,                   *)
(* reserve_next_assignment and repair_assignment_attempts).                 *)
THEOREM NobodyIsPassedOver ==
  ASSUME TurnsAssumption
  PROVE  Spec => []BoundedBypass
<1>1. Init => TurnsInv
  BY TurnsInitially
<1>2. TurnsInv /\ [Next]_vars => TurnsInv'
  BY TurnsStep
<1>3. TurnsInv => BoundedBypass
  BY BypassBounded
<1> QED BY <1>1, <1>2, <1>3, PTL DEF Spec
=============================================================================
