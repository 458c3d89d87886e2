------------------------ MODULE FieldReplicasProofs ------------------------
(* What merging promises, for any devices, fields and number of stamps.    *)
EXTENDS FieldReplicas, WellFoundedInduction, TLAPS

----------------------------------------------------------------------------
(* The newest of a set of clocks                                           *)

\* A nonempty set of clocks has a newest one.
LEMMA NewestExists ==
  ASSUME NEW S \in SUBSET Clocks, S # {}
  PROVE  \E x \in S : \A y \in S : x >= y
<1>1. MaxStamps \in Nat
  BY FieldsAssumption
<1> DEFINE T == {n \in Nat : \E x \in S : n = MaxStamps - x}
<1>2. T \subseteq Nat /\ T # {}
  <2>1. PICK x \in S : TRUE
    OBVIOUS
  <2>2. x \in 0 .. MaxStamps
    BY <2>1 DEF Clocks
  <2>3. MaxStamps - x \in T
    BY <1>1, <2>1, <2>2
  <2> QED
    BY <2>3
<1>3. \E x \in T : \A y \in T : ~ (<<y, x>> \in OpToRel(<, Nat))
  BY <1>2, NatLessThanWellFounded, WFMin
<1>4. PICK x \in T : \A y \in T : ~ (y < x)
  BY <1>2, <1>3 DEF OpToRel
<1>5. PICK s \in S : x = MaxStamps - s
  BY <1>4
<1>6. \A t \in S : t \in 0 .. MaxStamps
  BY DEF Clocks
<1>7. \A t \in S : ~ (MaxStamps - t < MaxStamps - s)
  BY <1>1, <1>4, <1>5, <1>6
<1> QED
  BY <1>1, <1>6, <1>7

\* The newest of some clocks is one of them, and no other exceeds it.
LEMMA NewestIs ==
  ASSUME NEW S \in SUBSET Clocks, S # {}
  PROVE  /\ Max(S) \in S /\ Max(S) \in Nat /\ Max(S) <= MaxStamps
         /\ \A y \in S : Max(S) >= y
<1>1. \E x \in S : \A y \in S : x >= y
  BY NewestExists
<1>2. Max(S) \in S /\ \A y \in S : Max(S) >= y
  BY <1>1 DEF Max
<1>3. Max(S) \in 0 .. MaxStamps /\ MaxStamps \in Nat
  BY <1>2, FieldsAssumption DEF Clocks
<1> QED
  BY <1>2, <1>3

\* The newest of a set is the one element no other exceeds.
LEMMA NewestEq ==
  ASSUME NEW S \in SUBSET Clocks, NEW x \in S, \A y \in S : x >= y
  PROVE  Max(S) = x
<1>1. Max(S) \in S /\ Max(S) >= x /\ Max(S) \in Nat
  BY NewestIs
<1>2. x >= Max(S) /\ x \in 0 .. MaxStamps /\ MaxStamps \in Nat
  BY <1>1, FieldsAssumption DEF Clocks
<1> QED
  BY <1>1, <1>2

----------------------------------------------------------------------------
(* Merging                                                                 *)

\* The versions a device can hold: a tombstone is later than every edit it knows,
\* and what has neither values nor a tombstone is nothing.
WellFormed(v) ==
  /\ v \in Versions
  /\ v.row \in Rows <=> v.valued
  /\ v.row = NoRow <=> ~v.valued
  /\ Dead(v) => v.deletedAt > EditClock(v)
  /\ ~v.valued /\ ~Dead(v) => v = NoVersion

\* What every step needs of the constants.
LEMMA FieldsExist == Fields # {} /\ Scalars \subseteq Fields /\ MaxStamps \in Nat /\ NoRow \notin Rows
<1>1. Fields # {} /\ Scalars \subseteq Fields /\ MaxStamps \in Nat
  BY FieldsAssumption DEF Fields
<1> QED
  BY <1>1, FieldsAssumption DEF NoRow, Rows

\* The edit clock is the clock of a field, and no field's exceeds it.
LEMMA EditClockIs ==
  ASSUME NEW v, v.clocks \in [Fields -> Clocks]
  PROVE  /\ EditClock(v) \in Clocks
         /\ \A f \in Fields : v.clocks[f] <= EditClock(v)
         /\ \E f \in Fields : v.clocks[f] = EditClock(v)
<1> DEFINE S == {v.clocks[f] : f \in Fields}
<1>1. S \subseteq Clocks /\ S # {}
  BY FieldsExist
<1>2. Max(S) \in S /\ \A y \in S : Max(S) >= y
  BY <1>1, NewestIs
<1>3. EditClock(v) = Max(S)
  BY DEF EditClock
<1> HIDE DEF S
<1>4. EditClock(v) \in S /\ \A y \in S : EditClock(v) >= y
  BY <1>2, <1>3
<1>5. \A f \in Fields : v.clocks[f] \in S
  BY DEF S
<1>6. \A y \in Clocks, z \in Clocks : y >= z => z <= y
  BY FieldsExist DEF Clocks
<1>7. \E f \in Fields : v.clocks[f] = EditClock(v)
  BY <1>4 DEF S
<1> QED
  BY <1>1, <1>4, <1>5, <1>6, <1>7

\* A clock that some field has and none exceeds is the edit clock.
LEMMA EditClockEq ==
  ASSUME NEW v, v.clocks \in [Fields -> Clocks],
         NEW x, \A f \in Fields : v.clocks[f] <= x, \E f \in Fields : v.clocks[f] = x
  PROVE  EditClock(v) = x
<1>1. PICK f \in Fields : v.clocks[f] = x
  OBVIOUS
<1>2. PICK g \in Fields : v.clocks[g] = EditClock(v)
  BY EditClockIs
<1>3. x <= EditClock(v) /\ EditClock(v) <= x /\ x \in Clocks /\ EditClock(v) \in Clocks
  BY <1>1, <1>2, EditClockIs
<1> QED
  BY <1>3, FieldsExist DEF Clocks

\* Every clock of the two, field by field, whichever side is asked.
LEMMA ClocksJoin ==
  ASSUME NEW a, NEW b, a.clocks \in [Fields -> Clocks], b.clocks \in [Fields -> Clocks]
  PROVE  /\ JoinedClocks(a, b) \in [Fields -> Clocks]
         /\ JoinedClocks(a, b) = JoinedClocks(b, a)
         /\ \A v : v.clocks = JoinedClocks(a, b) => EditClock(v) = Later(EditClock(a), EditClock(b))
<1>1. \A f \in Fields : a.clocks[f] \in 0 .. MaxStamps /\ b.clocks[f] \in 0 .. MaxStamps
  BY DEF Clocks
<1>2. JoinedClocks(a, b) \in [Fields -> Clocks]
  BY <1>1 DEF JoinedClocks, Later, Clocks
<1>3. JoinedClocks(a, b) = JoinedClocks(b, a)
  BY <1>1, FieldsExist DEF JoinedClocks, Later
<1>4. ASSUME NEW v, v.clocks = JoinedClocks(a, b)
      PROVE  EditClock(v) = Later(EditClock(a), EditClock(b))
  <2>1. \A f \in Fields : v.clocks[f] = IF a.clocks[f] >= b.clocks[f] THEN a.clocks[f] ELSE b.clocks[f]
    BY <1>4 DEF JoinedClocks, Later
  <2>2. /\ EditClock(a) \in 0 .. MaxStamps /\ EditClock(b) \in 0 .. MaxStamps
        /\ \A f \in Fields : a.clocks[f] <= EditClock(a) /\ b.clocks[f] <= EditClock(b)
    BY EditClockIs DEF Clocks
  <2>3. PICK f \in Fields : a.clocks[f] = EditClock(a)
    BY EditClockIs
  <2>4. PICK g \in Fields : b.clocks[g] = EditClock(b)
    BY EditClockIs
  <2>5. \A h \in Fields : v.clocks[h] <= Later(EditClock(a), EditClock(b))
    BY <1>1, <2>1, <2>2, FieldsExist DEF Later
  <2>6. CASE EditClock(a) >= EditClock(b)
    <3>1. v.clocks[f] = Later(EditClock(a), EditClock(b))
      BY <1>1, <2>1, <2>2, <2>3, <2>6, FieldsExist DEF Later
    <3> QED
      BY <1>2, <1>4, <2>5, <3>1, EditClockEq
  <2>7. CASE ~(EditClock(a) >= EditClock(b))
    <3>1. v.clocks[g] = Later(EditClock(a), EditClock(b))
      BY <1>1, <2>1, <2>2, <2>4, <2>7, FieldsExist DEF Later
    <3> QED
      BY <1>2, <1>4, <2>5, <3>1, EditClockEq
  <2> QED
    BY <2>6, <2>7
<1> QED
  BY <1>2, <1>3, <1>4

\* The winner of every field is the same on both sides: a tie is settled by the values.
LEMMA RowsJoin ==
  ASSUME NEW a \in Versions, NEW b \in Versions, a.row \in Rows, b.row \in Rows
  PROVE  JoinedRow(a, b) = JoinedRow(b, a) /\ JoinedRow(a, b) \in Rows
<1>1. \A f \in Fields : /\ a.clocks[f] \in 0 .. MaxStamps /\ b.clocks[f] \in 0 .. MaxStamps
                         /\ a.row[f] \in 0 .. MaxStamps /\ b.row[f] \in 0 .. MaxStamps
  BY DEF Versions, Clocks, Rows
<1>2. MaxStamps \in Nat
  BY FieldsExist
<1>3. ASSUME NEW f \in Fields
      PROVE  (IF RemoteHas(a, b, f) THEN b.row[f] ELSE a.row[f])
               = (IF RemoteHas(b, a, f) THEN a.row[f] ELSE b.row[f])
  <2>1. a.row[f] # b.row[f] => TieRank(f, a.row[f]) # TieRank(f, b.row[f])
    BY <1>1, <1>2 DEF TieRank, Absent
  <2>2. TieRank(f, a.row[f]) \in Nat /\ TieRank(f, b.row[f]) \in Nat
    BY <1>1, <1>2 DEF TieRank, Absent
  <2>3. ~Holds(a, f) /\ ~Holds(b, f) => a.row[f] = b.row[f]
    BY DEF Holds
  <2> QED
    BY <1>1, <1>2, <2>1, <2>2, <2>3 DEF RemoteHas
<1>4. JoinedRow(a, b) = JoinedRow(b, a)
  BY <1>3 DEF JoinedRow
<1>5. JoinedRow(a, b) \in [Fields -> 0 .. MaxStamps]
  BY <1>1 DEF JoinedRow
<1>6. \A f \in Scalars : JoinedRow(a, b)[f] # Absent
  BY FieldsExist DEF JoinedRow, Rows
<1> QED
  BY <1>4, <1>5, <1>6 DEF Rows

\* The later of two clocks, whichever comes first.
LEMMA LaterIs ==
  ASSUME NEW x \in Clocks, NEW y \in Clocks
  PROVE  /\ Later(x, y) \in Clocks /\ Later(x, y) = Later(y, x)
         /\ Later(x, y) >= x /\ Later(x, y) >= y
         /\ Later(x, y) = x \/ Later(x, y) = y
BY FieldsExist DEF Later, Clocks

\* What is well-formed, field by field.
LEMMA Parts ==
  ASSUME NEW v, WellFormed(v)
  PROVE  /\ v \in Versions /\ v.clocks \in [Fields -> Clocks] /\ v.deletedAt \in Clocks
         /\ v.valued \in BOOLEAN /\ EditClock(v) \in Clocks
         /\ v.valued => v.row \in Rows
         /\ ~v.valued => v.row = NoRow
BY EditClockIs DEF WellFormed, Versions

\* Nothing is well-formed, and its newest edit is none.
LEMMA NothingIs == WellFormed(NoVersion) /\ EditClock(NoVersion) = 0
<1>1. /\ NoVersion.clocks = [f \in Fields |-> Never] /\ NoVersion.row = NoRow
      /\ NoVersion.valued = FALSE /\ NoVersion.deletedAt = 0
  BY DEF NoVersion, Never
<1>2. NoVersion.clocks \in [Fields -> Clocks]
  BY <1>1, FieldsExist DEF Clocks, Never
<1>3. EditClock(NoVersion) = 0
  BY <1>1, <1>2, FieldsExist, EditClockEq DEF Never
<1>4. NoVersion \in Versions
  BY <1>2, FieldsExist DEF NoVersion, Versions, Clocks, Never
<1> QED
  BY <1>1, <1>3, <1>4, FieldsExist DEF WellFormed, Dead, Never

\* The clocks a delete leaves on a survivor's absent members are older than its edit.
LEMMA RemovalsKeep ==
  ASSUME NEW v, NEW t, WellFormed(v), WellFormed(t), Live(v), Dead(t), ~Deleted(v, t)
  PROVE  /\ WithRemovals(v, t) \in Versions
         /\ WithRemovals(v, t).row = v.row /\ WithRemovals(v, t).valued
         /\ WithRemovals(v, t).deletedAt = Never
         /\ EditClock(WithRemovals(v, t)) = EditClock(v)
         /\ EditClock(v) > EditClock(t) /\ EditClock(v) >= t.deletedAt
<1> DEFINE w == WithRemovals(v, t)
<1>1. /\ v.clocks \in [Fields -> Clocks] /\ v \in Versions /\ t.clocks \in [Fields -> Clocks]
      /\ v.deletedAt = Never /\ v.valued = TRUE
  BY Parts DEF Live, Dead
<1>2. /\ EditClock(v) \in 0 .. MaxStamps /\ EditClock(t) \in 0 .. MaxStamps
      /\ t.deletedAt \in 0 .. MaxStamps /\ MaxStamps \in Nat /\ v.deletedAt = 0
  BY <1>1, Parts, FieldsExist DEF Clocks, Never
<1>3. EditClock(v) >= t.deletedAt /\ EditClock(v) > EditClock(t)
  BY <1>2 DEF WellFormed, Deleted, LatestDelete, Later, Dead
<1>4. /\ w.row = v.row /\ w.valued = TRUE /\ w.deletedAt = Never
      /\ w.clocks = [f \in Fields |->
           IF f \in Members /\ t.clocks[f] # Never /\ v.row[f] = Absent
           THEN Later(v.clocks[f], t.deletedAt) ELSE v.clocks[f]]
  BY <1>1 DEF WithRemovals, Versions
<1>5. \A f \in Fields : w.clocks[f] = v.clocks[f] \/ w.clocks[f] = Later(v.clocks[f], t.deletedAt)
  BY <1>4
<1>6. \A f \in Fields : v.clocks[f] \in 0 .. MaxStamps /\ v.clocks[f] <= EditClock(v)
  BY <1>1, EditClockIs DEF Clocks
<1>7. \A f \in Fields : /\ w.clocks[f] \in 0 .. MaxStamps /\ w.clocks[f] <= EditClock(v)
                         /\ w.clocks[f] >= v.clocks[f]
  BY <1>2, <1>3, <1>5, <1>6 DEF Later
<1>8. w.clocks \in [Fields -> Clocks]
  BY <1>4, <1>7 DEF Clocks
<1>9. w \in Versions
  <2>1. v.row \in Rows \cup {NoRow} /\ w = [v EXCEPT !.clocks = w.clocks]
    BY <1>1, <1>4 DEF WithRemovals, Versions
  <2> HIDE DEF w
  <2> QED
    BY <1>1, <1>8, <2>1 DEF Versions
<1>10. PICK f \in Fields : v.clocks[f] = EditClock(v)
  BY <1>1, EditClockIs
<1>11. w.clocks[f] = EditClock(v)
  BY <1>2, <1>7, <1>10
<1> HIDE DEF w
<1>12. EditClock(w) = EditClock(v)
  BY <1>7, <1>8, <1>11, EditClockEq
<1> QED
  BY <1>3, <1>4, <1>9, <1>12 DEF w

\* Deciding that an entity is deleted does not depend on the side.
LEMMA DeletedBoth ==
  ASSUME NEW a, NEW b, WellFormed(a), WellFormed(b)
  PROVE  (Deleted(a, b) <=> Deleted(b, a)) /\ LatestDelete(a, b) = LatestDelete(b, a)
<1>1. /\ EditClock(a) \in Clocks /\ EditClock(b) \in Clocks
      /\ a.deletedAt \in Clocks /\ b.deletedAt \in Clocks
  BY Parts
<1> QED
  BY <1>1, LaterIs DEF Deleted, LatestDelete

\* An entity that is not deleted has a live side, or there is none at all.
LEMMA SomeoneLives ==
  ASSUME NEW a, NEW b, WellFormed(a), WellFormed(b), ~Deleted(a, b)
  PROVE  \/ Live(a) \/ Live(b)
         \/ a = NoVersion /\ b = NoVersion
<1>1. /\ EditClock(a) \in 0 .. MaxStamps /\ EditClock(b) \in 0 .. MaxStamps
      /\ a.deletedAt \in 0 .. MaxStamps /\ b.deletedAt \in 0 .. MaxStamps /\ MaxStamps \in Nat
  BY Parts, FieldsExist DEF Clocks
<1>2. EditClock(NoVersion) = 0 /\ NoVersion.deletedAt = 0
  BY NothingIs DEF NoVersion, Never
<1>3. ~Live(a) => a = NoVersion \/ a.deletedAt > EditClock(a)
  BY DEF WellFormed, Live, Dead
<1>4. ~Live(b) => b = NoVersion \/ b.deletedAt > EditClock(b)
  BY DEF WellFormed, Live, Dead
<1> QED
  BY <1>1, <1>2, <1>3, <1>4 DEF Deleted, LatestDelete, Later

\* A tombstone of two versions.
LEMMA TombstoneIs ==
  ASSUME NEW a, NEW b, WellFormed(a), WellFormed(b), Deleted(a, b)
  PROVE  /\ Tombstone(a, b) = Tombstone(b, a)
         /\ WellFormed(Tombstone(a, b)) /\ Dead(Tombstone(a, b))
         /\ EditClock(Tombstone(a, b)) = Later(EditClock(a), EditClock(b))
         /\ Tombstone(a, b).deletedAt = LatestDelete(a, b)
<1> DEFINE clocks == JoinedClocks(a, b)
           values == IF a.valued /\ b.valued THEN JoinedRow(a, b)
                     ELSE IF a.valued /\ Covers(a, clocks) THEN a.row
                     ELSE IF b.valued /\ Covers(b, clocks) THEN b.row
                     ELSE NoRow
           t == Tombstone(a, b)
<1>1. /\ clocks \in [Fields -> Clocks] /\ clocks = JoinedClocks(b, a)
      /\ \A v : v.clocks = clocks => EditClock(v) = Later(EditClock(a), EditClock(b))
  BY Parts, ClocksJoin
<1>2. a.valued \in BOOLEAN /\ b.valued \in BOOLEAN
  BY Parts
<1>3. a.valued /\ b.valued => JoinedRow(a, b) = JoinedRow(b, a) /\ JoinedRow(a, b) \in Rows
  BY Parts, RowsJoin
<1>4. values \in Rows \cup {NoRow}
  BY <1>3, Parts
<1>5. values = IF b.valued /\ a.valued THEN JoinedRow(b, a)
               ELSE IF b.valued /\ Covers(b, clocks) THEN b.row
               ELSE IF a.valued /\ Covers(a, clocks) THEN a.row
               ELSE NoRow
  BY <1>2, <1>3
<1>6. /\ t = [row |-> values, valued |-> values # NoRow, clocks |-> clocks,
              deletedAt |-> LatestDelete(a, b)]
      /\ Tombstone(b, a) = [row |-> values, valued |-> values # NoRow, clocks |-> clocks,
                            deletedAt |-> LatestDelete(b, a)]
  BY <1>1, <1>5 DEF Tombstone
<1>7. LatestDelete(a, b) = LatestDelete(b, a) /\ LatestDelete(a, b) \in Clocks
  BY Parts, DeletedBoth, LaterIs DEF LatestDelete
<1> HIDE DEF clocks, values
<1>8. t = Tombstone(b, a)
  BY <1>6, <1>7
<1>9. /\ t.row = values /\ t.valued = (values # NoRow) /\ t.clocks = clocks
      /\ t.deletedAt = LatestDelete(a, b)
  BY <1>6
<1>10. t \in Versions
  BY <1>1, <1>4, <1>6, <1>7 DEF Versions
<1>11. EditClock(t) = Later(EditClock(a), EditClock(b))
  BY <1>1, <1>9
<1>12. t.deletedAt > EditClock(t)
  BY <1>9, <1>11 DEF Deleted
<1>13. EditClock(t) \in 0 .. MaxStamps /\ MaxStamps \in Nat /\ t.deletedAt \in 0 .. MaxStamps
  BY <1>1, <1>7, <1>9, EditClockIs, FieldsExist DEF Clocks
<1>14. Dead(t)
  BY <1>12, <1>13 DEF Dead, Never
<1> HIDE DEF t
<1>15. WellFormed(t)
  BY <1>4, <1>9, <1>10, <1>12, <1>14, FieldsExist DEF WellFormed
<1> QED
  BY <1>8, <1>9, <1>11, <1>14, <1>15 DEF t

\* What a side brings to an entity that lives: its row, and the removals of the
\* tombstone it outlives.
Kept(v, other) == IF Dead(other) /\ Live(v) THEN WithRemovals(v, other) ELSE v

\* A tombstone it outlives changes neither a side's row nor its edit clock.
LEMMA KeptIs ==
  ASSUME NEW v, NEW t, WellFormed(v), WellFormed(t), ~Deleted(v, t)
  PROVE  /\ Kept(v, t) \in Versions
         /\ Kept(v, t).clocks \in [Fields -> Clocks]
         /\ Kept(v, t).row = v.row /\ (Kept(v, t).valued <=> v.valued)
         /\ Kept(v, t).deletedAt = v.deletedAt
         /\ EditClock(Kept(v, t)) = EditClock(v)
<1>1. CASE Dead(t) /\ Live(v)
  <2>1. /\ WithRemovals(v, t) \in Versions
        /\ WithRemovals(v, t).row = v.row /\ WithRemovals(v, t).valued
        /\ WithRemovals(v, t).deletedAt = Never
        /\ EditClock(WithRemovals(v, t)) = EditClock(v)
    BY <1>1, RemovalsKeep
  <2>2. Kept(v, t) = WithRemovals(v, t) /\ v.deletedAt = Never /\ v.valued
    BY <1>1 DEF Kept, Live, Dead
  <2>3. Kept(v, t).clocks \in [Fields -> Clocks]
    BY <2>1, <2>2 DEF Versions
  <2> QED
    BY <2>1, <2>2, <2>3
<1>2. CASE ~(Dead(t) /\ Live(v))
  BY <1>2, Parts DEF Kept
<1> QED
  BY <1>1, <1>2

\* A version that lives on: one side's, or both sides' fields.
LEMMA SurvivorIs ==
  ASSUME NEW a, NEW b, WellFormed(a), WellFormed(b), ~Deleted(a, b)
  PROVE  /\ Survivor(a, b) = Survivor(b, a)
         /\ WellFormed(Survivor(a, b))
         /\ EditClock(Survivor(a, b)) = Later(EditClock(a), EditClock(b))
         /\ \/ Survivor(a, b) = NoVersion /\ a = NoVersion /\ b = NoVersion
            \/ Live(Survivor(a, b)) /\ (Live(a) \/ Live(b))
<1> DEFINE l == Kept(a, b)
           r == Kept(b, a)
<1>1. /\ l \in Versions /\ l.row = a.row /\ (l.valued <=> a.valued) /\ l.deletedAt = a.deletedAt
      /\ EditClock(l) = EditClock(a) /\ l.clocks \in [Fields -> Clocks]
  BY KeptIs
<1>2. ~Deleted(b, a)
  BY DeletedBoth
<1>3. /\ r \in Versions /\ r.row = b.row /\ (r.valued <=> b.valued) /\ r.deletedAt = b.deletedAt
      /\ EditClock(r) = EditClock(b) /\ r.clocks \in [Fields -> Clocks]
  BY <1>2, KeptIs
<1>4. /\ Survivor(a, b) = IF ~b.valued THEN l ELSE IF ~a.valued THEN r ELSE Joined(l, r)
      /\ Survivor(b, a) = IF ~a.valued THEN r ELSE IF ~b.valued THEN l ELSE Joined(r, l)
  BY DEF Survivor, Kept
<1>5. Live(a) \/ Live(b) \/ (a = NoVersion /\ b = NoVersion)
  BY SomeoneLives
<1>6. /\ EditClock(a) \in 0 .. MaxStamps /\ EditClock(b) \in 0 .. MaxStamps /\ MaxStamps \in Nat
      /\ a.deletedAt \in 0 .. MaxStamps /\ b.deletedAt \in 0 .. MaxStamps
  BY Parts, FieldsExist DEF Clocks
<1>7. CASE a = NoVersion /\ b = NoVersion
  <2>1. ~NoVersion.valued /\ ~Live(NoVersion)
    BY DEF NoVersion, Live
  <2>2. Survivor(a, b) = NoVersion /\ Survivor(b, a) = NoVersion
    BY <1>4, <1>7, <2>1 DEF Kept
  <2> QED
    BY <1>7, <2>2, NothingIs DEF Later
<1>8. CASE Live(a) /\ ~b.valued
  <2>1. Survivor(a, b) = l /\ Survivor(b, a) = l
    BY <1>4, <1>8 DEF Live
  <2>2. /\ a.valued /\ a.row \in Rows /\ a.deletedAt = 0
    BY <1>8, Parts DEF Live, Dead, Never
  <2>3. EditClock(a) >= EditClock(b)
    <3>1. CASE Dead(b)
      <4>1. EditClock(a) > EditClock(b)
        BY <1>8, <3>1, RemovalsKeep
      <4> QED
        BY <1>6, <4>1
    <3>2. CASE ~Dead(b)
      <4>1. b = NoVersion
        BY <1>8, <3>2 DEF WellFormed
      <4> QED
        BY <1>6, <4>1, NothingIs
    <3> QED
      BY <3>1, <3>2
  <2>4. EditClock(l) = Later(EditClock(a), EditClock(b))
    BY <1>1, <2>3 DEF Later
  <2>5. Live(l)
    BY <1>1, <2>2 DEF Live, Dead, Never
  <2>6. WellFormed(l)
    BY <1>1, <2>2, <2>5, FieldsExist DEF WellFormed, Live
  <2> HIDE DEF l, r
  <2> QED
    BY <1>8, <2>1, <2>4, <2>5, <2>6
<1>9. CASE Live(b) /\ ~a.valued
  <2>1. Survivor(a, b) = r /\ Survivor(b, a) = r
    BY <1>4, <1>9 DEF Live
  <2>2. /\ b.valued /\ b.row \in Rows /\ b.deletedAt = 0
    BY <1>9, Parts DEF Live, Dead, Never
  <2>3. EditClock(b) >= EditClock(a)
    <3>1. CASE Dead(a)
      <4>1. EditClock(b) > EditClock(a)
        BY <1>2, <1>9, <3>1, RemovalsKeep
      <4> QED
        BY <1>6, <4>1
    <3>2. CASE ~Dead(a)
      <4>1. a = NoVersion
        BY <1>9, <3>2 DEF WellFormed
      <4> QED
        BY <1>6, <4>1, NothingIs
    <3> QED
      BY <3>1, <3>2
  <2>4. EditClock(r) = Later(EditClock(a), EditClock(b))
    BY <1>3, <1>6, <2>3 DEF Later
  <2>5. Live(r)
    BY <1>3, <2>2 DEF Live, Dead, Never
  <2>6. WellFormed(r)
    BY <1>3, <2>2, <2>5, FieldsExist DEF WellFormed, Live
  <2> HIDE DEF l, r
  <2> QED
    BY <1>9, <2>1, <2>4, <2>5, <2>6
<1>10. CASE a.valued /\ b.valued
  <2>1. Survivor(a, b) = Joined(l, r) /\ Survivor(b, a) = Joined(r, l)
    BY <1>4, <1>10
  <2>2. l.row \in Rows /\ r.row \in Rows
    BY <1>1, <1>3, <1>10, Parts
  <2> HIDE DEF l, r
  <2>3. JoinedRow(l, r) = JoinedRow(r, l) /\ JoinedRow(l, r) \in Rows
    BY <1>1, <1>3, <2>2, RowsJoin
  <2>4. /\ JoinedClocks(l, r) \in [Fields -> Clocks]
        /\ JoinedClocks(l, r) = JoinedClocks(r, l)
        /\ \A v : v.clocks = JoinedClocks(l, r) => EditClock(v) = Later(EditClock(a), EditClock(b))
    BY <1>1, <1>3, ClocksJoin
  <2> DEFINE j == Joined(l, r)
  <2>5. /\ j = Joined(r, l)
        /\ j = [row |-> JoinedRow(l, r), valued |-> TRUE,
                clocks |-> JoinedClocks(l, r), deletedAt |-> Never]
    BY <2>3, <2>4 DEF Joined
  <2>6. Never \in Clocks
    BY FieldsExist DEF Never, Clocks
  <2>7. j \in Versions /\ j.row \in Rows /\ j.valued /\ ~Dead(j) /\ j.clocks = JoinedClocks(l, r)
    BY <2>3, <2>4, <2>5, <2>6 DEF Versions, Dead
  <2>8. EditClock(j) = Later(EditClock(a), EditClock(b))
    BY <2>4, <2>7
  <2>9. WellFormed(j) /\ Live(j)
    BY <2>7, FieldsExist DEF WellFormed, Live
  <2>10. Live(a) \/ Live(b)
    <3>1. ~NoVersion.valued
      BY DEF NoVersion
    <3> QED
      BY <1>5, <1>10, <3>1
  <2> HIDE DEF j
  <2> QED
    BY <2>1, <2>5, <2>8, <2>9, <2>10 DEF j
<1>11. /\ Live(a) => a.valued
       /\ Live(b) => b.valued
       /\ a.valued \in BOOLEAN /\ b.valued \in BOOLEAN
  BY Parts DEF Live
<1> HIDE DEF l, r
<1> QED
  BY <1>5, <1>7, <1>8, <1>9, <1>10, <1>11

\* Merging gives the same well-formed version on both sides.  Its newest edit is the
\* newest of both; it is a tombstone exactly when the latest delete is later, and
\* nothing only of nothing (merge-entity.ts, mergeFieldClockEntity).
LEMMA MergeIs ==
  ASSUME NEW a, NEW b, WellFormed(a), WellFormed(b)
  PROVE  /\ Merge(a, b) = Merge(b, a)
         /\ WellFormed(Merge(a, b))
         /\ EditClock(Merge(a, b)) = Later(EditClock(a), EditClock(b))
         /\ Deleted(a, b) => Dead(Merge(a, b)) /\ Merge(a, b).deletedAt = LatestDelete(a, b)
         /\ ~Deleted(a, b) =>
              \/ Live(Merge(a, b)) /\ (Live(a) \/ Live(b))
              \/ Merge(a, b) = NoVersion /\ a = NoVersion /\ b = NoVersion
<1>1. CASE Deleted(a, b)
  <2>1. Merge(a, b) = Tombstone(a, b) /\ Merge(b, a) = Tombstone(b, a)
    BY <1>1, DeletedBoth DEF Merge
  <2> QED
    BY <1>1, <2>1, TombstoneIs
<1>2. CASE ~Deleted(a, b)
  <2>1. Merge(a, b) = Survivor(a, b) /\ Merge(b, a) = Survivor(b, a)
    BY <1>2, DeletedBoth DEF Merge
  <2> QED
    BY <1>2, <2>1, SurvivorIs
<1> QED
  BY <1>1, <1>2

----------------------------------------------------------------------------
(* Merging again                                                           *)

\* A winner of the fields of l and r wins again against what r was, whatever clocks
\* it has got since.
LEMMA JoinAgain ==
  ASSUME NEW l \in Versions, NEW r \in Versions, NEW x \in Versions, NEW y \in Versions,
         l.row \in Rows, r.row \in Rows, x.row = JoinedRow(l, r), y.row = r.row,
         \A f \in Fields : /\ x.clocks[f] >= l.clocks[f] /\ x.clocks[f] >= r.clocks[f]
                            /\ r.clocks[f] >= y.clocks[f]
  PROVE  JoinedRow(x, y) = x.row
<1>1. MaxStamps \in Nat
  BY FieldsExist
<1>2. \A f \in Fields : /\ l.clocks[f] \in 0 .. MaxStamps /\ r.clocks[f] \in 0 .. MaxStamps
                         /\ x.clocks[f] \in 0 .. MaxStamps /\ y.clocks[f] \in 0 .. MaxStamps
                         /\ l.row[f] \in 0 .. MaxStamps /\ r.row[f] \in 0 .. MaxStamps
  BY DEF Versions, Clocks, Rows
<1>2a. PICK won : won = {f \in Fields : RemoteHas(l, r, f)}
  OBVIOUS
<1>2b. PICK row : row = [f \in Fields |-> IF f \in won THEN r.row[f] ELSE l.row[f]]
  OBVIOUS
<1>2c. row = JoinedRow(l, r)
  BY <1>2a, <1>2b DEF JoinedRow
<1>2d. x.row = row
  BY <1>2c
<1>3. /\ \A f \in won : x.row[f] = y.row[f]
      /\ \A f \in Fields \ won : x.row[f] = l.row[f]
      /\ \A f \in Fields : y.row[f] = r.row[f]
  BY <1>2a, <1>2b, <1>2d
<1>4. ASSUME NEW f \in Fields, RemoteHas(x, y, f)
      PROVE  y.row[f] = x.row[f]
  <2>1. TieRank(f, l.row[f]) \in Nat /\ TieRank(f, r.row[f]) \in Nat
    BY <1>1, <1>2 DEF TieRank, Absent
  <2>2. Holds(y, f)
    BY <1>4 DEF RemoteHas
  <2>3. Holds(r, f)
    BY <1>1, <1>2, <1>3, <2>2 DEF Holds, Never
  <2>4. CASE f \in won
    BY <1>3, <2>4
  <2>5. CASE f \notin won
    <3>1. /\ Holds(l, f) /\ ~(r.clocks[f] > l.clocks[f])
          /\ r.clocks[f] = l.clocks[f] => ~(TieRank(f, r.row[f]) < TieRank(f, l.row[f]))
      BY <1>2a, <2>3, <2>5 DEF RemoteHas
    <3>2. x.row[f] = l.row[f]
      BY <1>3, <2>5
    <3>3. Holds(x, f)
      BY <1>1, <1>2, <3>1, <3>2 DEF Holds, Never
    <3>4. y.clocks[f] = x.clocks[f] /\ TieRank(f, r.row[f]) < TieRank(f, l.row[f])
      <4>1. ~(y.clocks[f] > x.clocks[f])
        <5>1. x.clocks[f] >= r.clocks[f] /\ r.clocks[f] >= y.clocks[f]
          OBVIOUS
        <5> QED
          BY <1>1, <1>2, <5>1
      <4>2. y.clocks[f] = x.clocks[f] /\ TieRank(f, y.row[f]) < TieRank(f, x.row[f])
        BY <1>4, <3>3, <4>1 DEF RemoteHas
      <4> QED
        BY <1>3, <3>2, <4>2
    <3>5. r.clocks[f] = l.clocks[f]
      BY <1>1, <1>2, <3>1, <3>4
    <3> QED
      BY <3>1, <3>4, <3>5
  <2> QED
    BY <2>4, <2>5
<1>5. x.row = [f \in Fields |-> x.row[f]]
  <2>1. row = [f \in Fields |-> row[f]]
    BY <1>2b
  <2> QED
    BY <1>2d, <2>1
<1>6. \A f \in Fields : (IF RemoteHas(x, y, f) THEN y.row[f] ELSE x.row[f]) = x.row[f]
  BY <1>4
<1>7. JoinedRow(x, y) = [f \in Fields |-> IF RemoteHas(x, y, f) THEN y.row[f] ELSE x.row[f]]
  BY DEF JoinedRow
<1>8. JoinedRow(x, y) = [f \in Fields |-> x.row[f]]
  BY <1>6, <1>7
<1> QED
  BY <1>5, <1>8

\* The removals of a tombstone only raise clocks.
LEMMA KeptGrows ==
  ASSUME NEW v, NEW t, WellFormed(v), WellFormed(t)
  PROVE  \A f \in Fields : Kept(v, t).clocks[f] >= v.clocks[f]
<1>1. /\ v \in Versions /\ MaxStamps \in Nat /\ t.deletedAt \in 0 .. MaxStamps
      /\ \A f \in Fields : v.clocks[f] \in 0 .. MaxStamps
  BY Parts, FieldsExist DEF Clocks
<1>2. CASE Dead(t) /\ Live(v)
  <2>1. Kept(v, t) = WithRemovals(v, t)
    BY <1>2 DEF Kept
  <2>2. WithRemovals(v, t).clocks = [f \in Fields |->
           IF f \in Members /\ t.clocks[f] # Never /\ v.row[f] = Absent
           THEN Later(v.clocks[f], t.deletedAt) ELSE v.clocks[f]]
    BY <1>1 DEF WithRemovals, Versions
  <2> QED
    BY <1>1, <2>1, <2>2 DEF Later
<1>3. CASE ~(Dead(t) /\ Live(v))
  <2>1. Kept(v, t) = v
    BY <1>3 DEF Kept
  <2> QED
    BY <1>1, <2>1
<1> QED
  BY <1>2, <1>3

\* A tombstone of two versions has what either of them could add.
LEMMA TombstoneAgain ==
  ASSUME NEW a, NEW b, WellFormed(a), WellFormed(b), Deleted(a, b)
  PROVE  Merge(Tombstone(a, b), b) = Tombstone(a, b)
<1>1. PICK m : m = Tombstone(a, b)
  OBVIOUS
<1>2. PICK clocks : clocks = JoinedClocks(a, b)
  OBVIOUS
<1>3. /\ WellFormed(m) /\ EditClock(m) = Later(EditClock(a), EditClock(b))
      /\ m.deletedAt = LatestDelete(a, b) /\ m.clocks = clocks
      /\ m.valued = (m.row # NoRow)
      /\ m = [row |-> m.row, valued |-> m.row # NoRow, clocks |-> clocks,
              deletedAt |-> LatestDelete(a, b)]
      /\ m.row = IF a.valued /\ b.valued THEN JoinedRow(a, b)
                 ELSE IF a.valued /\ Covers(a, clocks) THEN a.row
                 ELSE IF b.valued /\ Covers(b, clocks) THEN b.row
                 ELSE NoRow
  BY <1>1, <1>2, TombstoneIs DEF Tombstone
<1>4. /\ EditClock(a) \in 0 .. MaxStamps /\ EditClock(b) \in 0 .. MaxStamps /\ MaxStamps \in Nat
      /\ a.deletedAt \in 0 .. MaxStamps /\ b.deletedAt \in 0 .. MaxStamps
      /\ a.valued \in BOOLEAN /\ b.valued \in BOOLEAN
  BY Parts, FieldsExist DEF Clocks
<1>5. \A f \in Fields : /\ a.clocks[f] \in 0 .. MaxStamps /\ b.clocks[f] \in 0 .. MaxStamps
                         /\ clocks[f] = Later(a.clocks[f], b.clocks[f])
  BY <1>2, Parts DEF JoinedClocks, Clocks
<1>6. LatestDelete(m, b) = LatestDelete(a, b) /\ Later(EditClock(m), EditClock(b)) = EditClock(m)
  BY <1>3, <1>4 DEF LatestDelete, Later
<1>7. Deleted(m, b)
  BY <1>3, <1>6 DEF Deleted
<1>8. JoinedClocks(m, b) = clocks
  <2>1. \A f \in Fields : Later(clocks[f], b.clocks[f]) = clocks[f]
    BY <1>4, <1>5 DEF Later
  <2>2. clocks = [f \in Fields |-> clocks[f]]
    BY <1>2 DEF JoinedClocks
  <2> QED
    BY <1>3, <2>1, <2>2 DEF JoinedClocks
<1>9. Covers(m, clocks)
  BY <1>3, <1>4, <1>5 DEF Covers, Later
<1>10. m.row = IF m.valued /\ b.valued THEN JoinedRow(m, b)
               ELSE IF m.valued /\ Covers(m, clocks) THEN m.row
               ELSE IF b.valued /\ Covers(b, clocks) THEN b.row
               ELSE NoRow
  <2>1. CASE m.valued /\ b.valued /\ a.valued
    <3>1. a \in Versions /\ b \in Versions /\ m \in Versions /\ a.row \in Rows /\ b.row \in Rows
      BY <1>3, <2>1, Parts
    <3>2. m.row = JoinedRow(a, b)
      BY <1>3, <2>1
    <3>3. \A f \in Fields : /\ m.clocks[f] >= a.clocks[f] /\ m.clocks[f] >= b.clocks[f]
                             /\ b.clocks[f] >= b.clocks[f]
      BY <1>3, <1>4, <1>5 DEF Later
    <3>4. JoinedRow(m, b) = m.row
      BY <3>1, <3>2, <3>3, JoinAgain
    <3> QED
      BY <2>1, <3>4
  <2>2. CASE m.valued /\ b.valued /\ ~a.valued
    <3>1. m.row = b.row /\ m.row \in Rows
      BY <1>3, <2>2, Parts
    <3>2. JoinedRow(m, b) = m.row
      BY <3>1 DEF JoinedRow, Rows
    <3> QED
      BY <2>2, <3>2
  <2>3. CASE m.valued /\ ~b.valued
    BY <1>9, <2>3
  <2>4. CASE ~m.valued
    <3>1. m.row = NoRow
      BY <1>3, <2>4
    <3>2. b.valued => ~Covers(b, clocks) \/ a.valued
      BY <1>3, <3>1, FieldsExist, Parts
    <3>3. ~(a.valued /\ b.valued)
      BY <1>3, <3>1, FieldsExist, Parts, RowsJoin
    <3> QED
      BY <2>4, <3>1, <3>2, <3>3
  <2> QED
    BY <1>4, <2>1, <2>2, <2>3, <2>4
<1>11. Merge(m, b) = Tombstone(m, b)
  BY <1>7 DEF Merge
<1>12. Tombstone(m, b) = [row |-> m.row, valued |-> m.row # NoRow, clocks |-> clocks,
                          deletedAt |-> LatestDelete(a, b)]
  BY <1>6, <1>8, <1>10 DEF Tombstone
<1> QED
  BY <1>1, <1>3, <1>11, <1>12

\* What survived a merge has the values of either side that count.
LEMMA SurvivorAgain ==
  ASSUME NEW a, NEW b, WellFormed(a), WellFormed(b), ~Deleted(a, b)
  PROVE  Merge(Merge(a, b), b).row = Merge(a, b).row
<1>1. PICK m : m = Merge(a, b)
  OBVIOUS
<1>2. WellFormed(m) /\ EditClock(m) = Later(EditClock(a), EditClock(b))
  BY <1>1, MergeIs
<1>3. Live(m) \/ (m = NoVersion /\ b = NoVersion)
  BY <1>1, MergeIs
<1>4. /\ EditClock(a) \in 0 .. MaxStamps /\ EditClock(b) \in 0 .. MaxStamps /\ MaxStamps \in Nat
      /\ a.deletedAt \in 0 .. MaxStamps /\ b.deletedAt \in 0 .. MaxStamps
  BY Parts, FieldsExist DEF Clocks
<1>5. CASE m = NoVersion /\ b = NoVersion
  <2>1. m.deletedAt = 0 /\ EditClock(m) = 0
    BY <1>5, NothingIs DEF NoVersion, Never
  <2>2. ~Deleted(m, b)
    BY <1>5, <2>1 DEF Deleted, LatestDelete, Later
  <2>3. ~Live(m) /\ ~Live(b)
    BY <1>5 DEF Live, NoVersion
  <2>4. Merge(m, b) = NoVersion
    BY <1>2, <1>5, <2>2, <2>3, MergeIs, NothingIs
  <2> QED
    BY <1>1, <1>5, <2>4
<1>6. CASE Live(m)
  <2>1. m.deletedAt = 0 /\ m.valued /\ m.row \in Rows /\ m \in Versions
    BY <1>2, <1>6, Parts DEF Live, Dead, Never
  <2>2. ~Deleted(m, b)
    BY <1>2, <1>4, <2>1 DEF Deleted, LatestDelete, Later
  <2>3. PICK x : x = Kept(m, b)
    OBVIOUS
  <2>4. x \in Versions /\ x.row = m.row /\ \A f \in Fields : x.clocks[f] >= m.clocks[f]
    BY <1>2, <2>2, <2>3, KeptIs, KeptGrows
  <2>5. Merge(m, b) = IF ~b.valued THEN x ELSE Joined(x, b)
    BY <1>6, <2>1, <2>2, <2>3 DEF Merge, Survivor, Kept, Live, Dead, Never
  <2>6. CASE ~b.valued
    BY <1>1, <2>4, <2>5, <2>6
  <2>7. CASE b.valued
    <3>1. PICK l : l = Kept(a, b)
      OBVIOUS
    <3>2. PICK r : r = Kept(b, a)
      OBVIOUS
    <3>3. m = IF ~a.valued THEN r ELSE Joined(l, r)
      BY <1>1, <2>7, <3>1, <3>2 DEF Merge, Survivor, Kept
    <3>4. /\ l \in Versions /\ l.row = a.row
          /\ r \in Versions /\ r.row = b.row
      BY <3>1, <3>2, DeletedBoth, KeptIs
    <3>5. \A f \in Fields : r.clocks[f] >= b.clocks[f]
      BY <3>2, KeptGrows
    <3>6. b \in Versions /\ b.row \in Rows
      BY <2>7, Parts
    <3>7. JoinedRow(x, b) = m.row
      <4>1. CASE ~a.valued
        <5>1. x.row = b.row
          BY <2>4, <3>3, <3>4, <4>1
        <5>2. JoinedRow(x, b) = x.row
          BY <3>6, <5>1 DEF JoinedRow, Rows
        <5> QED
          BY <2>4, <5>2
      <4>2. CASE a.valued
        <5>1. m.row = JoinedRow(l, r) /\ m.clocks = JoinedClocks(l, r)
          BY <3>3, <4>2 DEF Joined
        <5>2. l.row \in Rows /\ r.row \in Rows
          BY <3>4, <3>6, <4>2, Parts
        <5>3. \A f \in Fields : /\ x.clocks[f] >= l.clocks[f] /\ x.clocks[f] >= r.clocks[f]
                                 /\ r.clocks[f] >= b.clocks[f]
          <6>1. \A f \in Fields : /\ l.clocks[f] \in 0 .. MaxStamps /\ r.clocks[f] \in 0 .. MaxStamps
                                   /\ x.clocks[f] \in 0 .. MaxStamps
            BY <2>4, <3>4 DEF Versions, Clocks
          <6>2. \A f \in Fields : m.clocks[f] = Later(l.clocks[f], r.clocks[f])
            BY <5>1 DEF JoinedClocks
          <6> QED
            BY <1>4, <2>4, <3>5, <6>1, <6>2 DEF Later
        <5> QED
          BY <2>4, <3>4, <3>6, <5>1, <5>2, <5>3, JoinAgain
      <4> QED
        BY <4>1, <4>2
    <3> QED
      BY <1>1, <2>5, <2>7, <3>7 DEF Joined
  <2> QED
    BY <2>6, <2>7
<1> QED
  BY <1>3, <1>5, <1>6

\* Merging what was merged already changes no row, and nothing of a tombstone.
LEMMA MergeAgain ==
  ASSUME NEW a, NEW b, WellFormed(a), WellFormed(b)
  PROVE  /\ Merge(Merge(a, b), b).row = Merge(a, b).row
         /\ Dead(Merge(a, b)) => Merge(Merge(a, b), b) = Merge(a, b)
<1>1. CASE Deleted(a, b)
  <2>1. Merge(a, b) = Tombstone(a, b)
    BY <1>1 DEF Merge
  <2> QED
    BY <1>1, <2>1, TombstoneAgain
<1>2. CASE ~Deleted(a, b)
  <2>1. ~Dead(Merge(a, b))
    BY <1>2, MergeIs DEF Live, Dead, NoVersion
  <2> QED
    BY <1>2, <2>1, SurvivorAgain
<1> QED
  BY <1>1, <1>2

----------------------------------------------------------------------------
(* What a device has merged, and what its version says                     *)

\* The newest of some stamps, or none.
NewestOf(S) == Max({0} \cup S)

\* The newest stamp is one of them, or none.
LEMMA NewestOfIs ==
  ASSUME NEW S \in SUBSET Stamps
  PROVE  /\ NewestOf(S) \in Clocks
         /\ \A y \in S : NewestOf(S) >= y
         /\ NewestOf(S) # 0 => NewestOf(S) \in S
<1>1. {0} \cup S \in SUBSET Clocks /\ {0} \cup S # {}
  BY FieldsExist DEF Clocks, Stamps
<1>2. Max({0} \cup S) \in {0} \cup S /\ \A y \in {0} \cup S : Max({0} \cup S) >= y
  BY <1>1, NewestIs
<1> QED
  BY <1>1, <1>2 DEF NewestOf

\* No stamps have no newest one.
LEMMA NewestOfNone == NewestOf({}) = 0
<1>1. {0} \in SUBSET Clocks /\ 0 \in {0} /\ \A y \in {0} : 0 >= y
  BY FieldsExist DEF Clocks
<1>2. Max({0}) = 0
  BY <1>1, NewestEq
<1> QED
  BY <1>2 DEF NewestOf

\* A stamp that no other exceeds is the newest.
LEMMA NewestOfEq ==
  ASSUME NEW S \in SUBSET Stamps, NEW c \in S, \A y \in S : c >= y
  PROVE  NewestOf(S) = c
<1>1. NewestOf(S) \in Clocks /\ NewestOf(S) >= c /\ c \in 1 .. MaxStamps
  BY NewestOfIs DEF Stamps
<1>2. NewestOf(S) \in S
  BY <1>1, NewestOfIs, FieldsExist DEF Clocks
<1>3. c >= NewestOf(S)
  BY <1>2
<1> QED
  BY <1>1, <1>3, FieldsExist DEF Clocks

\* The newest of two sets is the later of their newest.
LEMMA NewestOfBoth ==
  ASSUME NEW A \in SUBSET Stamps, NEW B \in SUBSET Stamps
  PROVE  NewestOf(A \cup B) = Later(NewestOf(A), NewestOf(B))
<1>1. /\ NewestOf(A) \in 0 .. MaxStamps /\ NewestOf(B) \in 0 .. MaxStamps
      /\ NewestOf(A \cup B) \in 0 .. MaxStamps /\ MaxStamps \in Nat
  BY NewestOfIs, FieldsExist DEF Clocks
<1>2. \A y \in A : NewestOf(A \cup B) >= y /\ NewestOf(A) >= y
  BY NewestOfIs
<1>3. \A y \in B : NewestOf(A \cup B) >= y /\ NewestOf(B) >= y
  BY NewestOfIs
<1>4. NewestOf(A) # 0 => NewestOf(A) \in A
  BY NewestOfIs
<1>5. NewestOf(B) # 0 => NewestOf(B) \in B
  BY NewestOfIs
<1>6. NewestOf(A \cup B) # 0 => NewestOf(A \cup B) \in A \cup B
  BY NewestOfIs
<1>7. NewestOf(A \cup B) >= NewestOf(A) /\ NewestOf(A \cup B) >= NewestOf(B)
  BY <1>1, <1>2, <1>3, <1>4, <1>5
<1>8. NewestOf(A) >= NewestOf(A \cup B) \/ NewestOf(B) >= NewestOf(A \cup B)
  BY <1>1, <1>2, <1>3, <1>6
<1> QED
  BY <1>1, <1>7, <1>8 DEF Later

\* The newest edit and the newest delete of some stamps.
EditedLast(S) == NewestOf(S \ deletes)
DeletedLast(S) == NewestOf(S \cap deletes)

\* What version v says of the stamps S that are merged into it: the newest edit is its
\* newest clock, a tombstone is the newest delete, and what lives was edited later.
Says(v, S) ==
  /\ WellFormed(v)
  /\ v = NoVersion <=> S = {}
  /\ EditClock(v) = EditedLast(S)
  /\ Dead(v) => v.deletedAt = DeletedLast(S)
  /\ Live(v) => EditedLast(S) > DeletedLast(S)

FInv ==
  /\ now \in Clocks
  /\ DOMAIN version = Devices /\ version = [d \in Devices |-> version[d]]
  /\ seen \in [Devices -> SUBSET (1 .. now)]
  /\ deletes \subseteq 1 .. now
  /\ \A d \in Devices : Says(version[d], seen[d])

\* Nobody has anything, and nothing is what no stamps say.
LEMMA FInit == Init => FInv
<1> SUFFICES ASSUME Init PROVE FInv
  OBVIOUS
<1>1. /\ version = [d \in Devices |-> NoVersion] /\ now = 0 /\ deletes = {}
      /\ seen = [d \in Devices |-> {}]
  BY DEF Init
<1>2. now \in Clocks
  BY <1>1, FieldsExist DEF Clocks
<1>3. EditedLast({}) = 0
  BY NewestOfNone DEF EditedLast
<1>4. ~Live(NoVersion) /\ ~Dead(NoVersion)
  BY DEF Live, Dead, NoVersion
<1>5. Says(NoVersion, {})
  BY <1>3, <1>4, NothingIs DEF Says
<1> QED
  BY <1>1, <1>2, <1>5 DEF FInv

\* A device stamps a transaction: new stamps C, of which D are deletes, and a new
\* version that says them.
LEMMA StampStep ==
  ASSUME FInv, NEW d \in Devices, NEW w, NEW C \in SUBSET (now + 1 .. now'), NEW D \in SUBSET C,
         now' \in Clocks, now' >= now,
         version' = [version EXCEPT ![d] = w],
         seen' = [seen EXCEPT ![d] = @ \cup C],
         deletes' = deletes \cup D,
         Says(w, seen[d])'
  PROVE  FInv'
<1>1. now \in 0 .. MaxStamps /\ now' \in 0 .. MaxStamps /\ MaxStamps \in Nat
  BY FieldsExist DEF FInv, Clocks
<1>2. C \subseteq 1 .. now' /\ D \subseteq 1 .. now' /\ 1 .. now \subseteq 1 .. now'
  BY <1>1
<1>3. seen' \in [Devices -> SUBSET (1 .. now')] /\ deletes' \subseteq 1 .. now'
  BY <1>2 DEF FInv
<1>4. DOMAIN version' = Devices /\ version' = [e \in Devices |-> version'[e]]
  BY DEF FInv
<1>5. ASSUME NEW e \in Devices \ {d}
      PROVE  Says(version[e], seen[e])'
  <2>1. version'[e] = version[e] /\ seen'[e] = seen[e]
    BY DEF FInv
  <2>2. seen[e] \subseteq 1 .. now /\ D \cap 1 .. now = {}
    BY <1>1 DEF FInv
  <2>3. seen[e] \ deletes' = seen[e] \ deletes /\ seen[e] \cap deletes' = seen[e] \cap deletes
    BY <2>2
  <2>4. Says(version[e], seen[e])
    BY DEF FInv
  <2> QED
    BY <2>1, <2>3, <2>4 DEF Says, EditedLast, DeletedLast
<1>6. Says(version[d], seen[d])'
  <2>1. version'[d] = w /\ seen'[d] = seen[d] \cup C
    BY DEF FInv
  <2> QED
    BY <2>1
<1> QED
  BY <1>3, <1>4, <1>5, <1>6 DEF FInv

\* A row the user may save is a row.
LEMMA RowsGiven ==
  ASSUME FInv, NEW d \in Devices, NEW r \in NextRows(d), now + 1 <= MaxStamps
  PROVE  r \in Rows
<1>1. now \in 0 .. MaxStamps /\ MaxStamps \in Nat
  BY FieldsExist DEF FInv, Clocks
<1>2. r \in [Fields -> 0 .. now + 1] /\ \A f \in Fields : r[f] \in NextValues(d, f)
  BY DEF NextRows
<1>3. r \in [Fields -> 0 .. MaxStamps]
  BY <1>1, <1>2
<1>4. ASSUME NEW f \in Scalars
      PROVE  r[f] # Absent
  <2>1. r[f] = now + 1 \/ (Live(version[d]) /\ r[f] = version[d].row[f])
    BY <1>2, <1>4, FieldsExist DEF NextValues
  <2>2. Live(version[d]) => version[d].row \in Rows
    BY DEF FInv, Says, WellFormed, Live
  <2> QED
    BY <1>1, <1>4, <2>1, <2>2 DEF Rows, Absent
<1> QED
  BY <1>3, <1>4 DEF Rows

\* A stamp newer than all others.
LEMMA NewStamp ==
  ASSUME FInv, NEW d \in Devices, NEW c \in Stamps, now < c
  PROVE  /\ seen[d] \in SUBSET Stamps /\ seen[d] \cup {c} \in SUBSET Stamps
         /\ c \notin seen[d] /\ c \notin deletes
         /\ EditedLast(seen[d] \cup {c}) = c
         /\ EditedLast(seen[d]) \in 0 .. now /\ DeletedLast(seen[d]) \in 0 .. now
         /\ DeletedLast(seen[d] \cup {c}) \in 0 .. now
         /\ NewestOf((seen[d] \cap deletes) \cup {c}) = c
<1>1. now \in 0 .. MaxStamps /\ MaxStamps \in Nat /\ c \in 1 .. MaxStamps
  BY FieldsExist DEF FInv, Clocks, Stamps
<1>2. seen[d] \subseteq 1 .. now /\ deletes \subseteq 1 .. now
  BY DEF FInv
<1>3. \A y \in 1 .. now : y # c /\ c >= y /\ y \in Stamps
  BY <1>1 DEF Stamps
<1>4. seen[d] \in SUBSET Stamps /\ c \notin seen[d] /\ c \notin deletes
  BY <1>2, <1>3
<1>5. EditedLast(seen[d] \cup {c}) = c
  <2>1. (seen[d] \cup {c}) \ deletes \in SUBSET Stamps /\ c \in (seen[d] \cup {c}) \ deletes
    BY <1>4
  <2>2. \A y \in (seen[d] \cup {c}) \ deletes : c >= y
    BY <1>1, <1>2, <1>3
  <2> QED
    BY <2>1, <2>2, NewestOfEq DEF EditedLast
<1>6. NewestOf((seen[d] \cap deletes) \cup {c}) = c
  <2>1. (seen[d] \cap deletes) \cup {c} \in SUBSET Stamps /\ c \in (seen[d] \cap deletes) \cup {c}
    BY <1>4
  <2>2. \A y \in (seen[d] \cap deletes) \cup {c} : c >= y
    BY <1>1, <1>2, <1>3
  <2> QED
    BY <2>1, <2>2, NewestOfEq
<1>7. ASSUME NEW S \in SUBSET seen[d]
      PROVE  NewestOf(S) \in 0 .. now
  <2>1. NewestOf(S) # 0 => NewestOf(S) \in S
    BY <1>4, NewestOfIs
  <2> QED
    BY <1>1, <1>2, <2>1
<1>8. /\ EditedLast(seen[d]) \in 0 .. now /\ DeletedLast(seen[d]) \in 0 .. now
      /\ DeletedLast(seen[d] \cup {c}) \in 0 .. now
  <2>1. (seen[d] \cup {c}) \cap deletes \in SUBSET seen[d]
    BY <1>4
  <2> QED
    BY <1>7, <2>1 DEF EditedLast, DeletedLast
<1> QED
  BY <1>4, <1>5, <1>6, <1>8

\* Fields that get a stamp newer than the others give the newest clock.
LEMMA StampedIs ==
  ASSUME NEW clocks \in [Fields -> Clocks], NEW fields, NEW c \in Clocks,
         \A f \in Fields : clocks[f] <= c, fields \cap Fields # {}
  PROVE  /\ Stamped(clocks, fields, c) \in [Fields -> Clocks]
         /\ \A v : v.clocks = Stamped(clocks, fields, c) => EditClock(v) = c
<1>1. Stamped(clocks, fields, c) \in [Fields -> Clocks]
  BY DEF Stamped
<1>2. /\ \A f \in Fields : Stamped(clocks, fields, c)[f] <= c
      /\ \E f \in Fields : Stamped(clocks, fields, c)[f] = c
  <2>1. c <= c
    BY FieldsExist DEF Clocks
  <2> QED
    BY <2>1 DEF Stamped
<1> QED
  BY <1>1, <1>2, EditClockEq

\* A created row gets its scalars' clock, newer than any delete.
LEMMA CreateStep ==
  ASSUME FInv, NEW d \in Devices, NEW r \in NextRows(d), Create(d, r)
  PROVE  FInv'
<1> DEFINE v == version[d]
<1>1. PICK c : c = now + 1
  OBVIOUS
<1>2. /\ ~Live(v) /\ c <= MaxStamps /\ now' = c /\ deletes' = deletes
      /\ seen' = [seen EXCEPT ![d] = @ \cup {c}]
      /\ version' = [version EXCEPT ![d] =
           [row |-> r, valued |-> TRUE, deletedAt |-> Never,
            clocks |-> Stamped(NoVersion.clocks, Created(v, r), c)]]
  BY <1>1 DEF Create, Note
<1>3. now \in 0 .. MaxStamps /\ MaxStamps \in Nat /\ c \in 1 .. MaxStamps /\ now < c
  BY <1>1, <1>2, FieldsExist DEF FInv, Clocks
<1>4. c \in Stamps /\ c \in Clocks
  BY <1>3 DEF Stamps, Clocks
<1>5. /\ EditedLast(seen[d] \cup {c}) = c
      /\ DeletedLast(seen[d] \cup {c}) \in 0 .. now
  BY <1>3, <1>4, NewStamp
<1>6. PICK w : w = [row |-> r, valued |-> TRUE, deletedAt |-> Never,
                    clocks |-> Stamped(NoVersion.clocks, Created(v, r), c)]
  OBVIOUS
<1>7. r \in Rows
  BY <1>1, <1>2, RowsGiven
<1>8. /\ Stamped(NoVersion.clocks, Created(v, r), c) \in [Fields -> Clocks] /\ EditClock(w) = c
  <2>1. NoVersion.clocks \in [Fields -> Clocks] /\ \A f \in Fields : NoVersion.clocks[f] <= c
    BY <1>3, FieldsExist DEF NoVersion, Clocks, Never
  <2>2. Created(v, r) \cap Fields # {}
    BY FieldsExist, FieldsAssumption DEF Created
  <2> QED
    BY <1>4, <1>6, <2>1, <2>2, StampedIs
<1>9. w \in Versions /\ w.row = r /\ w.valued /\ w.deletedAt = 0
  BY <1>3, <1>6, <1>7, <1>8 DEF Versions, Never, Clocks
<1>10. WellFormed(w) /\ ~Dead(w) /\ w # NoVersion
  BY <1>7, <1>9, FieldsExist DEF WellFormed, Dead, Never, NoVersion
<1>11. Says(w, seen[d])'
  <2>1. seen'[d] = seen[d] \cup {c} /\ seen'[d] # {}
    BY <1>2 DEF FInv
  <2>2. EditedLast(seen[d])' = c /\ DeletedLast(seen[d])' \in 0 .. now
    BY <1>2, <1>5, <2>1 DEF EditedLast, DeletedLast
  <2>3. EditedLast(seen[d])' > DeletedLast(seen[d])'
    BY <1>3, <2>2
  <2> QED
    BY <1>8, <1>10, <2>1, <2>2, <2>3 DEF Says
<1>12. {c} \in SUBSET (now + 1 .. now') /\ {} \in SUBSET {c} /\ now' \in Clocks /\ now' >= now
       /\ deletes' = deletes \cup {} /\ version' = [version EXCEPT ![d] = w]
  BY <1>1, <1>2, <1>3, <1>4, <1>6
<1> QED
  BY <1>2, <1>11, <1>12, StampStep

\* The version after an edit.
EditedVersion(v, r, c) ==
  [v EXCEPT !.row = r, !.clocks = Stamped(@, Changed(v, r), c)]

\* An edit gives the fields it changes its stamp.
LEMMA EditedIs ==
  ASSUME FInv, NEW d \in Devices, Live(version[d]), NEW r \in NextRows(d), r # version[d].row,
         NEW c \in Stamps, now < c, now + 1 <= MaxStamps,
         NEW w, w = EditedVersion(version[d], r, c)
  PROVE  WellFormed(w) /\ Live(w) /\ EditClock(w) = c
<1> DEFINE v == version[d]
<1>1. now \in 0 .. MaxStamps /\ MaxStamps \in Nat /\ c \in 1 .. MaxStamps /\ c \in Clocks
  BY FieldsExist DEF FInv, Clocks, Stamps
<1>2. WellFormed(v) /\ EditClock(v) = EditedLast(seen[d])
  BY DEF FInv, Says
<1>3. EditClock(v) \in 0 .. now
  BY <1>2, NewStamp
<1>4. r \in Rows /\ v.row \in Rows /\ v \in Versions /\ v.clocks \in [Fields -> Clocks]
  BY <1>2, Parts, RowsGiven DEF Live
<1>5. Changed(v, r) \cap Fields # {}
  <2>1. \E f \in Fields : r[f] # v.row[f]
    BY <1>4 DEF Rows
  <2> QED
    BY <2>1 DEF Changed
<1>6. \A f \in Fields : v.clocks[f] <= c
  <2>1. \A f \in Fields : v.clocks[f] <= EditClock(v) /\ v.clocks[f] \in 0 .. MaxStamps
    BY <1>4, EditClockIs DEF Clocks
  <2> QED
    BY <1>1, <1>3, <2>1
<1>7. /\ w.row = r /\ w.clocks = Stamped(v.clocks, Changed(v, r), c)
      /\ w.valued = v.valued /\ w.deletedAt = v.deletedAt
      /\ w = [row |-> w.row, valued |-> w.valued, clocks |-> w.clocks, deletedAt |-> w.deletedAt]
  BY <1>4 DEF Versions, EditedVersion
<1>8. Stamped(v.clocks, Changed(v, r), c) \in [Fields -> Clocks] /\ EditClock(w) = c
  BY <1>1, <1>4, <1>5, <1>6, <1>7, StampedIs
<1>9. v.valued = TRUE /\ v.deletedAt = Never /\ v.deletedAt \in Clocks
  BY <1>2, Parts DEF Live, Dead
<1>10. w \in Versions
  BY <1>4, <1>7, <1>8, <1>9 DEF Versions
<1>11. Live(w)
  BY <1>7, <1>9 DEF Live, Dead
<1> QED
  BY <1>4, <1>7, <1>8, <1>9, <1>10, <1>11, FieldsExist DEF WellFormed, Live

\* A delete after every edit gives a tombstone, with or without the row.
LEMMA BuriedIs ==
  ASSUME NEW v, WellFormed(v), Live(v), NEW c \in Clocks, c > EditClock(v), NEW valued \in BOOLEAN,
         NEW w, w = Buried(v, c, valued)
  PROVE  /\ WellFormed(w) /\ Dead(w) /\ w # NoVersion
         /\ EditClock(w) = EditClock(v) /\ w.deletedAt = c
<1>1. /\ v \in Versions /\ v.clocks \in [Fields -> Clocks] /\ v.row \in Rows
      /\ EditClock(v) \in 0 .. MaxStamps /\ MaxStamps \in Nat /\ c \in 0 .. MaxStamps
  BY Parts, FieldsExist DEF Live, Clocks
<1>2. /\ w.row = (IF valued THEN v.row ELSE NoRow) /\ w.clocks = v.clocks
      /\ w.valued = valued /\ w.deletedAt = c
      /\ w = [row |-> w.row, valued |-> w.valued, clocks |-> w.clocks, deletedAt |-> w.deletedAt]
  BY <1>1 DEF Buried, Versions
<1>3. w \in Versions
  BY <1>1, <1>2 DEF Versions
<1>4. EditClock(w) = EditClock(v)
  BY <1>2 DEF EditClock
<1>5. c # 0
  BY <1>1
<1>6. Dead(w) /\ w # NoVersion
  BY <1>2, <1>5 DEF Dead, Never, NoVersion
<1> QED
  BY <1>1, <1>2, <1>3, <1>4, <1>6, FieldsExist DEF WellFormed

\* An edit is newer than any delete the device has merged.
LEMMA EditStep ==
  ASSUME FInv, NEW d \in Devices, NEW r \in NextRows(d), Edit(d, r)
  PROVE  FInv'
<1> DEFINE v == version[d]
<1>1. PICK c : c = now + 1
  OBVIOUS
<1>2. PICK w : w = EditedVersion(version[d], r, c)
  OBVIOUS
<1>3. /\ Live(v) /\ r # v.row /\ c <= MaxStamps /\ now' = c /\ deletes' = deletes
      /\ seen' = [seen EXCEPT ![d] = @ \cup {c}]
      /\ version' = [version EXCEPT ![d] = w]
  <2>1. version' = [version EXCEPT ![d].row = r, ![d].clocks = Stamped(@, Changed(version[d], r), c)]
    BY <1>1 DEF Edit
  <2>2. version' = [version EXCEPT ![d] = w]
    BY <1>2, <2>1 DEF FInv, EditedVersion
  <2> QED
    BY <1>1, <2>2 DEF Edit, Note
<1>4. now \in 0 .. MaxStamps /\ MaxStamps \in Nat /\ c \in 1 .. MaxStamps /\ now < c
  BY <1>1, <1>3, FieldsExist DEF FInv, Clocks
<1>5. c \in Stamps /\ c \in Clocks
  BY <1>4 DEF Stamps, Clocks
<1>6. EditedLast(seen[d] \cup {c}) = c /\ DeletedLast(seen[d] \cup {c}) \in 0 .. now
  BY <1>4, <1>5, NewStamp
<1>7. WellFormed(w) /\ Live(w) /\ EditClock(w) = c
  <2>1. now + 1 <= MaxStamps
    BY <1>1, <1>3
  <2> QED
    BY <1>2, <1>3, <1>4, <1>5, <2>1, EditedIs
<1>8. ~Dead(w) /\ w # NoVersion
  BY <1>7 DEF Live, NoVersion
<1>9. Says(w, seen[d])'
  <2>1. seen'[d] = seen[d] \cup {c} /\ seen'[d] # {}
    BY <1>3 DEF FInv
  <2>2. EditedLast(seen[d])' = c /\ DeletedLast(seen[d])' \in 0 .. now
    BY <1>3, <1>6, <2>1 DEF EditedLast, DeletedLast
  <2>3. EditedLast(seen[d])' > DeletedLast(seen[d])'
    BY <1>4, <2>2
  <2> QED
    BY <1>7, <1>8, <2>1, <2>2, <2>3 DEF Says
<1>10. {c} \in SUBSET (now + 1 .. now') /\ {} \in SUBSET {c} /\ now' \in Clocks /\ now' >= now
       /\ deletes' = deletes \cup {}
  BY <1>1, <1>3, <1>4, <1>5
<1> QED
  BY <1>3, <1>9, <1>10, StampStep

\* A delete, recorded by the trigger or found by the scan.
LEMMA DeleteStep ==
  ASSUME FInv, NEW d \in Devices, Delete(d) \/ DeleteUnseen(d)
  PROVE  FInv'
<1> DEFINE v == version[d]
<1>1. PICK c : c = now + 1
  OBVIOUS
<1>2. PICK valued \in BOOLEAN : (valued /\ Delete(d)) \/ (~valued /\ DeleteUnseen(d))
  OBVIOUS
<1>2a. PICK w : w = Buried(v, c, valued)
  OBVIOUS
<1>3. /\ Live(v) /\ c <= MaxStamps /\ now' = c /\ deletes' = deletes \cup {c}
      /\ seen' = [seen EXCEPT ![d] = @ \cup {c}]
      /\ version' = [version EXCEPT ![d] = w]
  <2>1. CASE valued /\ Delete(d)
    <3>1. valued = TRUE
      BY <2>1
    <3> QED
      BY <1>1, <1>2a, <2>1, <3>1 DEF Delete
  <2>2. CASE ~valued /\ DeleteUnseen(d)
    <3>1. valued = FALSE
      BY <2>2
    <3> QED
      BY <1>1, <1>2a, <2>2, <3>1 DEF DeleteUnseen
  <2> QED
    BY <1>2, <2>1, <2>2
<1>4. now \in 0 .. MaxStamps /\ MaxStamps \in Nat /\ c \in 1 .. MaxStamps /\ now < c
  BY <1>1, <1>3, FieldsExist DEF FInv, Clocks
<1>5. c \in Stamps /\ c \in Clocks
  BY <1>4 DEF Stamps, Clocks
<1>6. /\ c \notin seen[d] /\ EditedLast(seen[d]) \in 0 .. now
      /\ NewestOf((seen[d] \cap deletes) \cup {c}) = c
  BY <1>4, <1>5, NewStamp
<1>7. WellFormed(v) /\ EditClock(v) = EditedLast(seen[d])
  BY DEF FInv, Says
<1>8. c > EditClock(v)
  BY <1>4, <1>6, <1>7
<1>9. /\ WellFormed(w) /\ Dead(w) /\ w # NoVersion
      /\ EditClock(w) = EditedLast(seen[d]) /\ w.deletedAt = c
  BY <1>2, <1>2a, <1>3, <1>5, <1>7, <1>8, BuriedIs
<1>10. Says(w, seen[d])'
  <2>1. seen'[d] = seen[d] \cup {c} /\ seen'[d] # {}
    BY <1>3 DEF FInv
  <2>2. /\ seen'[d] \ deletes' = seen[d] \ deletes
        /\ seen'[d] \cap deletes' = (seen[d] \cap deletes) \cup {c}
    BY <1>3, <1>6, <2>1
  <2>3. EditedLast(seen[d])' = EditedLast(seen[d]) /\ DeletedLast(seen[d])' = c
    BY <1>6, <2>2 DEF EditedLast, DeletedLast
  <2> QED
    BY <1>9, <2>1, <2>3 DEF Says, Live
<1>11. {c} \in SUBSET (now + 1 .. now') /\ {c} \in SUBSET {c} /\ now' \in Clocks /\ now' >= now
  BY <1>1, <1>3, <1>4, <1>5
<1> QED
  BY <1>3, <1>10, <1>11, StampStep

\* Both in one transaction: the edit one clock before the delete.
LEMMA EditThenDeleteStep ==
  ASSUME FInv, NEW d \in Devices, NEW r \in NextRows(d), EditThenDelete(d, r)
  PROVE  FInv'
<1> DEFINE v == version[d]
<1>1. PICK c : c = now + 1
  OBVIOUS
<1>2. PICK u : u = EditedVersion(version[d], r, c)
  OBVIOUS
<1>3. PICK w : w = Buried(u, c + 1, TRUE)
  OBVIOUS
<1>4. /\ Live(v) /\ r # v.row /\ c + 1 <= MaxStamps /\ now' = c + 1 /\ deletes' = deletes \cup {c + 1}
      /\ seen' = [seen EXCEPT ![d] = @ \cup {c, c + 1}]
      /\ version' = [version EXCEPT ![d] = w]
  BY <1>1, <1>2, <1>3 DEF EditThenDelete, EditedVersion
<1>5. /\ now \in 0 .. MaxStamps /\ MaxStamps \in Nat /\ c \in 1 .. MaxStamps /\ now < c
      /\ c + 1 \in 1 .. MaxStamps /\ now < c + 1 /\ c + 1 > c /\ c + 1 # c
  BY <1>1, <1>4, FieldsExist DEF FInv, Clocks
<1>6. c \in Stamps /\ c + 1 \in Stamps /\ c + 1 \in Clocks
  BY <1>5 DEF Stamps, Clocks
<1>7. EditedLast(seen[d] \cup {c}) = c /\ c \notin deletes
  BY <1>5, <1>6, NewStamp
<1>8. /\ c + 1 \notin seen[d]
      /\ NewestOf((seen[d] \cap deletes) \cup {c + 1}) = c + 1
  BY <1>5, <1>6, NewStamp
<1>9. WellFormed(u) /\ Live(u) /\ EditClock(u) = c
  <2>1. now + 1 <= MaxStamps
    BY <1>1, <1>5
  <2> QED
    BY <1>2, <1>4, <1>5, <1>6, <2>1, EditedIs
<1>10. /\ WellFormed(w) /\ Dead(w) /\ w # NoVersion /\ EditClock(w) = c /\ w.deletedAt = c + 1
  <2>1. c + 1 > EditClock(u)
    BY <1>5, <1>9
  <2> QED
    BY <1>3, <1>6, <1>9, <2>1, BuriedIs
<1>11. Says(w, seen[d])'
  <2>1. seen'[d] = seen[d] \cup {c, c + 1} /\ seen'[d] # {}
    BY <1>4 DEF FInv
  <2>2. /\ seen'[d] \ deletes' = (seen[d] \cup {c}) \ deletes
        /\ seen'[d] \cap deletes' = (seen[d] \cap deletes) \cup {c + 1}
    BY <1>4, <1>5, <1>7, <1>8, <2>1
  <2>3. EditedLast(seen[d])' = c /\ DeletedLast(seen[d])' = c + 1
    BY <1>7, <1>8, <2>2 DEF EditedLast, DeletedLast
  <2> QED
    BY <1>10, <2>1, <2>3 DEF Says, Live
<1>12. /\ {c, c + 1} \in SUBSET (now + 1 .. now') /\ {c + 1} \in SUBSET {c, c + 1}
       /\ now' \in Clocks /\ now' >= now
  BY <1>1, <1>4, <1>5, <1>6
<1> QED
  BY <1>4, <1>11, <1>12, StampStep

\* A device gets another's stamps and a version that says them all.
LEMMA UnitedStep ==
  ASSUME FInv, NEW d \in Devices, NEW e \in Devices, NEW w,
         version' = [version EXCEPT ![d] = w], seen' = [seen EXCEPT ![d] = @ \cup seen[e]],
         now' = now, deletes' = deletes, Says(w, seen[d] \cup seen[e])
  PROVE  FInv'
<1>1. /\ seen' \in [Devices -> SUBSET (1 .. now')] /\ DOMAIN version' = Devices
      /\ version' = [x \in Devices |-> version'[x]] /\ now' \in Clocks /\ deletes' \subseteq 1 .. now'
  BY DEF FInv
<1>2. ASSUME NEW x \in Devices
      PROVE  Says(version'[x], seen'[x])
  <2>1. CASE x = d
    BY <2>1 DEF FInv
  <2>2. CASE x # d
    BY <2>2 DEF FInv
  <2> QED
    BY <2>1, <2>2
<1>3. ASSUME NEW x \in Devices
      PROVE  Says(version[x], seen[x])'
  <2>1. Says(version'[x], seen'[x])
    BY <1>2
  <2> QED
    BY <2>1 DEF Says, EditedLast, DeletedLast
<1> QED
  BY <1>1, <1>3 DEF FInv

\* A device merges what another one has: their stamps are united, and the merge
\* weighs the newest edit of both against the newest delete of both.
LEMMA ApplyStep ==
  ASSUME FInv, NEW d \in Devices, NEW e \in Devices, Apply(d, e)
  PROVE  FInv'
<1>1. PICK w : w = Merge(version[d], version[e])
  OBVIOUS
<1>2. /\ version[e] # NoVersion /\ version' = [version EXCEPT ![d] = w]
      /\ seen' = [seen EXCEPT ![d] = @ \cup seen[e]]
      /\ now' = now /\ deletes' = deletes
  BY <1>1 DEF Apply
<1>3. Says(version[d], seen[d]) /\ Says(version[e], seen[e])
  BY DEF FInv
<1>4. PICK A : A = seen[d]
  OBVIOUS
<1>5. PICK B : B = seen[e]
  OBVIOUS
<1>6. A \in SUBSET Stamps /\ B \in SUBSET Stamps /\ B # {}
  <2>1. now \in 0 .. MaxStamps /\ MaxStamps \in Nat
    BY FieldsExist DEF FInv, Clocks
  <2> QED
    BY <1>2, <1>3, <1>4, <1>5, <2>1 DEF FInv, Stamps, Says
<1>7. /\ EditedLast(A \cup B) = Later(EditedLast(A), EditedLast(B))
      /\ DeletedLast(A \cup B) = Later(DeletedLast(A), DeletedLast(B))
  <2>1. /\ (A \cup B) \ deletes = (A \ deletes) \cup (B \ deletes)
        /\ (A \cup B) \cap deletes = (A \cap deletes) \cup (B \cap deletes)
        /\ A \ deletes \in SUBSET Stamps /\ B \ deletes \in SUBSET Stamps
        /\ A \cap deletes \in SUBSET Stamps /\ B \cap deletes \in SUBSET Stamps
    BY <1>6
  <2> QED
    BY <2>1, NewestOfBoth DEF EditedLast, DeletedLast
<1>8. /\ EditedLast(A) \in 0 .. MaxStamps /\ EditedLast(B) \in 0 .. MaxStamps
      /\ DeletedLast(A) \in 0 .. MaxStamps /\ DeletedLast(B) \in 0 .. MaxStamps
      /\ MaxStamps \in Nat
  <2>1. /\ A \ deletes \in SUBSET Stamps /\ B \ deletes \in SUBSET Stamps
        /\ A \cap deletes \in SUBSET Stamps /\ B \cap deletes \in SUBSET Stamps
    BY <1>6
  <2> QED
    BY <2>1, NewestOfIs, FieldsExist DEF EditedLast, DeletedLast, Clocks
<1>9. ASSUME NEW S \in SUBSET Stamps, NEW T \in SUBSET Stamps, EditedLast(S) # 0
      PROVE  EditedLast(S) # DeletedLast(T)
  <2>1. S \ deletes \in SUBSET Stamps /\ T \cap deletes \in SUBSET Stamps
    OBVIOUS
  <2>2. EditedLast(S) \in S \ deletes
    BY <1>9, <2>1, NewestOfIs DEF EditedLast
  <2>3. DeletedLast(T) # 0 => DeletedLast(T) \in T \cap deletes
    BY <2>1, NewestOfIs DEF DeletedLast
  <2> QED
    BY <1>9, <2>2, <2>3
<1>10. /\ WellFormed(w) /\ EditClock(w) = EditedLast(A \cup B)
       /\ Deleted(version[d], version[e]) =>
             Dead(w) /\ w.deletedAt = LatestDelete(version[d], version[e])
       /\ ~Deleted(version[d], version[e]) => Live(w)
  BY <1>1, <1>2, <1>3, <1>4, <1>5, <1>7, MergeIs DEF Says
<1>11. /\ version[d].deletedAt \in 0 .. MaxStamps /\ version[e].deletedAt \in 0 .. MaxStamps
       /\ EditClock(version[d]) = EditedLast(A) /\ EditClock(version[e]) = EditedLast(B)
  BY <1>3, <1>4, <1>5, Parts DEF Says, Clocks
<1>12. /\ \/ version[d].deletedAt = DeletedLast(A) /\ DeletedLast(A) > EditedLast(A)
          \/ version[d].deletedAt = 0 /\ DeletedLast(A) <= EditedLast(A)
       /\ \/ version[e].deletedAt = DeletedLast(B) /\ DeletedLast(B) > EditedLast(B)
          \/ version[e].deletedAt = 0 /\ DeletedLast(B) <= EditedLast(B)
  <2>1. ASSUME NEW x \in Devices, NEW S, S = seen[x],
               EditedLast(S) \in 0 .. MaxStamps, DeletedLast(S) \in 0 .. MaxStamps
        PROVE  \/ version[x].deletedAt = DeletedLast(S) /\ DeletedLast(S) > EditedLast(S)
               \/ version[x].deletedAt = 0 /\ DeletedLast(S) <= EditedLast(S)
    <3>1. Says(version[x], S)
      BY <2>1 DEF FInv
    <3>2. CASE Dead(version[x])
      BY <3>1, <3>2 DEF Says, WellFormed
    <3>3. CASE Live(version[x])
      BY <2>1, <3>1, <3>3 DEF Says, Live, Dead, Never
    <3>4. CASE ~Dead(version[x]) /\ ~Live(version[x])
      <4>1. version[x] = NoVersion /\ S = {}
        BY <3>1, <3>4 DEF Says, WellFormed, Live
      <4>2. DeletedLast(S) = 0
        BY <4>1, NewestOfNone DEF DeletedLast
      <4>3. version[x].deletedAt = 0
        BY <4>1 DEF NoVersion, Never
      <4> QED
        BY <2>1, <4>2, <4>3
    <3> QED
      BY <3>2, <3>3, <3>4
  <2> QED
    BY <1>4, <1>5, <1>8, <2>1
<1>13. CASE Deleted(version[d], version[e])
  <2>1. LatestDelete(version[d], version[e]) = Later(DeletedLast(A), DeletedLast(B))
    BY <1>8, <1>11, <1>12, <1>13 DEF Deleted, LatestDelete, Later
  <2>2. w # NoVersion /\ ~Live(w)
    BY <1>10, <1>13 DEF Dead, Live, NoVersion
  <2> QED
    <3>1. Says(w, A \cup B)
      BY <1>6, <1>7, <1>10, <1>13, <2>1, <2>2 DEF Says
    <3> QED
      BY <1>2, <1>4, <1>5, <3>1, UnitedStep
<1>14. CASE ~Deleted(version[d], version[e])
  <2>1. Live(w) /\ ~Dead(w) /\ w # NoVersion
    BY <1>10, <1>14 DEF Live, NoVersion
  <2>2. Later(DeletedLast(A), DeletedLast(B)) <= Later(EditedLast(A), EditedLast(B))
    BY <1>8, <1>11, <1>12, <1>14 DEF Deleted, LatestDelete, Later
  <2>3. EditedLast(A \cup B) # 0 => EditedLast(A \cup B) # DeletedLast(A \cup B)
    BY <1>6, <1>9
  <2>4. EditedLast(A \cup B) # 0
    <3>1. EditedLast(A \cup B) = 0 => EditedLast(B) = 0 /\ DeletedLast(B) = 0
      BY <1>7, <1>8, <2>2 DEF Later
    <3>2. \A y \in B : y # 0 /\ (NewestOf(B \ deletes) >= y \/ NewestOf(B \cap deletes) >= y)
      <4>1. B \ deletes \in SUBSET Stamps /\ B \cap deletes \in SUBSET Stamps /\ B \in SUBSET Stamps
        BY <1>6
      <4> QED
        BY <1>8, <4>1, NewestOfIs DEF Stamps
    <3>3. \A y \in B : y \in 1 .. MaxStamps
      BY <1>6 DEF Stamps
    <3> QED
      BY <1>6, <1>8, <3>1, <3>2, <3>3 DEF EditedLast, DeletedLast
  <2>5. EditedLast(A \cup B) > DeletedLast(A \cup B)
    BY <1>7, <1>8, <2>2, <2>3, <2>4 DEF Later
  <2>6. Says(w, A \cup B)
    BY <1>6, <1>10, <2>1, <2>5 DEF Says
  <2> QED
    BY <1>2, <1>4, <1>5, <2>6, UnitedStep
<1> QED
  BY <1>13, <1>14

\* Every step keeps what the versions say of their stamps.
LEMMA FNext == FInv /\ [Next]_vars => FInv'
<1> SUFFICES ASSUME FInv, [Next]_vars PROVE FInv'
  OBVIOUS
<1>1. Editors \subseteq Devices
  BY FieldsAssumption
<1>2. CASE \E d \in Editors : \E r \in NextRows(d) : Create(d, r) \/ Edit(d, r) \/ EditThenDelete(d, r)
  BY <1>1, <1>2, CreateStep, EditStep, EditThenDeleteStep
<1>3. CASE \E d \in Editors : Delete(d) \/ DeleteUnseen(d)
  BY <1>1, <1>3, DeleteStep
<1>4. CASE \E d, e \in Devices : Apply(d, e)
  BY <1>4, ApplyStep
<1>5. CASE UNCHANGED vars
  BY <1>5 DEF FInv, Says, EditedLast, DeletedLast, vars, observers
<1> QED
  BY <1>2, <1>3, <1>4, <1>5 DEF Next

\* So they always say it.
LEMMA FAlways == Spec => []FInv
<1> QED
  BY FInit, FNext, PTL DEF Spec

----------------------------------------------------------------------------
(* What a column shows                                                     *)

\* The stamps of S that wrote field f.
Writes(f, S) == {c \in S : wrote[c][f] # Untouched}

\* If no merged delete lost the row, version v has the row, with the newest merged
\* write of every column and its clock.
Shows(v, S) ==
  S \cap blind = {} =>
    /\ v.valued <=> S # {}
    /\ \A f \in Scalars :
         /\ v.clocks[f] = NewestOf(Writes(f, S))
         /\ v.valued => v.clocks[f] # Never /\ v.row[f] = wrote[v.clocks[f]][f]

WroteInv ==
  /\ wrote \in [Stamps -> [Fields -> 0 .. Untouched]]
  /\ \A c \in Stamps : c > now => \A f \in Fields : wrote[c][f] = Untouched
  /\ blind \subseteq deletes

SInv == FInv /\ WroteInv /\ \A d \in Devices : Shows(version[d], seen[d])

\* Nothing shows nothing.
LEMMA SInit == Init => SInv
<1> SUFFICES ASSUME Init PROVE SInv
  OBVIOUS
<1>1. /\ version = [d \in Devices |-> NoVersion] /\ now = 0 /\ deletes = {} /\ blind = {}
      /\ seen = [d \in Devices |-> {}]
      /\ wrote = [c \in Stamps |-> [f \in Fields |-> Untouched]]
  BY DEF Init
<1>2. Untouched \in 0 .. Untouched
  BY FieldsExist DEF Untouched
<1>3. WroteInv
  BY <1>1, <1>2 DEF WroteInv
<1>4. Shows(NoVersion, {})
  <2>1. \A f \in Fields : Writes(f, {}) = {}
    BY DEF Writes
  <2>2. NoVersion.valued = FALSE /\ \A f \in Scalars : NoVersion.clocks[f] = 0
    BY FieldsExist DEF NoVersion, Never
  <2> QED
    BY <2>1, <2>2, NewestOfNone, FieldsExist DEF Shows
<1> QED
  BY <1>1, <1>3, <1>4, FInit DEF SInv

\* The stamps of a device.
LEMMA SeenIs ==
  ASSUME FInv, NEW d \in Devices
  PROVE  /\ seen[d] \subseteq 1 .. now /\ seen[d] \in SUBSET Stamps
         /\ now \in 0 .. MaxStamps /\ MaxStamps \in Nat
<1>1. now \in 0 .. MaxStamps /\ MaxStamps \in Nat
  BY FieldsExist DEF FInv, Clocks
<1> QED
  BY <1>1 DEF FInv, Stamps

\* A step that stamps on device d leaves what the others show.
LEMMA OthersShow ==
  ASSUME SInv, NEW e \in Devices, version'[e] = version[e], seen'[e] = seen[e],
         \A k \in Stamps : k <= now => wrote'[k] = wrote[k],
         blind' \cap seen[e] = blind \cap seen[e]
  PROVE  Shows(version[e], seen[e])'
<1>1. Shows(version[e], seen[e]) /\ FInv
  BY DEF SInv
<1>2. /\ seen[e] \subseteq 1 .. now /\ seen[e] \in SUBSET Stamps
      /\ now \in 0 .. MaxStamps /\ MaxStamps \in Nat
  BY <1>1, SeenIs
<1>3. \A k \in seen[e] : wrote'[k] = wrote[k]
  BY <1>2
<1>4. \A f \in Scalars : Writes(f, seen[e])' = Writes(f, seen[e])
  BY <1>3 DEF Writes
<1>5. SUFFICES ASSUME seen[e] \cap blind = {}
               PROVE  /\ version[e].valued <=> seen[e] # {}
                      /\ \A f \in Scalars :
                           /\ version[e].clocks[f] = NewestOf(Writes(f, seen[e]))
                           /\ version[e].valued => /\ version[e].clocks[f] # Never
                                                   /\ version[e].row[f] = wrote'[version[e].clocks[f]][f]
  BY <1>4 DEF Shows, NewestOf
<1>6. ASSUME NEW f \in Scalars, version[e].valued
      PROVE  wrote'[version[e].clocks[f]] = wrote[version[e].clocks[f]]
  <2>1. version[e].clocks[f] = NewestOf(Writes(f, seen[e])) /\ version[e].clocks[f] # 0
    BY <1>1, <1>5, <1>6 DEF Shows, Never
  <2>2. Writes(f, seen[e]) \in SUBSET seen[e] /\ Writes(f, seen[e]) \in SUBSET Stamps
    BY <1>2 DEF Writes
  <2>3. version[e].clocks[f] \in seen[e]
    BY <2>1, <2>2, NewestOfIs
  <2> QED
    BY <1>3, <2>3
<1> QED
  BY <1>1, <1>5, <1>6 DEF Shows

\* Version w takes the columns of F from what stamp c wrote, and the others from v.
Takes(v, w, c, F, what) ==
  /\ w.valued = TRUE
  /\ \A f \in Scalars \cap F : w.clocks[f] = c /\ w.row[f] = what[f] /\ what[f] # Untouched
  /\ \A f \in Scalars \ F : /\ v.valued = TRUE /\ what[f] = Untouched
                            /\ w.clocks[f] = v.clocks[f] /\ w.row[f] = v.row[f]

\* Of the stamps, only c gets something written.
StampWrites(c, what) ==
  wrote'[c] = what /\ \A k \in Stamps : k # c => wrote'[k] = wrote[k]

\* A new version of a device shows what it took.
LEMMA WriteShows ==
  ASSUME SInv, NEW d \in Devices, NEW w, NEW F, NEW what, NEW c \in Stamps, c = now + 1,
         NEW C \in SUBSET (Stamps \ (1 .. now)), c \in C,
         version'[d] = w, seen'[d] = seen[d] \cup C, blind' = blind,
         StampWrites(c, what), Takes(version[d], w, c, F, what)
  PROVE  Shows(version[d], seen[d])'
<1>a. /\ \A k \in Stamps : k # c => wrote'[k] = wrote[k]
      /\ wrote'[c] = what
  BY DEF StampWrites
<1>b. /\ w.valued = TRUE
      /\ \A f \in Scalars \cap F :
            w.clocks[f] = c /\ w.row[f] = wrote'[c][f] /\ wrote'[c][f] # Untouched
      /\ \A f \in Scalars \ F :
            /\ version[d].valued = TRUE /\ w.clocks[f] = version[d].clocks[f]
            /\ w.row[f] = version[d].row[f] /\ wrote'[c][f] = Untouched
  BY <1>a DEF Takes
<1>1. Shows(version[d], seen[d]) /\ FInv /\ WroteInv
  BY DEF SInv
<1>2. /\ seen[d] \subseteq 1 .. now /\ seen[d] \in SUBSET Stamps
      /\ now \in 0 .. MaxStamps /\ MaxStamps \in Nat
  BY <1>1, SeenIs
<1>3. SUFFICES ASSUME (seen[d] \cup C) \cap blind = {}, NEW f \in Scalars
               PROVE  /\ w.clocks[f] = NewestOf(Writes(f, seen[d])')
                      /\ w.clocks[f] # Never /\ w.row[f] = wrote'[w.clocks[f]][f]
  BY <1>b DEF Shows, NewestOf
<1>4. \A k \in seen[d] : k # c /\ k <= c /\ wrote'[k] = wrote[k]
  BY <1>a, <1>2
<1>5. f \in Fields
  BY FieldsExist
<1>6. \A k \in C \ {c} : wrote'[k][f] = Untouched
  <2>1. \A k \in C : k \in Stamps /\ k > now
    BY <1>2 DEF Stamps
  <2> QED
    BY <1>a, <1>1, <1>5, <2>1 DEF WroteInv
<1>7. CASE f \in F
  <2>1. PICK W : W = Writes(f, seen[d])'
    OBVIOUS
  <2>2. W = {k \in seen[d] \cup C : wrote'[k][f] # Untouched}
    BY <2>1 DEF Writes
  <2>3. c \in W /\ W \in SUBSET Stamps
    BY <1>b, <1>2, <1>7, <2>2
  <2>4. \A k \in W : c >= k
    <3>1. c \in 1 .. MaxStamps
      BY DEF Stamps
    <3>2. \A k \in W : k \in seen[d] \/ k = c
      BY <1>6, <2>2
    <3>3. \A k \in seen[d] : k \in 1 .. MaxStamps /\ k <= c
      BY <1>2, <1>4
    <3> QED
      BY <1>2, <3>1, <3>2, <3>3
  <2>5. NewestOf(W) = c
    BY <2>3, <2>4, NewestOfEq
  <2> QED
    BY <1>b, <1>2, <1>7, <2>1, <2>5 DEF Never
<1>8. CASE f \notin F
  <2>1. Writes(f, seen[d])' = Writes(f, seen[d])
    BY <1>b, <1>4, <1>6, <1>8 DEF Writes
  <2>2. /\ version[d].clocks[f] = NewestOf(Writes(f, seen[d]))
        /\ version[d].clocks[f] # 0 /\ version[d].row[f] = wrote[version[d].clocks[f]][f]
    BY <1>b, <1>1, <1>3, <1>8 DEF Shows, Never
  <2>3. Writes(f, seen[d]) \in SUBSET seen[d] /\ Writes(f, seen[d]) \in SUBSET Stamps
    BY <1>2 DEF Writes
  <2>4. version[d].clocks[f] \in seen[d]
    BY <2>2, <2>3, NewestOfIs
  <2> QED
    BY <1>b, <1>4, <1>8, <2>1, <2>2, <2>4 DEF Never
<1> QED
  BY <1>7, <1>8

\* What a stamp wrote of row r.
Written(r, fields) == [f \in Fields |-> IF f \in fields THEN r[f] ELSE Untouched]

\* A transaction that writes stamp c and nothing else.
LEMMA WrittenStep ==
  ASSUME SInv, FInv', NEW d \in Devices, NEW r \in Rows, NEW w, NEW fields, NEW c, c = now + 1,
         c <= MaxStamps, now' \in Nat, now' >= c, deletes \subseteq deletes', blind' = blind,
         NEW C \in SUBSET (Stamps \ (1 .. now)), c \in C,
         seen' = [seen EXCEPT ![d] = @ \cup C], version' = [version EXCEPT ![d] = w],
         wrote' = [wrote EXCEPT ![c] = Written(r, fields)],
         Takes(version[d], w, c, fields, Written(r, fields))
  PROVE  SInv'
<1>1. FInv /\ WroteInv
  BY DEF SInv
<1>2. /\ now \in 0 .. MaxStamps /\ MaxStamps \in Nat /\ c \in Stamps /\ c > now
      /\ c # 0
  <2>1. now \in 0 .. MaxStamps /\ MaxStamps \in Nat
    BY <1>1, SeenIs
  <2> QED
    BY <2>1 DEF Stamps
<1>3. PICK new : new = Written(r, fields)
  OBVIOUS
<1>4. /\ wrote' = [wrote EXCEPT ![c] = new]
      /\ \A f \in Fields : new[f] = IF f \in fields THEN r[f] ELSE Untouched
  BY <1>3 DEF Written
<1>5. \A f \in Fields : r[f] \in 0 .. MaxStamps /\ r[f] # Untouched /\ r[f] \in 0 .. Untouched
                         /\ Untouched \in 0 .. Untouched
  BY <1>2 DEF Rows, Untouched
<1>6. new \in [Fields -> 0 .. Untouched]
  BY <1>3, <1>5 DEF Written
<1>7. /\ wrote' \in [Stamps -> [Fields -> 0 .. Untouched]]
      /\ wrote'[c] = new /\ \A k \in Stamps : k # c => wrote'[k] = wrote[k]
  BY <1>1, <1>2, <1>4, <1>6 DEF WroteInv
<1>8. WroteInv'
  <2>1. \A k \in Stamps : k > now' => k > now /\ k # c
    BY <1>2 DEF Stamps
  <2> QED
    BY <1>1, <1>7, <2>1 DEF WroteInv, Untouched
<1>9. ASSUME NEW e \in Devices \ {d}
      PROVE  Shows(version[e], seen[e])'
  <2>1. version'[e] = version[e] /\ seen'[e] = seen[e]
    BY <1>1 DEF FInv
  <2>2. \A k \in Stamps : k <= now => wrote'[k] = wrote[k]
    <3>1. \A k \in Stamps : k <= now => k # c
      BY <1>2 DEF Stamps
    <3> QED
      BY <1>7, <3>1
  <2> QED
    BY <2>1, <2>2, OthersShow
<1>10. Shows(version[d], seen[d])'
  <2>1. version'[d] = w /\ seen'[d] = seen[d] \cup C
    BY <1>1 DEF FInv
  <2>2. StampWrites(c, new)
    BY <1>7 DEF StampWrites
  <2>3. Takes(version[d], w, c, fields, new)
    BY <1>3
  <2> QED
    BY <1>2, <2>1, <2>2, <2>3, WriteShows
<1>11. ASSUME NEW e \in Devices
       PROVE  Shows(version[e], seen[e])'
  BY <1>9, <1>10
<1> QED
  BY <1>8, <1>11 DEF SInv

\* An edited version takes the columns that were changed.
LEMMA EditedTakes ==
  ASSUME FInv, NEW d \in Devices, Live(version[d]), NEW r \in Rows, NEW c, NEW w, NEW fields,
         w = EditedVersion(version[d], r, c), fields = Changed(version[d], r)
  PROVE  Takes(version[d], w, c, fields, Written(r, fields))
<1>1. version[d] \in Versions /\ version[d].valued = TRUE
  BY DEF FInv, Says, WellFormed, Live, Versions
<1>2. /\ w.row = r /\ w.clocks = Stamped(version[d].clocks, Changed(version[d], r), c)
      /\ w.valued = version[d].valued
  BY <1>1 DEF EditedVersion, Versions
<1>3. \A f \in Scalars \ fields : r[f] = version[d].row[f]
  BY FieldsExist DEF Changed
<1>4. \A f \in Fields : r[f] # Untouched
  BY FieldsExist DEF Rows, Untouched
<1>5. \A f \in Scalars : f \in Fields
  BY FieldsExist
<1>6. /\ \A f \in Scalars \cap fields : w.clocks[f] = c
      /\ \A f \in Scalars \ fields : w.clocks[f] = version[d].clocks[f]
  BY <1>2, <1>5 DEF Stamped
<1>7. /\ \A f \in Scalars \cap fields : Written(r, fields)[f] = r[f]
      /\ \A f \in Scalars \ fields : Written(r, fields)[f] = Untouched
  BY <1>5 DEF Written
<1> QED
  BY <1>1, <1>2, <1>3, <1>4, <1>5, <1>6, <1>7 DEF Takes

\* A created row takes every column from its stamp.
LEMMA CreateShows ==
  ASSUME SInv, NEW d \in Devices, NEW r \in NextRows(d), Create(d, r)
  PROVE  SInv'
<1>1. PICK c : c = now + 1
  OBVIOUS
<1>2. PICK w : w = [row |-> r, valued |-> TRUE, deletedAt |-> Never,
                    clocks |-> Stamped(NoVersion.clocks, Created(version[d], r), c)]
  OBVIOUS
<1>3. PICK fields : fields = Intended(d, r)
  OBVIOUS
<1>4. /\ c <= MaxStamps /\ now' = c /\ deletes' = deletes /\ blind' = blind
      /\ seen' = [seen EXCEPT ![d] = @ \cup {c}]
      /\ version' = [version EXCEPT ![d] = w]
      /\ wrote' = [wrote EXCEPT ![c] = Written(r, fields)]
  BY <1>1, <1>2, <1>3 DEF Create, Note, Written
<1>5. FInv /\ WroteInv
  BY DEF SInv
<1>6. r \in Rows
  BY <1>1, <1>4, <1>5, RowsGiven
<1>7. Scalars \subseteq fields /\ Scalars \subseteq Created(version[d], r)
  BY <1>3, FieldsExist DEF Intended, Created
<1>8. \A f \in Scalars : w.clocks[f] = c /\ w.row[f] = r[f]
  BY <1>2, <1>7, FieldsExist DEF Stamped
<1>9. Takes(version[d], w, c, fields, Written(r, fields))
  <2>1. w.valued = TRUE
    BY <1>2
  <2>2. \A f \in Scalars : Written(r, fields)[f] = r[f] /\ r[f] # Untouched
    BY <1>6, <1>7, FieldsExist DEF Written, Rows, Untouched
  <2> QED
    BY <1>7, <1>8, <2>1, <2>2 DEF Takes
<1>10. FInv'
  BY <1>5, CreateStep
<1>11. PICK C : C = {c}
  OBVIOUS
<1>12. /\ C \in SUBSET (Stamps \ (1 .. now)) /\ c \in C
       /\ seen' = [seen EXCEPT ![d] = @ \cup C]
       /\ now' \in Nat /\ now' >= c /\ deletes \subseteq deletes'
  <2>1. now \in 0 .. MaxStamps /\ MaxStamps \in Nat
    BY <1>5, SeenIs
  <2> QED
    BY <1>1, <1>4, <1>11, <2>1 DEF Stamps
<1> QED
  BY <1>1, <1>4, <1>6, <1>9, <1>10, <1>12, WrittenStep

\* An edited row takes the columns it changes.
LEMMA EditShows ==
  ASSUME SInv, NEW d \in Devices, NEW r \in NextRows(d), Edit(d, r)
  PROVE  SInv'
<1>1. PICK c : c = now + 1
  OBVIOUS
<1>2. PICK w : w = EditedVersion(version[d], r, c)
  OBVIOUS
<1>3. PICK fields : fields = Changed(version[d], r)
  OBVIOUS
<1>5. FInv /\ WroteInv
  BY DEF SInv
<1>4. /\ c <= MaxStamps /\ now' = c /\ deletes' = deletes /\ blind' = blind /\ Live(version[d])
      /\ seen' = [seen EXCEPT ![d] = @ \cup {c}]
      /\ version' = [version EXCEPT ![d] = w]
      /\ wrote' = [wrote EXCEPT ![c] = Written(r, fields)]
  <2>1. version' = [version EXCEPT ![d].row = r, ![d].clocks = Stamped(@, Changed(version[d], r), c)]
    BY <1>1 DEF Edit
  <2>2. version' = [version EXCEPT ![d] = w]
    BY <1>2, <1>5, <2>1 DEF FInv, EditedVersion
  <2> QED
    BY <1>1, <1>3, <2>2 DEF Edit, Note, Written
<1>6. r \in Rows
  BY <1>1, <1>4, <1>5, RowsGiven
<1>7. Takes(version[d], w, c, fields, Written(r, fields))
  BY <1>2, <1>3, <1>4, <1>5, <1>6, EditedTakes
<1>8. FInv'
  BY <1>5, EditStep
<1>9. PICK C : C = {c}
  OBVIOUS
<1>10. /\ C \in SUBSET (Stamps \ (1 .. now)) /\ c \in C
       /\ seen' = [seen EXCEPT ![d] = @ \cup C]
       /\ now' \in Nat /\ now' >= c /\ deletes \subseteq deletes'
  <2>1. now \in 0 .. MaxStamps /\ MaxStamps \in Nat
    BY <1>5, SeenIs
  <2> QED
    BY <1>1, <1>4, <1>9, <2>1 DEF Stamps
<1> QED
  BY <1>1, <1>4, <1>6, <1>7, <1>8, <1>10, WrittenStep

\* A delete writes no column; one that the scan found is in blind.
LEMMA DeleteShows ==
  ASSUME SInv, NEW d \in Devices, Delete(d) \/ DeleteUnseen(d)
  PROVE  SInv'
<1>1. PICK c : c = now + 1
  OBVIOUS
<1>2. FInv /\ WroteInv /\ FInv'
  BY DeleteStep DEF SInv
<1>3. /\ c <= MaxStamps /\ now' = c /\ wrote' = wrote /\ deletes' = deletes \cup {c}
      /\ blind' = blind \/ blind' = blind \cup {c}
      /\ seen' = [seen EXCEPT ![d] = @ \cup {c}] /\ Live(version[d])
  BY <1>1 DEF Delete, DeleteUnseen
<1>4. /\ now \in 0 .. MaxStamps /\ MaxStamps \in Nat /\ c \in Stamps /\ c > now
      /\ \A e \in Devices : c \notin seen[e]
  <2>1. now \in 0 .. MaxStamps /\ MaxStamps \in Nat
    BY <1>2, SeenIs
  <2>2. \A e \in Devices : seen[e] \subseteq 1 .. now
    BY <1>2, SeenIs
  <2> QED
    BY <1>1, <1>3, <2>1, <2>2 DEF Stamps
<1>5. WroteInv'
  <2>1. \A k \in Stamps : k > now' => k > now
    BY <1>3, <1>4 DEF Stamps
  <2> QED
    BY <1>2, <1>3, <2>1 DEF WroteInv, Untouched
<1>6. ASSUME NEW e \in Devices \ {d}
      PROVE  Shows(version[e], seen[e])'
  <2>1. version'[e] = version[e] /\ seen'[e] = seen[e]
    BY <1>2, <1>3 DEF FInv, Delete, DeleteUnseen
  <2>2. blind' \cap seen[e] = blind \cap seen[e]
    BY <1>3, <1>4
  <2> QED
    BY <1>3, <2>1, <2>2, OthersShow
<1>7. Shows(version[d], seen[d])'
  <2>1. seen'[d] = seen[d] \cup {c}
    BY <1>2, <1>3 DEF FInv
  <2>2. CASE Delete(d)
    <3>1. PICK w : w = Buried(version[d], c, TRUE)
      OBVIOUS
    <3>2. version'[d] = w /\ blind' = blind
      BY <1>1, <1>2, <2>2, <3>1 DEF Delete, FInv
    <3>3. version[d] \in Versions /\ version[d].valued = TRUE
      BY <1>2, <1>3 DEF FInv, Says, WellFormed, Live
    <3>4. w.valued = TRUE /\ w.row = version[d].row /\ w.clocks = version[d].clocks
      BY <3>1, <3>3 DEF Buried, Versions
    <3>5. PICK what : what = wrote[c]
      OBVIOUS
    <3>6. \A f \in Scalars : what[f] = Untouched
      BY <1>2, <1>3, <1>4, <3>5, FieldsExist DEF WroteInv
    <3>7. StampWrites(c, what)
      BY <1>3, <3>5 DEF StampWrites
    <3>8. PICK F : F = {}
      OBVIOUS
    <3>9. Takes(version[d], w, c, F, what)
      BY <3>3, <3>4, <3>6, <3>8 DEF Takes
    <3>10. PICK C : C = {c}
      OBVIOUS
    <3>11. C \in SUBSET (Stamps \ (1 .. now)) /\ c \in C /\ seen'[d] = seen[d] \cup C
      BY <1>4, <2>1, <3>10
    <3> QED
      BY <1>1, <1>4, <3>2, <3>7, <3>9, <3>11, WriteShows
  <2>3. CASE DeleteUnseen(d)
    <3>1. blind' = blind \cup {c}
      BY <1>1, <2>3 DEF DeleteUnseen
    <3> QED
      BY <2>1, <3>1 DEF Shows
  <2> QED
    BY <2>2, <2>3
<1>8. ASSUME NEW e \in Devices
      PROVE  Shows(version[e], seen[e])'
  BY <1>6, <1>7
<1> QED
  BY <1>2, <1>5, <1>8 DEF SInv

\* The edit counts before the delete.
LEMMA EditThenDeleteShows ==
  ASSUME SInv, NEW d \in Devices, NEW r \in NextRows(d), EditThenDelete(d, r)
  PROVE  SInv'
<1>1. PICK c : c = now + 1
  OBVIOUS
<1>2. PICK u : u = EditedVersion(version[d], r, c)
  OBVIOUS
<1>3. PICK w : w = Buried(u, c + 1, TRUE)
  OBVIOUS
<1>4. PICK fields : fields = Changed(version[d], r)
  OBVIOUS
<1>5. FInv /\ WroteInv /\ FInv'
  BY EditThenDeleteStep DEF SInv
<1>6. /\ c + 1 <= MaxStamps /\ now' = c + 1 /\ deletes' = deletes \cup {c + 1} /\ blind' = blind
      /\ Live(version[d])
      /\ seen' = [seen EXCEPT ![d] = @ \cup {c, c + 1}]
      /\ version' = [version EXCEPT ![d] = w]
      /\ wrote' = [wrote EXCEPT ![c] = Written(r, fields)]
  BY <1>1, <1>2, <1>3, <1>4 DEF EditThenDelete, EditedVersion, Written
<1>7. now \in 0 .. MaxStamps /\ MaxStamps \in Nat /\ c <= MaxStamps /\ now + 1 <= MaxStamps
  <2>1. now \in 0 .. MaxStamps /\ MaxStamps \in Nat
    BY <1>5, SeenIs
  <2> QED
    BY <1>1, <1>6, <2>1
<1>8. r \in Rows
  BY <1>5, <1>7, RowsGiven
<1>9. Takes(version[d], u, c, fields, Written(r, fields))
  BY <1>2, <1>4, <1>5, <1>6, <1>8, EditedTakes
<1>10. w.valued = TRUE /\ w.row = u.row /\ w.clocks = u.clocks
  <2>1. version[d] \in Versions
    BY <1>5 DEF FInv, Says, WellFormed
  <2>2. u = [row |-> u.row, valued |-> u.valued, clocks |-> u.clocks, deletedAt |-> u.deletedAt]
    BY <1>2, <2>1 DEF EditedVersion, Versions
  <2> QED
    BY <1>3, <2>2 DEF Buried
<1>11. Takes(version[d], w, c, fields, Written(r, fields))
  BY <1>9, <1>10 DEF Takes
<1>12. PICK C : C = {c, c + 1}
  OBVIOUS
<1>13. /\ C \in SUBSET (Stamps \ (1 .. now)) /\ c \in C
       /\ seen' = [seen EXCEPT ![d] = @ \cup C]
       /\ now' \in Nat /\ now' >= c /\ deletes \subseteq deletes'
  BY <1>1, <1>6, <1>7, <1>12 DEF Stamps
<1> QED
  BY <1>1, <1>5, <1>6, <1>7, <1>8, <1>11, <1>13, WrittenStep

\* Two columns that show their newest writes give the newest of both.
LEMMA ColumnsJoin ==
  ASSUME SInv, NEW x \in Versions, NEW y \in Versions, NEW f \in Scalars,
         NEW A \in SUBSET Stamps, NEW B \in SUBSET Stamps,
         x.clocks[f] = NewestOf(Writes(f, A)), x.clocks[f] # Never,
         y.clocks[f] = NewestOf(Writes(f, B)), y.clocks[f] # Never,
         x.row[f] = wrote[x.clocks[f]][f], y.row[f] = wrote[y.clocks[f]][f]
  PROVE  /\ JoinedClocks(x, y)[f] = NewestOf(Writes(f, A \cup B))
         /\ JoinedClocks(x, y)[f] # Never
         /\ JoinedRow(x, y)[f] = wrote[JoinedClocks(x, y)[f]][f]
<1>1. /\ x.clocks[f] \in 0 .. MaxStamps /\ y.clocks[f] \in 0 .. MaxStamps /\ MaxStamps \in Nat
      /\ f \in Fields
  BY FieldsExist DEF Versions, Clocks
<1>2. JoinedClocks(x, y)[f] = Later(x.clocks[f], y.clocks[f])
  BY <1>1 DEF JoinedClocks
<1>3. /\ Writes(f, A \cup B) = Writes(f, A) \cup Writes(f, B)
      /\ Writes(f, A) \in SUBSET Stamps /\ Writes(f, B) \in SUBSET Stamps
  BY DEF Writes
<1>4. NewestOf(Writes(f, A \cup B)) = Later(x.clocks[f], y.clocks[f])
  BY <1>3, NewestOfBoth
<1>5. JoinedRow(x, y)[f] = IF RemoteHas(x, y, f) THEN y.row[f] ELSE x.row[f]
  BY <1>1 DEF JoinedRow
<1>6. Holds(x, f) /\ Holds(y, f)
  BY DEF Holds
<1>7. CASE y.clocks[f] > x.clocks[f]
  <2>1. RemoteHas(x, y, f) /\ Later(x.clocks[f], y.clocks[f]) = y.clocks[f]
    BY <1>1, <1>6, <1>7 DEF RemoteHas, Later
  <2> QED
    BY <1>2, <1>4, <1>5, <2>1
<1>8. CASE y.clocks[f] = x.clocks[f]
  <2>1. x.row[f] = y.row[f] /\ Later(x.clocks[f], y.clocks[f]) = x.clocks[f]
    BY <1>1, <1>8 DEF Later
  <2> QED
    BY <1>2, <1>4, <1>5, <2>1
<1>9. CASE y.clocks[f] < x.clocks[f]
  <2>1. ~RemoteHas(x, y, f) /\ Later(x.clocks[f], y.clocks[f]) = x.clocks[f]
    BY <1>1, <1>6, <1>9 DEF RemoteHas, Later
  <2> QED
    BY <1>2, <1>4, <1>5, <2>1
<1> QED
  BY <1>1, <1>7, <1>8, <1>9

\* A tombstone that an edit outlives adds nothing to a column.
LEMMA KeptColumns ==
  ASSUME NEW v, NEW t, WellFormed(v), WellFormed(t), ~Deleted(v, t), NEW f \in Scalars
  PROVE  Kept(v, t).clocks[f] = v.clocks[f] /\ Kept(v, t).row = v.row
<1>1. v \in Versions /\ f \in Fields /\ f \notin Members
  BY FieldsExist, FieldsAssumption, Parts
<1>2. CASE Dead(t) /\ Live(v)
  <2>1. WithRemovals(v, t).clocks = [g \in Fields |->
           IF g \in Members /\ t.clocks[g] # Never /\ v.row[g] = Absent
           THEN Later(v.clocks[g], t.deletedAt) ELSE v.clocks[g]]
    BY <1>1 DEF WithRemovals, Versions
  <2>2. Kept(v, t) = WithRemovals(v, t)
    BY <1>2 DEF Kept
  <2> QED
    BY <1>1, <2>1, <2>2, KeptIs
<1>3. CASE ~(Dead(t) /\ Live(v))
  BY <1>3 DEF Kept
<1> QED
  BY <1>2, <1>3

\* Merging with a device that has nothing gives what the other has.
LEMMA MergeNothing ==
  ASSUME NEW b, WellFormed(b), b.valued = TRUE
  PROVE  /\ Merge(NoVersion, b).row = b.row /\ Merge(NoVersion, b).clocks = b.clocks
         /\ Merge(NoVersion, b).valued = TRUE
<1>1. /\ b \in Versions /\ b.row \in Rows /\ MaxStamps \in Nat
      /\ \A f \in Fields : b.clocks[f] \in 0 .. MaxStamps
      /\ b.clocks = [f \in Fields |-> b.clocks[f]]
  BY Parts, FieldsExist DEF Clocks
<1>2. /\ NoVersion.valued = FALSE /\ \A f \in Fields : NoVersion.clocks[f] = 0
      /\ ~Dead(NoVersion) /\ ~Live(NoVersion)
  BY DEF NoVersion, Never, Dead, Live
<1>3. JoinedClocks(NoVersion, b) = b.clocks
  <2>1. \A f \in Fields : Later(NoVersion.clocks[f], b.clocks[f]) = b.clocks[f]
    BY <1>1, <1>2 DEF Later
  <2> QED
    BY <1>1, <2>1 DEF JoinedClocks
<1>4. Covers(b, b.clocks)
  BY <1>1 DEF Covers
<1>5. CASE Deleted(NoVersion, b)
  <2>1. Merge(NoVersion, b) = Tombstone(NoVersion, b)
    BY <1>5 DEF Merge
  <2>2. Tombstone(NoVersion, b) = [row |-> b.row, valued |-> b.row # NoRow, clocks |-> b.clocks,
                                   deletedAt |-> LatestDelete(NoVersion, b)]
    BY <1>2, <1>3, <1>4 DEF Tombstone
  <2>3. (b.row # NoRow) = TRUE
    BY <1>1, FieldsExist
  <2>4. /\ Tombstone(NoVersion, b).row = b.row /\ Tombstone(NoVersion, b).clocks = b.clocks
        /\ Tombstone(NoVersion, b).valued = (b.row # NoRow)
    BY <2>2
  <2> QED
    BY <2>1, <2>3, <2>4
<1>6. CASE ~Deleted(NoVersion, b)
  BY <1>2, <1>6 DEF Merge, Survivor
<1> QED
  BY <1>5, <1>6

\* What a side brings to a merge: all it has, or what an outlived tombstone leaves of it.
Side(v, other) == IF Deleted(v, other) THEN v ELSE Kept(v, other)

\* Merging two versions that have their rows joins them field by field.
LEMMA MergedValues ==
  ASSUME NEW a, NEW b, WellFormed(a), WellFormed(b), a.valued = TRUE, b.valued = TRUE
  PROVE  /\ Side(a, b) \in Versions /\ Side(b, a) \in Versions
         /\ Side(a, b).row = a.row /\ Side(b, a).row = b.row
         /\ Merge(a, b).row = JoinedRow(Side(a, b), Side(b, a))
         /\ Merge(a, b).clocks = JoinedClocks(Side(a, b), Side(b, a))
         /\ Merge(a, b).valued = TRUE
<1>1. CASE Deleted(a, b)
  <2>1. Side(a, b) = a /\ Side(b, a) = b /\ a \in Versions /\ b \in Versions
    BY <1>1, Parts, DeletedBoth DEF Side
  <2>2. (JoinedRow(a, b) # NoRow) = TRUE
    <3>1. JoinedRow(a, b) # NoRow
      BY Parts, RowsJoin, FieldsExist
    <3> QED
      BY <3>1
  <2>3. Merge(a, b) = [row |-> JoinedRow(a, b), valued |-> JoinedRow(a, b) # NoRow,
                       clocks |-> JoinedClocks(a, b), deletedAt |-> LatestDelete(a, b)]
    BY <1>1 DEF Merge, Tombstone
  <2>4. /\ Merge(a, b).row = JoinedRow(a, b) /\ Merge(a, b).clocks = JoinedClocks(a, b)
        /\ Merge(a, b).valued = (JoinedRow(a, b) # NoRow)
    BY <2>3
  <2> QED
    BY <2>1, <2>2, <2>4
<1>2. CASE ~Deleted(a, b)
  <2>1. ~Deleted(b, a) /\ Side(a, b) = Kept(a, b) /\ Side(b, a) = Kept(b, a)
    BY <1>2, DeletedBoth DEF Side
  <2>2. /\ Kept(a, b) \in Versions /\ Kept(b, a) \in Versions
        /\ Kept(a, b).row = a.row /\ Kept(b, a).row = b.row
    BY <1>2, <2>1, KeptIs
  <2>3. Merge(a, b) = Joined(Kept(a, b), Kept(b, a))
    BY <1>2, <2>1 DEF Merge, Survivor, Kept
  <2> QED
    BY <2>1, <2>2, <2>3 DEF Joined
<1> QED
  BY <1>1, <1>2

\* A merge takes every column from the side that has its newest write.
LEMMA ApplyShows ==
  ASSUME SInv, NEW d \in Devices, NEW e \in Devices, Apply(d, e)
  PROVE  SInv'
<1>1. PICK a : a = version[d]
  OBVIOUS
<1>2. PICK b : b = version[e]
  OBVIOUS
<1>3. PICK w : w = Merge(a, b)
  OBVIOUS
<1>4. PICK A : A = seen[d]
  OBVIOUS
<1>5. PICK B : B = seen[e]
  OBVIOUS
<1>6. FInv /\ WroteInv /\ FInv'
  BY ApplyStep DEF SInv
<1>7. /\ version' = [version EXCEPT ![d] = w] /\ seen' = [seen EXCEPT ![d] = A \cup B]
      /\ now' = now /\ wrote' = wrote /\ deletes' = deletes /\ blind' = blind /\ b # NoVersion
  BY <1>1, <1>2, <1>3, <1>4, <1>5 DEF Apply
<1>8. /\ Shows(a, A) /\ Shows(b, B) /\ Says(a, A) /\ Says(b, B) /\ WellFormed(a) /\ WellFormed(b)
      /\ A \in SUBSET Stamps /\ B \in SUBSET Stamps
  BY <1>1, <1>2, <1>4, <1>5, <1>6, SeenIs DEF SInv, FInv, Says
<1>9. SUFFICES Shows(w, A \cup B)
  <2>1. ASSUME NEW x \in Devices
        PROVE  Shows(version'[x], seen'[x])
    <3>1. CASE x = d
      <4>1. version'[x] = w /\ seen'[x] = A \cup B
        BY <1>6, <1>7, <3>1 DEF FInv
      <4> QED
        BY <1>9, <4>1
    <3>2. CASE x # d
      <4>1. version'[x] = version[x] /\ seen'[x] = seen[x]
        BY <1>6, <1>7, <3>2 DEF FInv
      <4> QED
        BY <4>1 DEF SInv
    <3> QED
      BY <3>1, <3>2
  <2>2. ASSUME NEW x \in Devices
        PROVE  Shows(version[x], seen[x])'
    <3>1. Shows(version'[x], seen'[x])
      BY <2>1
    <3> QED
      BY <1>7, <3>1 DEF Shows, Writes, NewestOf, Untouched
  <2>3. WroteInv'
    BY <1>6, <1>7 DEF WroteInv, Untouched
  <2> QED
    BY <1>6, <2>2, <2>3 DEF SInv
<1>10. SUFFICES ASSUME (A \cup B) \cap blind = {}
                PROVE  /\ w.valued = TRUE /\ A \cup B # {}
                       /\ \A f \in Scalars :
                            /\ w.clocks[f] = NewestOf(Writes(f, A \cup B))
                            /\ w.clocks[f] # Never /\ w.row[f] = wrote[w.clocks[f]][f]
  BY DEF Shows
<1>11. /\ B # {} /\ b.valued = TRUE /\ (a.valued = TRUE <=> A # {})
       /\ \A f \in Scalars : /\ b.clocks[f] = NewestOf(Writes(f, B)) /\ b.clocks[f] # Never
                             /\ b.row[f] = wrote[b.clocks[f]][f]
  <2>1. B # {} /\ A \cap blind = {} /\ B \cap blind = {}
    BY <1>7, <1>8, <1>10 DEF Says
  <2>2. a.valued \in BOOLEAN /\ b.valued \in BOOLEAN
    BY <1>8, Parts
  <2> QED
    BY <1>8, <2>1, <2>2 DEF Shows
<1>12. CASE A = {}
  <2>1. a = NoVersion
    BY <1>8, <1>12 DEF Says
  <2>2. w.row = b.row /\ w.clocks = b.clocks /\ w.valued = TRUE
    BY <1>3, <1>8, <1>11, <2>1, MergeNothing
  <2>3. A \cup B = B
    BY <1>12
  <2> QED
    BY <1>11, <2>2, <2>3
<1>13. CASE A # {}
  <2>1. /\ a.valued = TRUE
        /\ \A f \in Scalars : /\ a.clocks[f] = NewestOf(Writes(f, A)) /\ a.clocks[f] # Never
                              /\ a.row[f] = wrote[a.clocks[f]][f]
    BY <1>8, <1>10, <1>11, <1>13 DEF Shows
  <2>2. PICK x : x = Side(a, b)
    OBVIOUS
  <2>3. PICK y : y = Side(b, a)
    OBVIOUS
  <2>4. /\ x \in Versions /\ y \in Versions /\ x.row = a.row /\ y.row = b.row
        /\ w.row = JoinedRow(x, y) /\ w.clocks = JoinedClocks(x, y) /\ w.valued = TRUE
    <3>1. WellFormed(a) /\ WellFormed(b) /\ a.valued = TRUE /\ b.valued = TRUE
      BY <1>8, <1>11, <2>1
    <3>2. /\ Side(a, b) \in Versions /\ Side(b, a) \in Versions
          /\ Side(a, b).row = a.row /\ Side(b, a).row = b.row
          /\ Merge(a, b).row = JoinedRow(Side(a, b), Side(b, a))
          /\ Merge(a, b).clocks = JoinedClocks(Side(a, b), Side(b, a))
          /\ Merge(a, b).valued = TRUE
      BY <3>1, MergedValues
    <3> QED
      BY <1>3, <2>2, <2>3, <3>2
  <2>5. \A f \in Scalars : x.clocks[f] = a.clocks[f] /\ y.clocks[f] = b.clocks[f]
    <3>1. CASE Deleted(a, b)
      BY <1>8, <2>2, <2>3, <3>1, DeletedBoth DEF Side
    <3>2. CASE ~Deleted(a, b)
      <4>1. ~Deleted(b, a)
        BY <1>8, <3>2, DeletedBoth
      <4> QED
        BY <1>8, <2>2, <2>3, <3>2, <4>1, KeptColumns DEF Side
    <3> QED
      BY <3>1, <3>2
  <2>6. ASSUME NEW f \in Scalars
        PROVE  /\ w.clocks[f] = NewestOf(Writes(f, A \cup B))
               /\ w.clocks[f] # Never /\ w.row[f] = wrote[w.clocks[f]][f]
    <3>1. /\ x.clocks[f] = NewestOf(Writes(f, A)) /\ x.clocks[f] # Never
          /\ y.clocks[f] = NewestOf(Writes(f, B)) /\ y.clocks[f] # Never
          /\ x.row[f] = wrote[x.clocks[f]][f] /\ y.row[f] = wrote[y.clocks[f]][f]
      BY <1>11, <2>1, <2>4, <2>5
    <3>2. x \in Versions /\ y \in Versions
      BY <2>4
    <3>3. /\ JoinedClocks(x, y)[f] = NewestOf(Writes(f, A \cup B))
          /\ JoinedClocks(x, y)[f] # Never
          /\ JoinedRow(x, y)[f] = wrote[JoinedClocks(x, y)[f]][f]
      BY <1>8, <3>1, <3>2, ColumnsJoin
    <3> QED
      BY <2>4, <3>3
  <2> QED
    BY <1>11, <2>4, <2>6
<1> QED
  BY <1>12, <1>13

\* Every step keeps what the columns show.
LEMMA SNext == SInv /\ [Next]_vars => SInv'
<1> SUFFICES ASSUME SInv, [Next]_vars PROVE SInv'
  OBVIOUS
<1>1. Editors \subseteq Devices
  BY FieldsAssumption
<1>2. CASE \E d \in Editors : \E r \in NextRows(d) : Create(d, r) \/ Edit(d, r) \/ EditThenDelete(d, r)
  BY <1>1, <1>2, CreateShows, EditShows, EditThenDeleteShows
<1>3. CASE \E d \in Editors : Delete(d) \/ DeleteUnseen(d)
  BY <1>1, <1>3, DeleteShows
<1>4. CASE \E d, e \in Devices : Apply(d, e)
  BY <1>4, ApplyShows
<1>5. CASE UNCHANGED vars
  <2>1. FInv'
    BY <1>5, FNext DEF SInv
  <2> QED
    BY <1>5, <2>1 DEF SInv, WroteInv, Shows, Writes, NewestOf, Untouched, vars, observers
<1> QED
  BY <1>2, <1>3, <1>4, <1>5 DEF Next

----------------------------------------------------------------------------
(* What a key or element shows                                             *)

\* Clock k and value r of member f, when n is its newest write and T are the deletes
\* known: it shows what n wrote, or a delete later than n took it along.
Explains(k, r, f, n, T) ==
  \/ k = n /\ r = (IF n = Never THEN Absent ELSE wrote[n][f])
  \/ k > n /\ r = Absent /\ k \in T

\* If no merged delete lost the row, version v explains every member by the stamps S,
\* and has no clock for one that nobody wrote.
Holding(v, S) ==
  S \cap blind = {} =>
    \A f \in Members :
      /\ v.clocks[f] # Never => Writes(f, S) # {}
      /\ Explains(v.clocks[f], v.row[f], f, NewestOf(Writes(f, S)), S \cap deletes)

DeletesWriteNothing == \A c \in deletes : \A f \in Fields : wrote[c][f] = Untouched

MInv ==
  /\ SInv /\ DeletesWriteNothing
  /\ \A d \in Devices : Holding(version[d], seen[d])

\* Members are fields.
LEMMA MembersAre == Members \subseteq Fields
BY DEF Fields

\* Nothing holds nothing.
LEMMA MInit == Init => MInv
<1> SUFFICES ASSUME Init PROVE MInv
  OBVIOUS
<1>1. /\ version = [d \in Devices |-> NoVersion] /\ deletes = {}
      /\ seen = [d \in Devices |-> {}]
  BY DEF Init
<1>2. Holding(NoVersion, {})
  <2>1. \A f \in Fields : Writes(f, {}) = {}
    BY DEF Writes
  <2>2. \A f \in Members : NoVersion.clocks[f] = 0 /\ NoVersion.row[f] = Absent
    BY MembersAre DEF NoVersion, NoRow, Never
  <2> QED
    BY <2>1, <2>2, NewestOfNone, MembersAre DEF Holding, Explains, Never
<1>3. SInv /\ DeletesWriteNothing
  BY <1>1, SInit DEF DeletesWriteNothing
<1> QED
  BY <1>1, <1>2, <1>3 DEF MInv

\* The newest write of a field, after a device stamped c and perhaps more with it.
LEMMA NewestWritten ==
  ASSUME FInv, WroteInv, NEW d \in Devices, NEW f \in Fields, NEW c \in Stamps, c = now + 1,
         NEW C \in SUBSET (Stamps \ (1 .. now)), c \in C,
         seen'[d] = seen[d] \cup C, \A k \in Stamps : k # c => wrote'[k] = wrote[k]
  PROVE  /\ wrote'[c][f] # Untouched =>
              NewestOf(Writes(f, seen[d])') = c /\ c \in Writes(f, seen[d])'
         /\ wrote'[c][f] = Untouched => Writes(f, seen[d])' = Writes(f, seen[d])
<1>0. PICK W : W = Writes(f, seen[d])'
  OBVIOUS
<1>w. W = {k \in seen[d] \cup C : wrote'[k][f] # Untouched}
  BY <1>0 DEF Writes, Untouched
<1>1. /\ seen[d] \subseteq 1 .. now /\ seen[d] \in SUBSET Stamps
      /\ now \in 0 .. MaxStamps /\ MaxStamps \in Nat
  BY SeenIs
<1>2. \A k \in seen[d] : k # c /\ k <= c /\ wrote'[k] = wrote[k]
  BY <1>1
<1>3. \A k \in C \ {c} : wrote'[k][f] = Untouched
  <2>1. \A k \in C : k \in Stamps /\ k > now
    BY <1>1 DEF Stamps
  <2> QED
    BY <2>1 DEF WroteInv
<1>4. ASSUME wrote'[c][f] # Untouched
      PROVE  NewestOf(W) = c /\ c \in W
  <2>1. c \in W /\ W \in SUBSET Stamps
    BY <1>1, <1>4, <1>w
  <2>2. \A k \in W : c >= k
    <3>1. c \in 1 .. MaxStamps
      BY DEF Stamps
    <3>2. \A k \in W : k \in seen[d] \/ k = c
      BY <1>3, <1>w
    <3>3. \A k \in seen[d] : k \in 1 .. MaxStamps /\ k <= c
      BY <1>1, <1>2
    <3> QED
      BY <1>1, <3>1, <3>2, <3>3
  <2> QED
    BY <2>1, <2>2, NewestOfEq
<1>5. ASSUME wrote'[c][f] = Untouched
      PROVE  W = Writes(f, seen[d])
  BY <1>2, <1>3, <1>5, <1>w DEF Writes
<1> QED
  BY <1>0, <1>4, <1>5

\* Version w takes the members of F from what stamp c wrote, and the others from v.
TakesMembers(v, w, c, F, what) ==
  /\ \A f \in Members \cap F : w.clocks[f] = c /\ w.row[f] = what[f] /\ what[f] # Untouched
  /\ \A f \in Members \ F : /\ what[f] = Untouched
                            /\ w.clocks[f] = v.clocks[f] /\ w.row[f] = v.row[f]

\* The new version of a device holds what it took.
LEMMA WriteHolds ==
  ASSUME MInv, NEW d \in Devices, NEW w, NEW F, NEW what, NEW c \in Stamps, c = now + 1,
         NEW C \in SUBSET (Stamps \ (1 .. now)), c \in C,
         version'[d] = w, seen'[d] = seen[d] \cup C, blind' = blind, deletes \subseteq deletes',
         StampWrites(c, what),
         seen[d] \cap blind = {} => TakesMembers(version[d], w, c, F, what)
  PROVE  Holding(version[d], seen[d])'
<1>1. /\ FInv /\ WroteInv /\ Holding(version[d], seen[d])
      /\ \A k \in Stamps : k # c => wrote'[k] = wrote[k]
      /\ wrote'[c] = what
  BY DEF MInv, SInv, StampWrites
<1>2. SUFFICES ASSUME (seen[d] \cup C) \cap blind = {}, NEW f \in Members
               PROVE  /\ w.clocks[f] # Never => Writes(f, seen[d])' # {}
                      /\ Explains(w.clocks[f], w.row[f], f, NewestOf(Writes(f, seen[d])),
                                  seen[d] \cap deletes)'
  BY DEF Holding, Explains, NewestOf
<1>a. PICK W : W = Writes(f, seen[d])'
  OBVIOUS
<1>3. f \in Fields /\ seen[d] \cap blind = {}
  BY <1>2, MembersAre
<1>4. /\ what[f] # Untouched => NewestOf(W) = c /\ c \in W
      /\ what[f] = Untouched => W = Writes(f, seen[d])
  BY <1>1, <1>3, <1>a, NewestWritten
<1>5. c # 0
  BY DEF Stamps
<1>6. CASE f \in F
  BY <1>1, <1>2, <1>3, <1>4, <1>5, <1>6, <1>a DEF TakesMembers, Explains, NewestOf, Never
<1>7. CASE f \notin F
  <2>1. /\ what[f] = Untouched /\ w.clocks[f] = version[d].clocks[f]
        /\ w.row[f] = version[d].row[f]
    BY <1>2, <1>3, <1>7 DEF TakesMembers
  <2>2. /\ version[d].clocks[f] # Never => Writes(f, seen[d]) # {}
        /\ Explains(version[d].clocks[f], version[d].row[f], f,
                    NewestOf(Writes(f, seen[d])), seen[d] \cap deletes)
    BY <1>1, <1>3 DEF Holding
  <2>3. PICK n : n = NewestOf(Writes(f, seen[d]))
    OBVIOUS
  <2>4. n # 0 => wrote'[n] = wrote[n]
    <3>1. /\ Writes(f, seen[d]) \in SUBSET seen[d] /\ Writes(f, seen[d]) \in SUBSET Stamps
          /\ \A k \in seen[d] : k # c /\ k \in Stamps
      BY <1>1, SeenIs DEF Writes
    <3>2. n # 0 => n \in seen[d]
      BY <2>3, <3>1, NewestOfIs
    <3> QED
      BY <1>1, <3>1, <3>2
  <2>5. seen[d] \cap deletes \subseteq seen'[d] \cap deletes'
    OBVIOUS
  <2>6. /\ W = Writes(f, seen[d]) /\ NewestOf(W) = n
    BY <1>4, <2>1, <2>3
  <2>7. Explains(w.clocks[f], w.row[f], f, n, seen[d] \cap deletes)'
    BY <2>1, <2>2, <2>3, <2>4, <2>5 DEF Explains, Never
  <2> QED
    BY <1>a, <2>1, <2>2, <2>6, <2>7 DEF Explains, NewestOf
<1> QED
  BY <1>6, <1>7

\* A step that stamps on device d leaves what the others hold.
LEMMA OthersHold ==
  ASSUME MInv, NEW e \in Devices, version'[e] = version[e], seen'[e] = seen[e],
         \A k \in Stamps : k <= now => wrote'[k] = wrote[k],
         blind' \cap seen[e] = blind \cap seen[e], deletes \subseteq deletes'
  PROVE  Holding(version[e], seen[e])'
<1>1. Holding(version[e], seen[e]) /\ FInv
  BY DEF MInv, SInv
<1>2. /\ seen[e] \subseteq 1 .. now /\ seen[e] \in SUBSET Stamps
      /\ \A k \in seen[e] : wrote'[k] = wrote[k]
  BY <1>1, SeenIs
<1>3. \A f \in Members : Writes(f, seen[e])' = Writes(f, seen[e])
  BY <1>2 DEF Writes, Untouched
<1>4. SUFFICES ASSUME seen[e] \cap blind = {}, NEW f \in Members
               PROVE  /\ version[e].clocks[f] # Never => Writes(f, seen[e]) # {}
                      /\ Explains(version[e].clocks[f], version[e].row[f], f,
                                  NewestOf(Writes(f, seen[e])), seen[e] \cap deletes)'
  BY <1>3 DEF Holding, Explains, NewestOf
<1>5. PICK n : n = NewestOf(Writes(f, seen[e]))
  OBVIOUS
<1>6. n # 0 => wrote'[n] = wrote[n]
  <2>1. Writes(f, seen[e]) \in SUBSET seen[e] /\ Writes(f, seen[e]) \in SUBSET Stamps
    BY <1>2 DEF Writes
  <2>2. n # 0 => n \in seen[e]
    BY <1>5, <2>1, NewestOfIs
  <2> QED
    BY <1>2, <2>2
<1>7. /\ version[e].clocks[f] # Never => Writes(f, seen[e]) # {}
      /\ Explains(version[e].clocks[f], version[e].row[f], f, n, seen[e] \cap deletes)
  BY <1>1, <1>4, <1>5 DEF Holding
<1>8. seen[e] \cap deletes \subseteq seen'[e] \cap deletes'
  OBVIOUS
<1>9. Explains(version[e].clocks[f], version[e].row[f], f, n, seen[e] \cap deletes)'
  BY <1>6, <1>7, <1>8 DEF Explains, Never
<1> QED
  BY <1>3, <1>4, <1>5, <1>7, <1>9 DEF Explains, NewestOf

\* A transaction that writes stamp c, and may delete with a later one.
LEMMA WrittenMembers ==
  ASSUME MInv, SInv', NEW d \in Devices, NEW r, NEW w, NEW fields, NEW c \in Stamps, c = now + 1,
         NEW C \in SUBSET (Stamps \ (1 .. now)), c \in C,
         deletes \subseteq deletes', deletes' \subseteq deletes \cup (C \ {c}), blind' = blind,
         seen' = [seen EXCEPT ![d] = @ \cup C], version' = [version EXCEPT ![d] = w],
         wrote' = [wrote EXCEPT ![c] = Written(r, fields)],
         seen[d] \cap blind = {} => TakesMembers(version[d], w, c, fields, Written(r, fields))
  PROVE  MInv'
<1>1. /\ FInv /\ WroteInv
      /\ now \in 0 .. MaxStamps /\ MaxStamps \in Nat
      /\ deletes \subseteq 1 .. now
  BY SeenIs DEF MInv, SInv, FInv
<1>2. /\ wrote'[c] = Written(r, fields)
      /\ \A k \in Stamps : k # c => wrote'[k] = wrote[k]
  BY <1>1 DEF WroteInv
<1>3. DeletesWriteNothing'
  <2> SUFFICES ASSUME NEW k \in deletes', NEW f \in Fields
               PROVE  wrote'[k][f] = Untouched
    BY DEF DeletesWriteNothing, Untouched
  <2>1. CASE k \in deletes
    <3>1. k # c /\ k \in Stamps
      BY <1>1, <2>1 DEF Stamps
    <3> QED
      BY <1>2, <2>1, <3>1 DEF MInv, DeletesWriteNothing
  <2>2. CASE k \in C \ {c}
    <3>1. k # c /\ k \in Stamps /\ k > now
      BY <1>1, <2>2 DEF Stamps
    <3> QED
      BY <1>1, <1>2, <3>1 DEF WroteInv
  <2> QED
    BY <2>1, <2>2
<1>4. ASSUME NEW e \in Devices \ {d}
      PROVE  Holding(version[e], seen[e])'
  <2>1. version'[e] = version[e] /\ seen'[e] = seen[e]
    BY <1>1 DEF FInv
  <2>2. \A k \in Stamps : k <= now => wrote'[k] = wrote[k]
    <3>1. \A k \in Stamps : k <= now => k # c
      BY <1>1 DEF Stamps
    <3> QED
      BY <1>2, <3>1
  <2> QED
    BY <2>1, <2>2, OthersHold
<1>5. Holding(version[d], seen[d])'
  <2>1. version'[d] = w /\ seen'[d] = seen[d] \cup C
    BY <1>1 DEF FInv
  <2>2. PICK what : what = Written(r, fields)
    OBVIOUS
  <2>3. StampWrites(c, what)
    BY <1>2, <2>2 DEF StampWrites
  <2>4. seen[d] \cap blind = {} => TakesMembers(version[d], w, c, fields, what)
    BY <2>2
  <2> QED
    BY <2>1, <2>3, <2>4, WriteHolds
<1>6. ASSUME NEW e \in Devices
      PROVE  Holding(version[e], seen[e])'
  BY <1>4, <1>5
<1> QED
  BY <1>3, <1>6 DEF MInv

\* Saving a row again gives a clock to every member that a merged stamp wrote, and
\* to no other that is absent: what the previous life wrote is overwritten.
LEMMA CreatedIs ==
  ASSUME MInv, NEW d \in Devices, NEW r, NEW f \in Members, seen[d] \cap blind = {}
  PROVE  /\ f \in Intended(d, r) <=> f \in Created(version[d], r)
         /\ f \notin Intended(d, r) =>
              /\ r[f] = Absent
              /\ version[d].clocks[f] = Never /\ version[d].row[f] = Absent
<1>1. /\ version[d].clocks[f] # Never => Writes(f, seen[d]) # {}
      /\ Explains(version[d].clocks[f], version[d].row[f], f,
                  NewestOf(Writes(f, seen[d])), seen[d] \cap deletes)
  BY DEF MInv, Holding
<1>2. f \in Fields /\ f \notin Scalars
  BY MembersAre, FieldsAssumption
<1>3. Writes(f, seen[d]) \in SUBSET Stamps
  BY SeenIs DEF MInv, SInv, Writes
<1>4. PICK n : n = NewestOf(Writes(f, seen[d]))
  OBVIOUS
<1>5. /\ n \in 0 .. MaxStamps /\ MaxStamps \in Nat
      /\ \A y \in Writes(f, seen[d]) : n >= y /\ y \in 1 .. MaxStamps
  BY <1>3, <1>4, NewestOfIs, FieldsExist DEF Clocks, Stamps
<1>6. Writes(f, seen[d]) # {} => n > 0
  BY <1>5
<1>7. Writes(f, seen[d]) # {} => version[d].clocks[f] # Never
  BY <1>1, <1>4, <1>5, <1>6 DEF Explains, Never
<1>8. version[d].clocks[f] # Never <=> \E s \in seen[d] : wrote[s][f] # Untouched
  BY <1>1, <1>7 DEF Writes
<1>9. f \in Intended(d, r) <=> r[f] # Absent \/ version[d].clocks[f] # Never
  BY <1>2, <1>8 DEF Intended
<1>10. f \in Created(version[d], r) <=> r[f] # Absent \/ version[d].clocks[f] # Never
  BY <1>2 DEF Created
<1>11. version[d].clocks[f] = Never => version[d].row[f] = Absent
  BY <1>1, <1>4, <1>5 DEF Explains, Never
<1> QED
  BY <1>9, <1>10, <1>11

\* A created row takes every member it stamps, and the others are not there.
LEMMA CreateHolds ==
  ASSUME MInv, NEW d \in Devices, NEW r \in NextRows(d), Create(d, r)
  PROVE  MInv'
<1>1. PICK c : c = now + 1
  OBVIOUS
<1>2. PICK w : w = [row |-> r, valued |-> TRUE, deletedAt |-> Never,
                    clocks |-> Stamped(NoVersion.clocks, Created(version[d], r), c)]
  OBVIOUS
<1>3. PICK fields : fields = Intended(d, r)
  OBVIOUS
<1>4. /\ c <= MaxStamps /\ deletes' = deletes /\ blind' = blind
      /\ seen' = [seen EXCEPT ![d] = @ \cup {c}]
      /\ version' = [version EXCEPT ![d] = w]
      /\ wrote' = [wrote EXCEPT ![c] = Written(r, fields)]
  BY <1>1, <1>2, <1>3 DEF Create, Note, Written
<1>5. SInv /\ FInv
  BY DEF MInv, SInv
<1>6. SInv'
  BY <1>5, CreateShows
<1>7. r \in Rows
  BY <1>1, <1>4, <1>5, RowsGiven
<1>8. \A f \in Fields : /\ r[f] # Untouched
                         /\ NoVersion.clocks[f] = Never
  BY <1>7, FieldsExist DEF Rows, Untouched, NoVersion
<1>9. ASSUME seen[d] \cap blind = {}
      PROVE  TakesMembers(version[d], w, c, fields, Written(r, fields))
  <2>1. ASSUME NEW f \in Members \cap fields
        PROVE  /\ w.clocks[f] = c /\ w.row[f] = Written(r, fields)[f]
               /\ Written(r, fields)[f] # Untouched
    <3>1. f \in Fields /\ f \in Created(version[d], r)
      BY <1>3, <1>9, <2>1, CreatedIs, MembersAre
    <3>2. w.clocks[f] = c /\ w.row[f] = r[f]
      BY <1>2, <3>1 DEF Stamped
    <3>3. Written(r, fields)[f] = r[f]
      BY <2>1, <3>1 DEF Written
    <3> QED
      BY <1>8, <3>1, <3>2, <3>3
  <2>2. ASSUME NEW f \in Members \ fields
        PROVE  /\ Written(r, fields)[f] = Untouched
               /\ w.clocks[f] = version[d].clocks[f] /\ w.row[f] = version[d].row[f]
    <3>1. /\ f \in Fields /\ f \notin Created(version[d], r) /\ r[f] = Absent
          /\ version[d].clocks[f] = Never /\ version[d].row[f] = Absent
      BY <1>3, <1>9, <2>2, CreatedIs, MembersAre
    <3>2. w.clocks[f] = Never /\ w.row[f] = r[f]
      BY <1>2, <1>8, <3>1 DEF Stamped
    <3>3. Written(r, fields)[f] = Untouched
      BY <2>2, <3>1 DEF Written
    <3> QED
      BY <3>1, <3>2, <3>3
  <2> QED
    BY <2>1, <2>2 DEF TakesMembers
<1>10. PICK C : C = {c}
  OBVIOUS
<1>11. /\ C \in SUBSET (Stamps \ (1 .. now)) /\ c \in C /\ c \in Stamps
       /\ seen' = [seen EXCEPT ![d] = @ \cup C]
       /\ deletes \subseteq deletes' /\ deletes' \subseteq deletes \cup (C \ {c})
  <2>1. now \in 0 .. MaxStamps /\ MaxStamps \in Nat
    BY <1>5, SeenIs
  <2> QED
    BY <1>1, <1>4, <1>10, <2>1 DEF Stamps
<1> QED
  BY <1>1, <1>4, <1>6, <1>9, <1>11, WrittenMembers

\* An edited version takes the members that were changed.
LEMMA EditedTakesMembers ==
  ASSUME FInv, NEW d \in Devices, Live(version[d]), NEW r \in Rows, NEW c, NEW w, NEW fields,
         w = EditedVersion(version[d], r, c), fields = Changed(version[d], r)
  PROVE  TakesMembers(version[d], w, c, fields, Written(r, fields))
<1>1. version[d] \in Versions
  BY DEF FInv, Says, WellFormed
<1>2. w.row = r /\ w.clocks = Stamped(version[d].clocks, Changed(version[d], r), c)
  BY <1>1 DEF EditedVersion, Versions
<1>3. \A f \in Members : f \in Fields
  BY MembersAre
<1>4. \A f \in Members \ fields : r[f] = version[d].row[f]
  BY <1>3 DEF Changed
<1>5. \A f \in Fields : r[f] # Untouched
  BY FieldsExist DEF Rows, Untouched
<1>6. /\ \A f \in Members \cap fields : w.clocks[f] = c
      /\ \A f \in Members \ fields : w.clocks[f] = version[d].clocks[f]
  BY <1>2, <1>3 DEF Stamped
<1>7. /\ \A f \in Members \cap fields : Written(r, fields)[f] = r[f]
      /\ \A f \in Members \ fields : Written(r, fields)[f] = Untouched
  BY <1>3 DEF Written
<1> QED
  BY <1>2, <1>3, <1>4, <1>5, <1>6, <1>7 DEF TakesMembers

\* An edit takes the members it changes.
LEMMA EditHolds ==
  ASSUME MInv, NEW d \in Devices, NEW r \in NextRows(d), Edit(d, r)
  PROVE  MInv'
<1>1. PICK c : c = now + 1
  OBVIOUS
<1>2. PICK w : w = EditedVersion(version[d], r, c)
  OBVIOUS
<1>3. PICK fields : fields = Changed(version[d], r)
  OBVIOUS
<1>4. SInv /\ FInv
  BY DEF MInv, SInv
<1>5. /\ c <= MaxStamps /\ deletes' = deletes /\ blind' = blind /\ Live(version[d])
      /\ seen' = [seen EXCEPT ![d] = @ \cup {c}]
      /\ version' = [version EXCEPT ![d] = w]
      /\ wrote' = [wrote EXCEPT ![c] = Written(r, fields)]
  <2>1. version' = [version EXCEPT ![d].row = r, ![d].clocks = Stamped(@, Changed(version[d], r), c)]
    BY <1>1 DEF Edit
  <2>2. version' = [version EXCEPT ![d] = w]
    BY <1>2, <1>4, <2>1 DEF FInv, EditedVersion
  <2> QED
    BY <1>1, <1>3, <2>2 DEF Edit, Note, Written
<1>6. SInv'
  BY <1>4, EditShows
<1>7. r \in Rows
  BY <1>1, <1>4, <1>5, RowsGiven
<1>8. TakesMembers(version[d], w, c, fields, Written(r, fields))
  BY <1>2, <1>3, <1>4, <1>5, <1>7, EditedTakesMembers
<1>9. PICK C : C = {c}
  OBVIOUS
<1>10. /\ C \in SUBSET (Stamps \ (1 .. now)) /\ c \in C /\ c \in Stamps
       /\ seen' = [seen EXCEPT ![d] = @ \cup C]
       /\ deletes \subseteq deletes' /\ deletes' \subseteq deletes \cup (C \ {c})
  <2>1. now \in 0 .. MaxStamps /\ MaxStamps \in Nat
    BY <1>4, SeenIs
  <2> QED
    BY <1>1, <1>5, <1>9, <2>1 DEF Stamps
<1> QED
  BY <1>1, <1>5, <1>6, <1>8, <1>10, WrittenMembers

\* The edit before the delete takes the members it changes.
LEMMA EditThenDeleteHolds ==
  ASSUME MInv, NEW d \in Devices, NEW r \in NextRows(d), EditThenDelete(d, r)
  PROVE  MInv'
<1>1. PICK c : c = now + 1
  OBVIOUS
<1>2. PICK u : u = EditedVersion(version[d], r, c)
  OBVIOUS
<1>3. PICK w : w = Buried(u, c + 1, TRUE)
  OBVIOUS
<1>4. PICK fields : fields = Changed(version[d], r)
  OBVIOUS
<1>5. SInv /\ FInv
  BY DEF MInv, SInv
<1>6. /\ c + 1 <= MaxStamps /\ deletes' = deletes \cup {c + 1} /\ blind' = blind
      /\ Live(version[d])
      /\ seen' = [seen EXCEPT ![d] = @ \cup {c, c + 1}]
      /\ version' = [version EXCEPT ![d] = w]
      /\ wrote' = [wrote EXCEPT ![c] = Written(r, fields)]
  BY <1>1, <1>2, <1>3, <1>4 DEF EditThenDelete, EditedVersion, Written
<1>7. now \in 0 .. MaxStamps /\ MaxStamps \in Nat /\ c <= MaxStamps /\ now + 1 <= MaxStamps
  <2>1. now \in 0 .. MaxStamps /\ MaxStamps \in Nat
    BY <1>5, SeenIs
  <2> QED
    BY <1>1, <1>6, <2>1
<1>8. r \in Rows
  BY <1>5, <1>7, RowsGiven
<1>9. SInv'
  BY <1>5, EditThenDeleteShows
<1>10. TakesMembers(version[d], u, c, fields, Written(r, fields))
  BY <1>2, <1>4, <1>5, <1>6, <1>8, EditedTakesMembers
<1>11. w.row = u.row /\ w.clocks = u.clocks
  <2>1. version[d] \in Versions
    BY <1>5 DEF FInv, Says, WellFormed
  <2>2. u = [row |-> u.row, valued |-> u.valued, clocks |-> u.clocks, deletedAt |-> u.deletedAt]
    BY <1>2, <2>1 DEF EditedVersion, Versions
  <2> QED
    BY <1>3, <2>2 DEF Buried
<1>12. TakesMembers(version[d], w, c, fields, Written(r, fields))
  BY <1>10, <1>11 DEF TakesMembers
<1>13. PICK C : C = {c, c + 1}
  OBVIOUS
<1>14. /\ C \in SUBSET (Stamps \ (1 .. now)) /\ c \in C /\ c \in Stamps
       /\ seen' = [seen EXCEPT ![d] = @ \cup C]
       /\ deletes \subseteq deletes' /\ deletes' \subseteq deletes \cup (C \ {c})
  BY <1>1, <1>6, <1>7, <1>13 DEF Stamps
<1> QED
  BY <1>1, <1>6, <1>9, <1>12, <1>14, WrittenMembers

\* A delete keeps what its tombstone holds; one that the scan found is in blind.
LEMMA DeleteHolds ==
  ASSUME MInv, NEW d \in Devices, Delete(d) \/ DeleteUnseen(d)
  PROVE  MInv'
<1>1. PICK c : c = now + 1
  OBVIOUS
<1>2. SInv /\ FInv /\ WroteInv /\ SInv'
  BY DeleteShows DEF MInv, SInv
<1>3. /\ c <= MaxStamps /\ wrote' = wrote /\ deletes' = deletes \cup {c}
      /\ blind' = blind \/ blind' = blind \cup {c}
      /\ seen' = [seen EXCEPT ![d] = @ \cup {c}] /\ Live(version[d])
  BY <1>1 DEF Delete, DeleteUnseen
<1>4. /\ now \in 0 .. MaxStamps /\ MaxStamps \in Nat /\ c \in Stamps /\ c > now
      /\ \A e \in Devices : c \notin seen[e]
  <2>1. now \in 0 .. MaxStamps /\ MaxStamps \in Nat
    BY <1>2, SeenIs
  <2>2. \A e \in Devices : seen[e] \subseteq 1 .. now
    BY <1>2, SeenIs
  <2> QED
    BY <1>1, <1>3, <2>1, <2>2 DEF Stamps
<1>5. DeletesWriteNothing'
  <2>1. \A f \in Fields : wrote[c][f] = Untouched
    BY <1>2, <1>4 DEF WroteInv
  <2> QED
    BY <1>3, <2>1 DEF MInv, DeletesWriteNothing, Untouched
<1>6. ASSUME NEW e \in Devices \ {d}
      PROVE  Holding(version[e], seen[e])'
  <2>1. version'[e] = version[e] /\ seen'[e] = seen[e]
    BY <1>2, <1>3 DEF FInv, Delete, DeleteUnseen
  <2>2. blind' \cap seen[e] = blind \cap seen[e]
    BY <1>3, <1>4
  <2> QED
    BY <1>3, <2>1, <2>2, OthersHold
<1>7. Holding(version[d], seen[d])'
  <2>1. seen'[d] = seen[d] \cup {c}
    BY <1>2, <1>3 DEF FInv
  <2>2. CASE Delete(d)
    <3>1. PICK w : w = Buried(version[d], c, TRUE)
      OBVIOUS
    <3>2. version'[d] = w /\ blind' = blind
      BY <1>1, <1>2, <2>2, <3>1 DEF Delete, FInv
    <3>3. version[d] \in Versions
      BY <1>2 DEF FInv, Says, WellFormed
    <3>4. w.row = version[d].row /\ w.clocks = version[d].clocks
      BY <3>1, <3>3 DEF Buried, Versions
    <3>5. PICK what : what = wrote[c]
      OBVIOUS
    <3>6. \A f \in Members : what[f] = Untouched
      BY <1>2, <1>4, <3>5, MembersAre DEF WroteInv
    <3>7. StampWrites(c, what)
      BY <1>3, <3>5 DEF StampWrites
    <3>8. PICK F : F = {}
      OBVIOUS
    <3>9. TakesMembers(version[d], w, c, F, what)
      BY <3>4, <3>6, <3>8 DEF TakesMembers
    <3>10. PICK C : C = {c}
      OBVIOUS
    <3>11. C \in SUBSET (Stamps \ (1 .. now)) /\ c \in C /\ seen'[d] = seen[d] \cup C
           /\ deletes \subseteq deletes'
      BY <1>3, <1>4, <2>1, <3>10
    <3> QED
      BY <1>1, <1>4, <3>2, <3>7, <3>9, <3>11, WriteHolds
  <2>3. CASE DeleteUnseen(d)
    <3>1. blind' = blind \cup {c}
      BY <1>1, <2>3 DEF DeleteUnseen
    <3> QED
      BY <2>1, <3>1 DEF Holding
  <2> QED
    BY <2>2, <2>3
<1>8. ASSUME NEW e \in Devices
      PROVE  Holding(version[e], seen[e])'
  BY <1>6, <1>7
<1> QED
  BY <1>2, <1>5, <1>8 DEF MInv

\* A side of a merge keeps its members' clocks, but for what an outlived tombstone removes.
LEMMA SideMembers ==
  ASSUME NEW v, NEW t, WellFormed(v), WellFormed(t), NEW f \in Members
  PROVE  \/ Side(v, t).clocks[f] = v.clocks[f]
         \/ /\ Dead(t) /\ t.clocks[f] # Never /\ v.row[f] = Absent
            /\ Side(v, t).clocks[f] = Later(v.clocks[f], t.deletedAt)
<1>1. v \in Versions /\ f \in Fields
  BY Parts, MembersAre
<1>2. CASE ~Deleted(v, t) /\ Dead(t) /\ Live(v)
  <2>1. WithRemovals(v, t).clocks = [g \in Fields |->
           IF g \in Members /\ t.clocks[g] # Never /\ v.row[g] = Absent
           THEN Later(v.clocks[g], t.deletedAt) ELSE v.clocks[g]]
    BY <1>1 DEF WithRemovals, Versions
  <2>2. Side(v, t) = WithRemovals(v, t)
    BY <1>2 DEF Side, Kept
  <2> QED
    BY <1>1, <1>2, <2>1, <2>2
<1>3. CASE Deleted(v, t) \/ ~(Dead(t) /\ Live(v))
  BY <1>3 DEF Side, Kept
<1> QED
  BY <1>2, <1>3

\* A tombstone is the stamp of a delete it has merged.
LEMMA TombstoneOf ==
  ASSUME FInv, NEW v, NEW S \in SUBSET Stamps, Says(v, S), Dead(v)
  PROVE  v.deletedAt \in S \cap deletes /\ v.deletedAt \in 1 .. MaxStamps
<1>1. v.deletedAt = NewestOf(S \cap deletes) /\ v.deletedAt # 0
  BY DEF Says, DeletedLast, Dead, Never
<1>2. S \cap deletes \in SUBSET Stamps
  OBVIOUS
<1>3. v.deletedAt \in S \cap deletes
  BY <1>1, <1>2, NewestOfIs
<1> QED
  BY <1>3 DEF Stamps

\* What explains a member for one side explains it for what that side brings to a merge.
LEMMA SideExplains ==
  ASSUME MInv, NEW v, NEW t, WellFormed(v), WellFormed(t), NEW f \in Members,
         NEW A \in SUBSET Stamps, NEW B \in SUBSET Stamps, Says(t, B),
         v.clocks[f] # Never => Writes(f, A) # {},
         t.clocks[f] # Never => Writes(f, B) # {},
         NEW n \in Clocks, Explains(v.clocks[f], v.row[f], f, n, A \cap deletes)
  PROVE  /\ Side(v, t).clocks[f] # Never => Writes(f, A \cup B) # {}
         /\ Explains(Side(v, t).clocks[f], v.row[f], f, n, (A \cup B) \cap deletes)
         /\ Side(v, t).clocks[f] >= v.clocks[f]
<1>1. /\ v.clocks[f] \in 0 .. MaxStamps /\ MaxStamps \in Nat /\ n \in 0 .. MaxStamps
  BY Parts, MembersAre, FieldsExist DEF Clocks
<1>2. Writes(f, A) # {} \/ Writes(f, B) # {} => Writes(f, A \cup B) # {}
  BY DEF Writes
<1>3. v.clocks[f] = n \/ v.clocks[f] > n
  BY DEF Explains
<1>4. CASE Side(v, t).clocks[f] = v.clocks[f]
  <2>1. Side(v, t).clocks[f] >= v.clocks[f]
    BY <1>1, <1>4
  <2>2. A \cap deletes \subseteq (A \cup B) \cap deletes
    OBVIOUS
  <2>3. Explains(Side(v, t).clocks[f], v.row[f], f, n, (A \cup B) \cap deletes)
    BY <1>4, <2>2 DEF Explains
  <2> QED
    BY <1>2, <1>4, <2>1, <2>3
<1>5. CASE /\ Dead(t) /\ t.clocks[f] # Never /\ v.row[f] = Absent
           /\ Side(v, t).clocks[f] = Later(v.clocks[f], t.deletedAt)
  <2>1. t.deletedAt \in B \cap deletes /\ t.deletedAt \in 1 .. MaxStamps
    BY <1>5, TombstoneOf DEF MInv, SInv
  <2>2. CASE v.clocks[f] >= t.deletedAt
    <3>1. Side(v, t).clocks[f] = v.clocks[f]
      BY <1>5, <2>2 DEF Later
    <3> QED
      BY <1>4, <3>1
  <2>3. CASE ~(v.clocks[f] >= t.deletedAt)
    <3>1. Side(v, t).clocks[f] = t.deletedAt
      BY <1>5, <2>3 DEF Later
    <3>2. t.deletedAt > n /\ t.deletedAt >= v.clocks[f]
      BY <1>1, <1>3, <2>1, <2>3
    <3> QED
      BY <1>2, <1>5, <2>1, <3>1, <3>2 DEF Explains
  <2> QED
    BY <2>2, <2>3
<1> QED
  BY <1>4, <1>5, SideMembers

\* Two members that are explained give one that is.
LEMMA MembersJoin ==
  ASSUME NEW x \in Versions, NEW y \in Versions, NEW f \in Members, NEW T,
         NEW n \in Clocks, NEW m \in Clocks, n \notin T, m \notin T, 0 \notin T,
         Explains(x.clocks[f], x.row[f], f, n, T), Explains(y.clocks[f], y.row[f], f, m, T)
  PROVE  Explains(JoinedClocks(x, y)[f], JoinedRow(x, y)[f], f, Later(n, m), T)
<1>1. /\ x.clocks[f] \in 0 .. MaxStamps /\ y.clocks[f] \in 0 .. MaxStamps /\ MaxStamps \in Nat
      /\ f \in Fields /\ n \in 0 .. MaxStamps /\ m \in 0 .. MaxStamps
  BY MembersAre, FieldsExist DEF Versions, Clocks
<1>2. JoinedClocks(x, y)[f] = Later(x.clocks[f], y.clocks[f])
  BY <1>1 DEF JoinedClocks
<1>3. JoinedRow(x, y)[f] = IF RemoteHas(x, y, f) THEN y.row[f] ELSE x.row[f]
  BY <1>1 DEF JoinedRow
<1>4. x.clocks[f] >= n /\ y.clocks[f] >= m
  BY <1>1 DEF Explains
<1>5. CASE y.clocks[f] > x.clocks[f]
  <2>1. Holds(y, f)
    BY <1>1, <1>5 DEF Holds, Never
  <2>2. RemoteHas(x, y, f) /\ Later(x.clocks[f], y.clocks[f]) = y.clocks[f]
    BY <1>1, <1>5, <2>1 DEF RemoteHas, Later
  <2>3. y.clocks[f] > n
    BY <1>1, <1>4, <1>5
  <2>4. CASE y.clocks[f] = m /\ y.row[f] = (IF m = Never THEN Absent ELSE wrote[m][f])
    <3>1. Later(n, m) = m
      BY <1>1, <2>3, <2>4 DEF Later
    <3> QED
      BY <1>2, <1>3, <2>2, <2>4, <3>1 DEF Explains
  <2>5. CASE y.clocks[f] > m /\ y.row[f] = Absent /\ y.clocks[f] \in T
    <3>1. y.clocks[f] > Later(n, m)
      BY <2>3, <2>5 DEF Later
    <3> QED
      BY <1>2, <1>3, <2>2, <2>5, <3>1 DEF Explains
  <2> QED
    BY <2>4, <2>5 DEF Explains
<1>6. CASE x.clocks[f] > y.clocks[f]
  <2>1. Holds(x, f)
    BY <1>1, <1>6 DEF Holds, Never
  <2>2. ~RemoteHas(x, y, f) /\ Later(x.clocks[f], y.clocks[f]) = x.clocks[f]
    BY <1>1, <1>6, <2>1 DEF RemoteHas, Later
  <2>3. x.clocks[f] > m
    BY <1>1, <1>4, <1>6
  <2>4. CASE x.clocks[f] = n /\ x.row[f] = (IF n = Never THEN Absent ELSE wrote[n][f])
    <3>1. Later(n, m) = n
      BY <1>1, <2>3, <2>4 DEF Later
    <3> QED
      BY <1>2, <1>3, <2>2, <2>4, <3>1 DEF Explains
  <2>5. CASE x.clocks[f] > n /\ x.row[f] = Absent /\ x.clocks[f] \in T
    <3>1. x.clocks[f] > Later(n, m)
      BY <2>3, <2>5 DEF Later
    <3> QED
      BY <1>2, <1>3, <2>2, <2>5, <3>1 DEF Explains
  <2> QED
    BY <2>4, <2>5 DEF Explains
<1>7. CASE x.clocks[f] = y.clocks[f]
  <2>1. Later(x.clocks[f], y.clocks[f]) = x.clocks[f]
    BY <1>7 DEF Later
  <2>2. CASE x.clocks[f] \in T
    <3>1. x.clocks[f] > n /\ x.clocks[f] > m /\ x.row[f] = Absent /\ y.row[f] = Absent
      BY <1>7, <2>2 DEF Explains
    <3>2. x.clocks[f] > Later(n, m)
      BY <3>1 DEF Later
    <3> QED
      BY <1>2, <1>3, <2>1, <2>2, <3>1, <3>2 DEF Explains
  <2>3. CASE x.clocks[f] \notin T
    <3>1. x.clocks[f] = n /\ x.clocks[f] = m /\ x.row[f] = y.row[f]
      BY <1>7, <2>3 DEF Explains
    <3>2. Later(n, m) = n
      BY <3>1 DEF Later
    <3> QED
      BY <1>2, <1>3, <2>1, <2>3, <3>1, <3>2 DEF Explains
  <2> QED
    BY <2>2, <2>3
<1> QED
  BY <1>1, <1>5, <1>6, <1>7

\* What two devices explain of a member, their merge explains; its clock never goes back.
LEMMA MergeExplains ==
  ASSUME MInv, NEW a, NEW b, WellFormed(a), WellFormed(b), a.valued = TRUE, b.valued = TRUE,
         NEW A \in SUBSET Stamps, NEW B \in SUBSET Stamps, Says(a, A), Says(b, B),
         NEW f \in Members,
         a.clocks[f] # Never => Writes(f, A) # {}, b.clocks[f] # Never => Writes(f, B) # {},
         Explains(a.clocks[f], a.row[f], f, NewestOf(Writes(f, A)), A \cap deletes),
         Explains(b.clocks[f], b.row[f], f, NewestOf(Writes(f, B)), B \cap deletes)
  PROVE  /\ Merge(a, b).clocks[f] # Never => Writes(f, A \cup B) # {}
         /\ Explains(Merge(a, b).clocks[f], Merge(a, b).row[f], f,
                     NewestOf(Writes(f, A \cup B)), (A \cup B) \cap deletes)
         /\ Merge(a, b).clocks[f] >= a.clocks[f]
<1>1. PICK x : x = Side(a, b)
  OBVIOUS
<1>2. PICK y : y = Side(b, a)
  OBVIOUS
<1>3. PICK n : n = NewestOf(Writes(f, A))
  OBVIOUS
<1>4. PICK m : m = NewestOf(Writes(f, B))
  OBVIOUS
<1>5. PICK T : T = (A \cup B) \cap deletes
  OBVIOUS
<1>6. /\ Writes(f, A \cup B) = Writes(f, A) \cup Writes(f, B)
      /\ Writes(f, A) \in SUBSET Stamps /\ Writes(f, B) \in SUBSET Stamps
  BY DEF Writes
<1>7. /\ n \in Clocks /\ m \in Clocks /\ NewestOf(Writes(f, A \cup B)) = Later(n, m)
      /\ n # 0 => n \in Writes(f, A)
      /\ m # 0 => m \in Writes(f, B)
  BY <1>3, <1>4, <1>6, NewestOfIs, NewestOfBoth
<1>8. n \notin T /\ m \notin T /\ 0 \notin T
  <2>1. \A k \in T : k # 0 /\ wrote[k][f] = Untouched
    BY <1>5, MembersAre DEF MInv, DeletesWriteNothing, Stamps
  <2> QED
    BY <1>7, <2>1 DEF Writes
<1>9. /\ x \in Versions /\ y \in Versions /\ x.row = a.row /\ y.row = b.row
      /\ Merge(a, b).row = JoinedRow(x, y) /\ Merge(a, b).clocks = JoinedClocks(x, y)
  BY <1>1, <1>2, MergedValues
<1>10. /\ x.clocks[f] # Never => Writes(f, A \cup B) # {}
       /\ Explains(x.clocks[f], x.row[f], f, n, T)
       /\ x.clocks[f] >= a.clocks[f]
  <2>1. Explains(a.clocks[f], a.row[f], f, n, A \cap deletes)
    BY <1>3
  <2>2. /\ Side(a, b).clocks[f] # Never => Writes(f, A \cup B) # {}
        /\ Explains(Side(a, b).clocks[f], a.row[f], f, n, (A \cup B) \cap deletes)
        /\ Side(a, b).clocks[f] >= a.clocks[f]
    BY <1>7, <2>1, SideExplains
  <2> QED
    BY <1>1, <1>5, <1>9, <2>2
<1>11. /\ y.clocks[f] # Never => Writes(f, A \cup B) # {}
       /\ Explains(y.clocks[f], y.row[f], f, m, T)
  <2>1. Explains(b.clocks[f], b.row[f], f, m, B \cap deletes)
    BY <1>4
  <2>2. /\ Side(b, a).clocks[f] # Never => Writes(f, B \cup A) # {}
        /\ Explains(Side(b, a).clocks[f], b.row[f], f, m, (B \cup A) \cap deletes)
    BY <1>7, <2>1, SideExplains
  <2>3. B \cup A = A \cup B
    OBVIOUS
  <2> QED
    BY <1>2, <1>5, <1>9, <2>2, <2>3
<1>12. Explains(JoinedClocks(x, y)[f], JoinedRow(x, y)[f], f, Later(n, m), T)
  BY <1>7, <1>8, <1>9, <1>10, <1>11, MembersJoin
<1>13. JoinedClocks(x, y)[f] = Later(x.clocks[f], y.clocks[f])
  BY MembersAre DEF JoinedClocks
<1>14. /\ x.clocks[f] \in 0 .. MaxStamps /\ y.clocks[f] \in 0 .. MaxStamps
       /\ a.clocks[f] \in 0 .. MaxStamps /\ MaxStamps \in Nat
  BY <1>9, Parts, MembersAre, FieldsExist DEF Versions, Clocks
<1>15. JoinedClocks(x, y)[f] >= a.clocks[f]
  BY <1>10, <1>13, <1>14 DEF Later
<1>16. JoinedClocks(x, y)[f] # Never => Writes(f, A \cup B) # {}
  BY <1>10, <1>11, <1>13 DEF Later
<1> QED
  BY <1>5, <1>7, <1>9, <1>12, <1>15, <1>16

\* A merge explains every member by what both devices have merged.
LEMMA ApplyHolds ==
  ASSUME MInv, NEW d \in Devices, NEW e \in Devices, Apply(d, e)
  PROVE  MInv'
<1>1. PICK a : a = version[d]
  OBVIOUS
<1>2. PICK b : b = version[e]
  OBVIOUS
<1>3. PICK w : w = Merge(a, b)
  OBVIOUS
<1>4. PICK A : A = seen[d]
  OBVIOUS
<1>5. PICK B : B = seen[e]
  OBVIOUS
<1>6. SInv /\ FInv /\ SInv'
  BY ApplyShows DEF MInv, SInv
<1>7. /\ version' = [version EXCEPT ![d] = w] /\ seen' = [seen EXCEPT ![d] = A \cup B]
      /\ wrote' = wrote /\ deletes' = deletes /\ blind' = blind /\ b # NoVersion
  BY <1>1, <1>2, <1>3, <1>4, <1>5 DEF Apply
<1>8. /\ Says(a, A) /\ Says(b, B) /\ WellFormed(a) /\ WellFormed(b)
      /\ A \in SUBSET Stamps /\ B \in SUBSET Stamps
  BY <1>1, <1>2, <1>4, <1>5, <1>6, SeenIs DEF FInv, Says
<1>9. Shows(a, A) /\ Shows(b, B) /\ Holding(a, A) /\ Holding(b, B)
  BY <1>1, <1>2, <1>4, <1>5 DEF MInv, SInv
<1>10. SUFFICES Holding(w, A \cup B)
  <2>1. ASSUME NEW x \in Devices
        PROVE  Holding(version'[x], seen'[x])
    <3>1. CASE x = d
      <4>1. version'[x] = w /\ seen'[x] = A \cup B
        BY <1>6, <1>7, <3>1 DEF FInv
      <4> QED
        BY <1>10, <4>1
    <3>2. CASE x # d
      <4>1. version'[x] = version[x] /\ seen'[x] = seen[x]
        BY <1>6, <1>7, <3>2 DEF FInv
      <4> QED
        BY <4>1 DEF MInv
    <3> QED
      BY <3>1, <3>2
  <2>2. ASSUME NEW x \in Devices
        PROVE  Holding(version[x], seen[x])'
    <3>1. Holding(version'[x], seen'[x])
      BY <2>1
    <3> QED
      BY <1>7, <3>1 DEF Holding, Explains, Writes, NewestOf, Untouched
  <2>3. DeletesWriteNothing'
    BY <1>7 DEF MInv, DeletesWriteNothing, Untouched
  <2> QED
    BY <1>6, <2>2, <2>3 DEF MInv
<1>11. SUFFICES ASSUME (A \cup B) \cap blind = {}, NEW f \in Members
                PROVE  /\ w.clocks[f] # Never => Writes(f, A \cup B) # {}
                       /\ Explains(w.clocks[f], w.row[f], f,
                                   NewestOf(Writes(f, A \cup B)), (A \cup B) \cap deletes)
  BY DEF Holding
<1>12. /\ B # {} /\ b.valued = TRUE /\ (a.valued = TRUE <=> A # {})
  <2>1. B # {} /\ A \cap blind = {} /\ B \cap blind = {}
    BY <1>7, <1>8, <1>11 DEF Says
  <2>2. a.valued \in BOOLEAN /\ b.valued \in BOOLEAN
    BY <1>8, Parts
  <2> QED
    BY <1>9, <2>1, <2>2 DEF Shows
<1>13. /\ a.clocks[f] # Never => Writes(f, A) # {}
       /\ b.clocks[f] # Never => Writes(f, B) # {}
       /\ Explains(a.clocks[f], a.row[f], f, NewestOf(Writes(f, A)), A \cap deletes)
       /\ Explains(b.clocks[f], b.row[f], f, NewestOf(Writes(f, B)), B \cap deletes)
  <2>1. A \cap blind = {} /\ B \cap blind = {}
    BY <1>11
  <2> QED
    BY <1>9, <2>1 DEF Holding
<1>14. CASE A = {}
  <2>1. a = NoVersion
    BY <1>8, <1>14 DEF Says
  <2>2. w.row = b.row /\ w.clocks = b.clocks
    BY <1>3, <1>8, <1>12, <2>1, MergeNothing
  <2>3. A \cup B = B
    BY <1>14
  <2> QED
    BY <1>13, <2>2, <2>3
<1>15. CASE A # {}
  <2>1. a.valued = TRUE /\ b.valued = TRUE
    BY <1>12, <1>15
  <2>2. /\ Merge(a, b).clocks[f] # Never => Writes(f, A \cup B) # {}
        /\ Explains(Merge(a, b).clocks[f], Merge(a, b).row[f], f,
                    NewestOf(Writes(f, A \cup B)), (A \cup B) \cap deletes)
    BY <1>8, <1>13, <2>1, MergeExplains
  <2> QED
    BY <1>3, <2>2
<1> QED
  BY <1>14, <1>15

\* Every step keeps what explains the members.
LEMMA MNext == MInv /\ [Next]_vars => MInv'
<1> SUFFICES ASSUME MInv, [Next]_vars PROVE MInv'
  OBVIOUS
<1>1. Editors \subseteq Devices
  BY FieldsAssumption
<1>2. CASE \E d \in Editors : \E r \in NextRows(d) : Create(d, r) \/ Edit(d, r) \/ EditThenDelete(d, r)
  BY <1>1, <1>2, CreateHolds, EditHolds, EditThenDeleteHolds
<1>3. CASE \E d \in Editors : Delete(d) \/ DeleteUnseen(d)
  BY <1>1, <1>3, DeleteHolds
<1>4. CASE \E d, e \in Devices : Apply(d, e)
  BY <1>4, ApplyHolds
<1>5. CASE UNCHANGED vars
  <2>1. SInv'
    BY <1>5, SNext DEF MInv
  <2>2. /\ version' = version /\ wrote' = wrote /\ deletes' = deletes /\ blind' = blind
        /\ seen' = seen
    BY <1>5 DEF vars, observers
  <2>3. DeletesWriteNothing'
    BY <2>2 DEF MInv, DeletesWriteNothing, Untouched
  <2>4. ASSUME NEW d \in Devices
        PROVE  Holding(version[d], seen[d])'
    BY <2>2 DEF MInv, Holding, Explains, Writes, NewestOf, Untouched
  <2> QED
    BY <2>1, <2>3, <2>4 DEF MInv
<1> QED
  BY <1>2, <1>3, <1>4, <1>5 DEF Next

\* The inductive invariant holds throughout.
LEMMA MAlways == Spec => []MInv
BY MInit, MNext, PTL DEF Spec

\* The newest write of a field that a device has merged is a stamp, or none.
LEMMA NewestWriteIs ==
  ASSUME FInv, NEW d \in Devices, NEW f \in Fields
  PROVE  /\ NewestWrite(d, f) = NewestOf(Writes(f, seen[d]))
         /\ NewestWrite(d, f) \in 0 .. MaxStamps
         /\ \A k \in Writes(f, seen[d]) : NewestWrite(d, f) >= k
         /\ NewestWrite(d, f) # 0 => NewestWrite(d, f) \in Writes(f, seen[d])
<1>1. NewestWrite(d, f) = NewestOf(Writes(f, seen[d]))
  BY DEF NewestWrite, NewestOf, Writes
<1>2. Writes(f, seen[d]) \in SUBSET Stamps
  BY SeenIs DEF Writes
<1> QED
  BY <1>1, <1>2, NewestOfIs DEF Clocks

\* A member that comes back to a version whose clock did not go back was written anew.
LEMMA BackIsWritten ==
  ASSUME MInv, MInv', NEW d \in Devices, NEW f \in Members,
         seen[d] \subseteq seen'[d], seen[d] \cap blind \subseteq blind',
         \A k \in seen[d] : wrote'[k] = wrote[k],
         version'[d].clocks[f] >= version[d].clocks[f],
         version[d].row[f] = Absent, version'[d].row[f] # Absent,
         seen'[d] \cap blind' = {}
  PROVE  NewestWrite(d, f)' > NewestWrite(d, f)
<1>1. PICK n : n = NewestWrite(d, f)
  OBVIOUS
<1>2. PICK m : m = NewestWrite(d, f)'
  OBVIOUS
<1>3. FInv /\ FInv' /\ f \in Fields /\ MaxStamps \in Nat
  BY MembersAre, FieldsExist DEF MInv, SInv
<1>4. /\ n \in 0 .. MaxStamps /\ n = NewestOf(Writes(f, seen[d]))
      /\ n # 0 => n \in Writes(f, seen[d])
  BY <1>1, <1>3, NewestWriteIs
<1>5. /\ m \in 0 .. MaxStamps /\ m = NewestOf(Writes(f, seen[d]))'
      /\ \A k \in Writes(f, seen[d])' : m >= k
  <2>1. PICK W : W = Writes(f, seen[d])'
    OBVIOUS
  <2>2. W = {k \in seen'[d] : wrote'[k][f] # Untouched}
    BY <2>1 DEF Writes, Untouched
  <2>3. m = NewestOf(W)
    BY <1>2, <2>2 DEF NewestWrite, NewestOf, Untouched
  <2>4. seen'[d] \subseteq 1 .. now' /\ now' \in 0 .. MaxStamps
    BY <1>3 DEF FInv, Clocks
  <2>5. W \in SUBSET Stamps
    BY <1>3, <2>2, <2>4 DEF Stamps
  <2>6. m \in 0 .. MaxStamps /\ \A k \in W : m >= k
    BY <2>3, <2>5, NewestOfIs DEF Clocks
  <2>7. NewestOf(Writes(f, seen[d]))' = NewestOf(W)
    BY <2>1 DEF NewestOf
  <2> QED
    BY <2>1, <2>3, <2>6, <2>7
<1>6. seen[d] \cap blind = {}
  OBVIOUS
<1>7. Explains(version[d].clocks[f], version[d].row[f], f, n, seen[d] \cap deletes)
  BY <1>4, <1>6 DEF MInv, Holding
<1>8. Explains(version[d].clocks[f], version[d].row[f], f, m, seen[d] \cap deletes)'
  BY <1>5 DEF MInv, Holding, Explains
<1>9. m >= n
  <2>1. n # 0 => n \in Writes(f, seen[d])'
    BY <1>4 DEF Writes, Untouched
  <2> QED
    BY <1>4, <1>5, <2>1
<1>10. version'[d].clocks[f] = m /\ m # 0 /\ version'[d].row[f] = wrote'[m][f]
  BY <1>8 DEF Explains, Never
<1>11. ASSUME m = n PROVE FALSE
  <2>1. n \in seen[d] /\ wrote'[n][f] = wrote[n][f]
    BY <1>4, <1>10, <1>11 DEF Writes
  <2>2. CASE version[d].clocks[f] = n /\ version[d].row[f] = wrote[n][f]
    BY <1>10, <1>11, <2>1, <2>2
  <2>3. CASE version[d].clocks[f] > n
    <3>1. version[d].clocks[f] \in 0 .. MaxStamps
      BY <1>3, Parts, FieldsExist DEF FInv, Says, Clocks
    <3> QED
      BY <1>3, <1>4, <1>10, <1>11, <2>3, <3>1
  <2> QED
    BY <1>7, <1>10, <1>11, <2>2, <2>3 DEF Explains, Never
<1> QED
  BY <1>1, <1>2, <1>4, <1>5, <1>9, <1>11

\* Neither an edit nor a merge moves a member's clock back.
LEMMA ClocksForward ==
  ASSUME MInv, Next, NEW d \in Devices, NEW f \in Members,
         Live(version[d]), Live(version'[d]), version'[d] # version[d],
         seen'[d] \cap blind' = {}
  PROVE  /\ seen[d] \subseteq seen'[d] /\ seen[d] \cap blind \subseteq blind'
         /\ \A k \in seen[d] : wrote'[k] = wrote[k]
         /\ version'[d].clocks[f] >= version[d].clocks[f]
<1>1. FInv /\ WroteInv /\ f \in Fields
  BY MembersAre DEF MInv, SInv
<1>2. /\ seen[d] \subseteq 1 .. now /\ now \in 0 .. MaxStamps /\ MaxStamps \in Nat
      /\ version[d] \in Versions /\ WellFormed(version[d])
      /\ \A g \in Fields : version[d].clocks[g] \in 0 .. MaxStamps
  BY <1>1, SeenIs, Parts DEF FInv, Says, Clocks
<1>3. ASSUME NEW x \in Editors, NEW r \in NextRows(x), Edit(x, r)
      PROVE  /\ seen[d] \subseteq seen'[d] /\ seen[d] \cap blind \subseteq blind'
             /\ \A k \in seen[d] : wrote'[k] = wrote[k]
             /\ version'[d].clocks[f] >= version[d].clocks[f]
  <2>1. PICK c : c = now + 1
    OBVIOUS
  <2>2. x = d
    BY <1>1, <1>3, FieldsAssumption DEF Edit, FInv
  <2>3. /\ c \in Stamps /\ seen'[d] = seen[d] \cup {c} /\ blind' = blind
        /\ \A k \in Stamps : k # c => wrote'[k] = wrote[k]
    BY <1>1, <1>2, <1>3, <2>1, <2>2 DEF Edit, Note, FInv, WroteInv, Stamps
  <2>4. \A k \in seen[d] : k \in Stamps /\ k # c
    BY <1>2, <2>1 DEF Stamps
  <2>5. version'[d].clocks = Stamped(version[d].clocks, Changed(version[d], r), c)
    BY <1>1, <1>2, <1>3, <2>1, <2>2 DEF Edit, FInv, Versions
  <2>6. version[d].clocks[f] <= c
    <3>1. version[d].clocks[f] <= EditClock(version[d])
      BY <1>1, <1>2, Parts, EditClockIs
    <3>2. EditClock(version[d]) \in 0 .. now
      <4>1. c \in Stamps /\ now < c
        BY <1>2, <2>1, <2>3
      <4>2. EditedLast(seen[d]) \in 0 .. now
        BY <1>1, <4>1, NewStamp
      <4> QED
        BY <1>1, <4>2 DEF FInv, Says
    <3> QED
      BY <1>1, <1>2, <2>1, <3>1, <3>2
  <2>7. version'[d].clocks[f] = c \/ version'[d].clocks[f] = version[d].clocks[f]
    BY <1>1, <2>5 DEF Stamped
  <2>8. version'[d].clocks[f] >= version[d].clocks[f]
    BY <1>1, <1>2, <2>1, <2>6, <2>7
  <2> QED
    BY <2>3, <2>4, <2>8
<1>4. ASSUME NEW x \in Devices, NEW e \in Devices, Apply(x, e)
      PROVE  /\ seen[d] \subseteq seen'[d] /\ seen[d] \cap blind \subseteq blind'
             /\ \A k \in seen[d] : wrote'[k] = wrote[k]
             /\ version'[d].clocks[f] >= version[d].clocks[f]
  <2>1. x = d
    BY <1>1, <1>4 DEF Apply, FInv
  <2>2. PICK a : a = version[d]
    OBVIOUS
  <2>3. PICK b : b = version[e]
    OBVIOUS
  <2>4. PICK A : A = seen[d]
    OBVIOUS
  <2>5. PICK B : B = seen[e]
    OBVIOUS
  <2>6. /\ version'[d] = Merge(a, b) /\ seen'[d] = A \cup B /\ wrote' = wrote /\ blind' = blind
        /\ b # NoVersion
    BY <1>1, <1>4, <2>1, <2>2, <2>3, <2>4, <2>5 DEF Apply, FInv
  <2>7. /\ Says(a, A) /\ Says(b, B) /\ WellFormed(a) /\ WellFormed(b)
        /\ A \in SUBSET Stamps /\ B \in SUBSET Stamps
    BY <1>1, <2>2, <2>3, <2>4, <2>5, SeenIs DEF FInv, Says
  <2>8. A \cap blind = {} /\ B \cap blind = {} /\ B # {}
    BY <2>6, <2>7 DEF Says
  <2>9. a.valued = TRUE /\ b.valued = TRUE
    <3>1. b.valued <=> B # {}
      BY <2>3, <2>5, <2>8 DEF MInv, SInv, Shows
    <3>2. a.valued
      BY <2>2 DEF Live
    <3> QED
      BY <2>7, <2>8, <3>1, <3>2, Parts
  <2>10. /\ a.clocks[f] # Never => Writes(f, A) # {}
         /\ b.clocks[f] # Never => Writes(f, B) # {}
         /\ Explains(a.clocks[f], a.row[f], f, NewestOf(Writes(f, A)), A \cap deletes)
         /\ Explains(b.clocks[f], b.row[f], f, NewestOf(Writes(f, B)), B \cap deletes)
    BY <2>2, <2>3, <2>4, <2>5, <2>8 DEF MInv, Holding
  <2>11. Merge(a, b).clocks[f] >= a.clocks[f]
    BY <2>7, <2>9, <2>10, MergeExplains
  <2> QED
    BY <2>2, <2>4, <2>6, <2>11
<1>5. ASSUME NEW x \in Editors, NEW r \in NextRows(x), Create(x, r)
      PROVE  FALSE
  BY <1>1, <1>5, FieldsAssumption DEF Create, FInv
<1>6. ASSUME NEW x \in Editors, NEW r \in NextRows(x), EditThenDelete(x, r)
      PROVE  FALSE
  <2>1. PICK w : version' = [version EXCEPT ![x] = w] /\ w.deletedAt = now + 2
    <3>1. PICK u : u = EditedVersion(version[x], r, now + 1)
      OBVIOUS
    <3>2. version' = [version EXCEPT ![x] = Buried(u, now + 1 + 1, TRUE)]
      BY <1>6, <3>1 DEF EditThenDelete, EditedVersion
    <3>3. version[x] \in Versions
      BY <1>1, FieldsAssumption DEF FInv, Says, WellFormed
    <3>4. u = [row |-> u.row, valued |-> u.valued, clocks |-> u.clocks, deletedAt |-> u.deletedAt]
      BY <3>1, <3>3 DEF EditedVersion, Versions
    <3>5. Buried(u, now + 1 + 1, TRUE).deletedAt = now + 1 + 1
      BY <3>4 DEF Buried
    <3>6. now + 1 + 1 = now + 2
      BY <1>2
    <3> QED
      BY <3>2, <3>5, <3>6
  <2>2. version'[d] = version[d] \/ version'[d] = w
    BY <1>1, <2>1 DEF FInv
  <2> QED
    BY <1>2, <2>1, <2>2 DEF Live, Dead, Never
<1>7. ASSUME NEW x \in Editors, Delete(x) \/ DeleteUnseen(x)
      PROVE  FALSE
  <2>1. PICK w : version' = [version EXCEPT ![x] = w] /\ w.deletedAt = now + 1
    <3>1. PICK valued \in BOOLEAN :
              version' = [version EXCEPT ![x] = Buried(version[x], now + 1, valued)]
      BY <1>7 DEF Delete, DeleteUnseen
    <3>2. version[x] \in Versions
      BY <1>1, FieldsAssumption DEF FInv, Says, WellFormed
    <3>3. Buried(version[x], now + 1, valued).deletedAt = now + 1
      BY <3>2 DEF Buried, Versions
    <3> QED
      BY <3>1, <3>3
  <2>2. version'[d] = version[d] \/ version'[d] = w
    BY <1>1, <2>1 DEF FInv
  <2> QED
    BY <1>2, <2>1, <2>2 DEF Live, Dead, Never
<1> QED
  BY <1>3, <1>4, <1>5, <1>6, <1>7 DEF Next

----------------------------------------------------------------------------
(* The properties                                                          *)

\* Whatever was created, edited, deleted and merged before, and in whatever order, two
\* devices that merge each other's version of the entity get the same row, the same
\* field clocks and the same tombstone (mergeFieldClockEntity of merge-entity.ts).
THEOREM CommutesHolds == Spec => []MergeCommutes
<1>1. FInv => MergeCommutes
  <2> SUFFICES ASSUME FInv, NEW d \in Devices, NEW e \in Devices
      PROVE  Merge(version[d], version[e]) = Merge(version[e], version[d])
    BY DEF MergeCommutes
  <2>1. WellFormed(version[d]) /\ WellFormed(version[e])
    BY DEF FInv, Says
  <2> QED
    BY <2>1, MergeIs
<1> QED
  BY <1>1, FAlways, PTL

\* The entity is there on a device exactly when the newest edit the device has merged is
\* later than the newest delete it has merged: merging two versions never needs more than
\* their field clocks and tombstones to tell (mergeTombstone of merge-primitives.ts, with
\* editClock of merge-entity.ts).
THEOREM OutlivesHolds == Spec => []EditOutlivesDelete
<1>1. FInv => EditOutlivesDelete
  <2> SUFFICES ASSUME FInv, NEW d \in Devices, seen[d] # {}
      PROVE  Live(version[d]) <=> NewestEdit(d) > NewestDelete(d)
    BY DEF EditOutlivesDelete
  <2>1. /\ NewestEdit(d) = EditedLast(seen[d])
        /\ NewestDelete(d) = DeletedLast(seen[d])
    BY DEF NewestEdit, NewestDelete, EditedLast, DeletedLast, NewestOf
  <2>2. Says(version[d], seen[d])
    BY DEF FInv
  <2>3. seen[d] \ deletes \in SUBSET Stamps /\ seen[d] \cap deletes \in SUBSET Stamps
    <3>1. now \in 0 .. MaxStamps /\ MaxStamps \in Nat
      BY FieldsExist DEF FInv, Clocks
    <3> QED
      BY <3>1 DEF FInv, Stamps
  <2>4. EditedLast(seen[d]) \in 0 .. MaxStamps /\ DeletedLast(seen[d]) \in 0 .. MaxStamps
    BY <2>3, NewestOfIs DEF EditedLast, DeletedLast, Clocks
  <2>5. CASE Live(version[d])
    BY <2>1, <2>2, <2>5 DEF Says
  <2>6. CASE ~Live(version[d])
    <3>1. Dead(version[d])
      BY <2>2, <2>6 DEF Says, WellFormed, Live
    <3>2. DeletedLast(seen[d]) > EditedLast(seen[d])
      BY <2>2, <3>1 DEF Says, WellFormed
    <3> QED
      BY <2>1, <2>4, <2>6, <3>2, FieldsExist
  <2> QED
    BY <2>5, <2>6
<1> QED
  BY <1>1, FAlways, PTL

\* A bundle that is applied a second time, late or after others, changes no row, and
\* nothing of a tombstone (the retries of apply-bundle.ts over mergeFieldClockEntity of
\* merge-entity.ts).
THEOREM AbsorbsHolds == Spec => []MergeAbsorbs
<1>1. FInv => MergeAbsorbs
  <2> SUFFICES ASSUME FInv, NEW d \in Devices, NEW e \in Devices, NEW m,
                      m = Merge(version[d], version[e])
      PROVE  /\ Merge(m, version[e]).row = m.row
             /\ Merge(m, version[d]).row = m.row
             /\ Dead(m) => Merge(m, version[e]) = m /\ Merge(m, version[d]) = m
    BY DEF MergeAbsorbs
  <2>1. WellFormed(version[d]) /\ WellFormed(version[e])
    BY DEF FInv, Says
  <2>2. m = Merge(version[e], version[d])
    BY <2>1, MergeIs
  <2>3. /\ Merge(m, version[e]).row = m.row
        /\ Dead(m) => Merge(m, version[e]) = m
    BY <2>1, MergeAgain
  <2>4. /\ Merge(m, version[d]).row = m.row
        /\ Dead(m) => Merge(m, version[d]) = m
    BY <2>1, <2>2, MergeAgain
  <2> QED
    BY <2>3, <2>4
<1> QED
  BY <1>1, FAlways, PTL

\* A column of an entity that is there shows the newest value that any merged edit wrote
\* to it, also one that a delete swallowed before another edit brought the entity back,
\* as long as the trigger recorded the row with every delete (mergeLww, tombstoneValues and
\* the stamps of buildFieldClockUpdates).
THEOREM NewestEditHolds == Spec => []ShowsNewestEdit
<1>1. SInv => ShowsNewestEdit
  <2> SUFFICES ASSUME SInv, NEW d \in Devices, NEW f \in Scalars,
                      Live(version[d]), Remembered(d)
      PROVE  version[d].row[f] = wrote[NewestWrite(d, f)][f]
    BY DEF ShowsNewestEdit
  <2>1. NewestWrite(d, f) = NewestOf(Writes(f, seen[d]))
    BY DEF NewestWrite, NewestOf, Writes
  <2>2. Shows(version[d], seen[d])
    BY DEF SInv
  <2>3. version[d].valued
    BY DEF Live
  <2> QED
    BY <2>1, <2>2, <2>3 DEF Shows, Remembered
<1>2. Spec => []SInv
  BY SInit, SNext, PTL DEF Spec
<1> QED
  BY <1>1, <1>2, PTL

\* A key of a map or an element of a list shows what its newest merged write said, unless a
\* later delete of the entity took it along, as long as no merged delete was one that only
\* the verifying scan found (mergeJsonMapPerKey and mergeOrSet of merge-primitives.ts,
\* omittedKeyRemovals of merge-entity.ts and the stamps of buildFieldClockUpdates).
THEOREM MembersHold == Spec => []MembersExplained
<1>1. MInv => MembersExplained
  <2> SUFFICES ASSUME MInv, NEW d \in Devices, NEW f \in Members,
                      Live(version[d]), Remembered(d), NewestWrite(d, f) # 0
      PROVE  \/ version[d].row[f] = wrote[NewestWrite(d, f)][f]
             \/ version[d].row[f] = Absent /\ NewestWrite(d, f) < NewestDelete(d)
    BY DEF MembersExplained
  <2>1. FInv /\ f \in Fields /\ MaxStamps \in Nat
    BY MembersAre, FieldsExist DEF MInv, SInv
  <2>2. /\ NewestWrite(d, f) = NewestOf(Writes(f, seen[d]))
        /\ NewestWrite(d, f) \in 0 .. MaxStamps
    BY <2>1, NewestWriteIs
  <2>3. Explains(version[d].clocks[f], version[d].row[f], f, NewestWrite(d, f), seen[d] \cap deletes)
    BY <2>2 DEF MInv, Holding, Remembered
  <2>4. CASE /\ version[d].clocks[f] > NewestWrite(d, f) /\ version[d].row[f] = Absent
             /\ version[d].clocks[f] \in seen[d] \cap deletes
    <3>1. NewestDelete(d) = NewestOf(seen[d] \cap deletes)
      BY DEF NewestDelete, NewestOf
    <3>2. seen[d] \cap deletes \in SUBSET Stamps
      BY <2>1, SeenIs
    <3>3. NewestDelete(d) >= version[d].clocks[f] /\ NewestDelete(d) \in 0 .. MaxStamps
      BY <2>4, <3>1, <3>2, NewestOfIs DEF Clocks
    <3>4. version[d].clocks[f] \in 1 .. MaxStamps
      BY <2>4, <3>2 DEF Stamps
    <3>5. NewestWrite(d, f) < NewestDelete(d)
      BY <2>1, <2>2, <2>4, <3>3, <3>4
    <3> QED
      BY <2>4, <3>5
  <2> QED
    BY <2>3, <2>4 DEF Explains, Never
<1> QED
  BY <1>1, MAlways, PTL

\* A key or element that is gone from a row that is there comes back only with a newer
\* write of it, whatever older copies the device merges, as long as no merged delete was
\* one that only the verifying scan found (the removal clocks of computeClocks and
\* omittedKeyRemovals, which a replica that still holds the member has to exceed).
THEOREM StaysRemovedHolds == Spec => StaysRemoved
<1>1. ASSUME MInv, MInv', [Next]_vars
      PROVE  [\A d \in Devices, f \in Members :
                Live(version[d]) /\ version[d].row[f] = Absent
                /\ Live(version'[d]) /\ version'[d].row[f] # Absent /\ Remembered(d)' =>
                    NewestWrite(d, f)' > NewestWrite(d, f)]_vars
  <2>1. SUFFICES ASSUME NEW d \in Devices, NEW f \in Members,
                        Live(version[d]), version[d].row[f] = Absent,
                        Live(version'[d]), version'[d].row[f] # Absent, Remembered(d)'
                 PROVE  NewestWrite(d, f)' > NewestWrite(d, f)
    OBVIOUS
  <2>2. version'[d] # version[d] /\ seen'[d] \cap blind' = {}
    BY <2>1 DEF Remembered
  <2>3. Next
    BY <1>1, <2>2 DEF vars
  <2>4. /\ seen[d] \subseteq seen'[d] /\ seen[d] \cap blind \subseteq blind'
        /\ \A k \in seen[d] : wrote'[k] = wrote[k]
        /\ version'[d].clocks[f] >= version[d].clocks[f]
    BY <1>1, <2>1, <2>2, <2>3, ClocksForward
  <2> QED
    BY <1>1, <2>1, <2>2, <2>4, BackIsWritten
<1> QED
  BY <1>1, MAlways, PTL DEF Spec, StaysRemoved
=============================================================================
