----------------------------- MODULE FieldMerge -----------------------------
(***************************************************************************)
(* One entity of a field-clock table on several devices: how a transaction *)
(* is stamped field by field (capture-stamp.ts, field-clocks.ts) and how   *)
(* two versions of the entity are merged (merge-entity.ts over             *)
(* merge-primitives.ts).                                                   *)
(*                                                                         *)
(* A version is the row with a clock per field: one per scalar column, one *)
(* per key of a JSON-map column, one per element of an id list.  Keys and  *)
(* elements are members: they may be absent, and a clock without a value   *)
(* is a removal.  A tombstone keeps the clocks and, usually, the values.   *)
(*                                                                         *)
(* Clocks are unique and follow what their device has merged (the subject  *)
(* of ReplicatedRows), so they can be numbered in their own order: stamp n *)
(* is the n-th of the whole history.                                       *)
(***************************************************************************)
EXTENDS Naturals, FiniteSetsExt

CONSTANTS
    Devices,
    Editors,      \* the devices that a user edits on
    Scalars,      \* plain columns
    Keys,         \* keys of a JSON-map column
    Elements,     \* elements of an id list
    MaxStamps,    \* bound: stamps issued in all
    MaxBlind      \* bound: deletes found by the verifying scan

Members == Keys \cup Elements
Fields == Scalars \cup Members
Absent == 0
Never == 0

ASSUME FieldsAssumption ==
    /\ Scalars \cap Members = {} /\ Keys \cap Elements = {}
    /\ Scalars # {} /\ Editors \subseteq Devices
    /\ MaxStamps \in Nat /\ MaxBlind \in Nat

Clocks == 0 .. MaxStamps
Rows == {r \in [Fields -> 0 .. MaxStamps] : \A f \in Scalars : r[f] # Absent}
NoRow == [f \in Fields |-> Absent]

\* sync_entity_meta with the row, or with deleted_row_json when it is a tombstone.
Versions == [row : Rows \cup {NoRow}, valued : BOOLEAN,
             clocks : [Fields -> Clocks], deletedAt : Clocks]
NoVersion == [row |-> NoRow, valued |-> FALSE,
              clocks |-> [f \in Fields |-> Never], deletedAt |-> Never]

Dead(v) == v.deletedAt # Never
Live(v) == v.valued /\ ~Dead(v)

\* A bug: the clocks of keys and elements are overlooked.
EditClockOfColumns(v) == Max({v.clocks[f] : f \in Scalars})

\* editClock: the newest clock of a field.
EditClock(v) == Max({v.clocks[f] : f \in Fields})

(***************************************************************************)
(* Merging two versions                                                    *)
(***************************************************************************)

Later(a, b) == IF a >= b THEN a ELSE b

\* Equal clocks with different values: the smaller text for a scalar, a live
\* entry for a key ("deleted":false sorts first), the removal for an element.
TieRank(f, value) == IF f \in Keys /\ value = Absent THEN MaxStamps + 1 ELSE value

\* A bug: a removed member is taken for one that was never there.
HoldsValue(v, f) == f \in Scalars \/ v.row[f] # Absent

\* A member without a clock and without a value is not there at all.
Holds(v, f) == f \in Scalars \/ v.clocks[f] # Never \/ v.row[f] # Absent

\* A bug: the version that arrives wins a field.
Arrives(local, remote, f) == Holds(remote, f)

\* mergeLww, mergeJsonMapPerKey and mergeOrSet: whether the remote side has the field.
RemoteHas(local, remote, f) ==
    /\ Holds(remote, f)
    /\ \/ ~Holds(local, f)
       \/ remote.clocks[f] > local.clocks[f]
       \/ /\ remote.clocks[f] = local.clocks[f]
          /\ TieRank(f, remote.row[f]) < TieRank(f, local.row[f])

JoinedRow(local, remote) ==
    [f \in Fields |-> IF RemoteHas(local, remote, f) THEN remote.row[f] ELSE local.row[f]]

\* A bug: a field keeps the clock it has here.
LocalClocks(local, remote) ==
    [f \in Fields |-> IF local.clocks[f] # Never THEN local.clocks[f] ELSE remote.clocks[f]]

JoinedClocks(local, remote) ==
    [f \in Fields |-> Later(local.clocks[f], remote.clocks[f])]

\* omittedKeyRemovals: a member the tombstone knew and the survivor lacks was
\* removed by the delete.
WithRemovals(survivor, tombstone) ==
    [survivor EXCEPT !.clocks = [f \in Fields |->
        IF f \in Members /\ tombstone.clocks[f] # Never /\ survivor.row[f] = Absent
        THEN Later(survivor.clocks[f], tombstone.deletedAt)
        ELSE survivor.clocks[f]]]

\* dominates: one side's values stand for both if it covers every clock.
Covers(v, clocks) == \A f \in Fields : v.clocks[f] >= clocks[f]

\* A bug: a delete that is known already keeps its own time.
FirstDelete(local, remote) == IF Dead(local) THEN local.deletedAt ELSE remote.deletedAt

LatestDelete(local, remote) == Later(local.deletedAt, remote.deletedAt)

\* mergeTombstone: deleted only if the latest delete is later than every edit.
Deleted(local, remote) ==
    LatestDelete(local, remote) > Later(EditClock(local), EditClock(remote))

\* tombstoneValues
Tombstone(local, remote) ==
    LET clocks == JoinedClocks(local, remote)
        values == IF local.valued /\ remote.valued THEN JoinedRow(local, remote)
                  ELSE IF local.valued /\ Covers(local, clocks) THEN local.row
                  ELSE IF remote.valued /\ Covers(remote, clocks) THEN remote.row
                  ELSE NoRow
    IN [row |-> values, valued |-> values # NoRow, clocks |-> clocks,
        deletedAt |-> LatestDelete(local, remote)]

Joined(local, remote) ==
    [row |-> JoinedRow(local, remote), valued |-> TRUE,
     clocks |-> JoinedClocks(local, remote), deletedAt |-> Never]

\* The entity lives, and one side may be a tombstone an edit outlives.
Survivor(local, remote) ==
    LET l == IF Dead(remote) /\ Live(local) THEN WithRemovals(local, remote) ELSE local
        r == IF Dead(local) /\ Live(remote) THEN WithRemovals(remote, local) ELSE remote
    IN IF ~remote.valued THEN l
       ELSE IF ~local.valued THEN r
       ELSE Joined(l, r)

\* mergeFieldClockEntity
Merge(local, remote) ==
    IF Deleted(local, remote) THEN Tombstone(local, remote) ELSE Survivor(local, remote)
=============================================================================
