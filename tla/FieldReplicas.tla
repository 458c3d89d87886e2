---------------------------- MODULE FieldReplicas ----------------------------
(***************************************************************************)
(* Several devices editing, deleting, publishing and merging one entity of *)
(* a field-clock table: the stamper of capture-stamp.ts and                *)
(* buildFieldClockUpdates, the full-state bundle of list-changes.ts, and   *)
(* the merge of FieldMerge in the apply transaction of apply-bundle.ts.    *)
(*                                                                         *)
(* A device applies what another one has (Apply).  A bundle that is read   *)
(* late is one that a device nobody edits on applied early and passes on.  *)
(*                                                                         *)
(* What a user did in a transaction is kept in an observer: the fields it  *)
(* wrote, by stamp.  Each version carries the set of stamps merged into    *)
(* it, so that what a row shows can be compared with what is known.        *)
(***************************************************************************)
EXTENDS FieldMerge

VARIABLES
    version,   \* the entity in each device's database
    now,       \* stamps issued
    wrote,     \* observer: what a stamp wrote, field by field
    deletes,   \* observer: stamps of deletes
    blind,     \* observer: stamps of deletes found by the verifying scan
    seen       \* observer: the stamps merged into each device's version

observers == <<wrote, deletes, blind, seen>>
vars == <<version, now, observers>>

Untouched == MaxStamps + 1
Present == 1
Stamps == 1 .. MaxStamps

TypeOK ==
    /\ version \in [Devices -> Versions]
    /\ now \in Clocks
    /\ wrote \in [Stamps -> [Fields -> 0 .. Untouched]]
    /\ deletes \subseteq Stamps
    /\ blind \subseteq deletes
    /\ seen \in [Devices -> SUBSET Stamps]

Init ==
    /\ version = [d \in Devices |-> NoVersion]
    /\ now = 0
    /\ wrote = [c \in Stamps |-> [f \in Fields |-> Untouched]]
    /\ deletes = {}
    /\ blind = {}
    /\ seen = [d \in Devices |-> {}]

(***************************************************************************)
(* Stamping a transaction                                                  *)
(***************************************************************************)

\* A bug: a row that exists again keeps the clocks of its previous life.
ChangedAgainstAbsent(v, r) == {f \in Fields : r[f] # Absent}

\* Every scalar and every member of a new row; a member of the previous life
\* that is not in it was removed (the stale clocks of computeClocks).
Created(v, r) ==
    {f \in Fields : f \in Scalars \/ r[f] # Absent \/ v.clocks[f] # Never}

Changed(v, r) == {f \in Fields : r[f] # v.row[f]}

Stamped(clocks, fields, c) == [f \in Fields |-> IF f \in fields THEN c ELSE clocks[f]]

Note(d, c, r, fields) ==
    /\ wrote' = [wrote EXCEPT ![c] = [f \in Fields |-> IF f \in fields THEN r[f] ELSE Untouched]]
    /\ seen' = [seen EXCEPT ![d] = @ \cup {c}]

\* What creating a row says of its fields, to a user who has seen what this device has.
Intended(d, r) ==
    {f \in Fields : \/ f \in Scalars \/ r[f] # Absent
                   \/ \E s \in seen[d] : wrote[s][f] # Untouched}

\* The values a field may get: a text nobody wrote before, the one it has, and for
\* a member to be gone; of an element there is only that it is present.
NextValues(d, f) ==
    LET old == IF Live(version[d]) THEN {version[d].row[f]} ELSE {} IN
    IF f \in Scalars THEN {now + 1} \cup old
    ELSE IF f \in Keys THEN {now + 1, Absent} \cup old
    ELSE {Present, Absent}

NextRows(d) ==
    {r \in [Fields -> 0 .. now + 1] : \A f \in Fields : r[f] \in NextValues(d, f)}

\* The row is created, or exists again after its tombstone.
Create(d, r) ==
    LET v == version[d]  c == now + 1 IN
    /\ ~Live(v) /\ c <= MaxStamps
    /\ version' = [version EXCEPT ![d] =
         [row |-> r, valued |-> TRUE, deletedAt |-> Never,
          clocks |-> Stamped(NoVersion.clocks, Created(v, r), c)]]
    /\ now' = c
    /\ Note(d, c, r, Intended(d, r))
    /\ UNCHANGED <<deletes, blind>>

Edit(d, r) ==
    LET v == version[d]  c == now + 1 IN
    /\ Live(v) /\ r # v.row /\ c <= MaxStamps
    /\ version' = [version EXCEPT ![d].row = r, ![d].clocks = Stamped(@, Changed(v, r), c)]
    /\ now' = c
    /\ Note(d, c, r, Changed(v, r))
    /\ UNCHANGED <<deletes, blind>>

\* A bug: a delete forgets the row, as before the tombstones kept it.
BuriedBare(v, c, valued) ==
    [v EXCEPT !.deletedAt = c, !.valued = FALSE, !.row = NoRow]

\* The tombstone: the clocks, and the row if the delete recorded it.
Buried(v, c, valued) ==
    [v EXCEPT !.deletedAt = c, !.valued = valued,
              !.row = IF valued THEN @ ELSE NoRow]

\* The delete trigger recorded the row.
Delete(d) ==
    LET c == now + 1 IN
    /\ Live(version[d]) /\ c <= MaxStamps
    /\ version' = [version EXCEPT ![d] = Buried(@, c, TRUE)]
    /\ now' = c
    /\ deletes' = deletes \cup {c}
    /\ seen' = [seen EXCEPT ![d] = @ \cup {c}]
    /\ UNCHANGED <<wrote, blind>>

\* Edited and deleted in one transaction: the edit is stamped one clock earlier.
EditThenDelete(d, r) ==
    LET v == version[d]  c == now + 1 IN
    /\ Live(v) /\ r # v.row /\ c + 1 <= MaxStamps
    /\ version' = [version EXCEPT ![d] =
         Buried([v EXCEPT !.row = r, !.clocks = Stamped(@, Changed(v, r), c)], c + 1, TRUE)]
    /\ now' = c + 1
    /\ wrote' = [wrote EXCEPT
         ![c] = [f \in Fields |-> IF f \in Changed(v, r) THEN r[f] ELSE Untouched]]
    /\ deletes' = deletes \cup {c + 1}
    /\ seen' = [seen EXCEPT ![d] = @ \cup {c, c + 1}]
    /\ UNCHANGED blind

\* The verifying scan finds the row gone: a tombstone without values.
DeleteUnseen(d) ==
    LET c == now + 1 IN
    /\ Live(version[d]) /\ c <= MaxStamps
    /\ Cardinality(blind) < MaxBlind /\ blind' = blind \cup {c}
    /\ version' = [version EXCEPT ![d] = Buried(@, c, FALSE)]
    /\ now' = c
    /\ deletes' = deletes \cup {c}
    /\ seen' = [seen EXCEPT ![d] = @ \cup {c}]
    /\ UNCHANGED wrote

(***************************************************************************)
(* Exchange                                                                *)
(***************************************************************************)

\* d applies the bundle that e has published last.
Apply(d, e) ==
    /\ d # e /\ version[e] # NoVersion
    /\ version' = [version EXCEPT ![d] = Merge(@, version[e])]
    /\ seen' = [seen EXCEPT ![d] = @ \cup seen[e]]
    /\ UNCHANGED <<now, wrote, deletes, blind>>

-----------------------------------------------------------------------------
Next ==
    \/ \E d \in Editors : \E r \in NextRows(d) : Create(d, r) \/ Edit(d, r) \/ EditThenDelete(d, r)
    \/ \E d \in Editors : Delete(d) \/ DeleteUnseen(d)
    \/ \E d, e \in Devices : Apply(d, e)

Spec == Init /\ [][Next]_vars

\* Every device keeps publishing what it has and pulling what the others have.
FairSpec == Spec /\ \A d, e \in Devices : WF_vars(Apply(d, e))

(***************************************************************************)
(* What must hold                                                          *)
(***************************************************************************)

\* Merging two versions gives the same entity on whichever of the two devices it
\* happens: two devices that exchange bundles end up alike.
MergeCommutes ==
    \A d, e \in Devices : Merge(version[d], version[e]) = Merge(version[e], version[d])

\* A bundle that is applied again changes no row, and nothing at all of a tombstone
\* (a key may yet get its removal clock from a tombstone that an edit outlived).
MergeAbsorbs ==
    \A d, e \in Devices :
        LET m == Merge(version[d], version[e]) IN
        /\ Merge(m, version[e]).row = m.row
        /\ Merge(m, version[d]).row = m.row
        /\ Dead(m) => Merge(m, version[e]) = m /\ Merge(m, version[d]) = m

\* The newest stamp d has merged of a write of f, of any edit, of any delete.
NewestWrite(d, f) ==
    Max({0} \cup {c \in seen[d] : wrote[c][f] # Untouched})
NewestEdit(d) == Max({0} \cup (seen[d] \ deletes))
NewestDelete(d) == Max({0} \cup (seen[d] \cap deletes))

\* "Edit wins over delete" and "a later delete wins", whatever way the stamps reached the
\* device and whichever field the edit touched: the entity is there exactly when the
\* newest edit it has merged is later than the newest delete.
EditOutlivesDelete ==
    \A d \in Devices : seen[d] # {} =>
        (Live(version[d]) <=> NewestEdit(d) > NewestDelete(d))

\* Nothing was forgotten: no delete that d has merged was found by the scan.
Remembered(d) == seen[d] \cap blind = {}

\* A column shows the newest value anyone wrote to it, as far as the device has heard,
\* also one that a delete swallowed before another field's edit brought the entity back.
ShowsNewestEdit ==
    \A d \in Devices, f \in Scalars : Live(version[d]) /\ Remembered(d) =>
        version[d].row[f] = wrote[NewestWrite(d, f)][f]

\* A key or element shows what the newest write of it said, unless a later delete of the
\* entity took it along.
MembersExplained ==
    \A d \in Devices, f \in Members :
        LET c == NewestWrite(d, f) IN
        Live(version[d]) /\ Remembered(d) /\ c # 0 =>
            \/ version[d].row[f] = wrote[c][f]
            \/ version[d].row[f] = Absent /\ c < NewestDelete(d)

\* A key or element that is gone from a live row comes back only with a newer write of it:
\* an older replica that still holds it cannot add it back.  (When the scan found a delete,
\* its tombstone has no row, and a write that it swallowed may come back from elsewhere.)
StaysRemoved ==
    [][\A d \in Devices, f \in Members :
        Live(version[d]) /\ version[d].row[f] = Absent
        /\ Live(version'[d]) /\ version'[d].row[f] # Absent /\ Remembered(d)' =>
            NewestWrite(d, f)' > NewestWrite(d, f)]_vars

\* When the editing stops and the devices go on pulling, they all end with the same entity.
Converges == <>[](\A d, e \in Devices : version[d] = version[e])
=============================================================================
