--------------------------- MODULE ReplicatedRows ---------------------------
(***************************************************************************)
(* One table of whole-row entities on several devices: the triggers that   *)
(* mark what a write touched (capture-install.ts), the stamper that gives  *)
(* the marked rows their clocks (capture-stamp.ts), the change set a       *)
(* device publishes (list-changes.ts) and its merge on another device      *)
(* (apply-bundle.ts, apply-rows.ts, merge-row.ts, rule "generic-row").     *)
(*                                                                         *)
(* A device's database is a record; "db" holds the committed one and       *)
(* "work" the one its open SQLite transaction sees.  The repository's      *)
(* write queue lets one transaction run at a time, and reads the change    *)
(* set in the same slot.  Change sets travel as files: any published one   *)
(* may be applied at any time, again, or never.  Rows are numbers, in the  *)
(* order of their canonical JSON.                                          *)
(***************************************************************************)
EXTENDS HybridClock, FiniteSets

CONSTANTS
  Devices,    \* device ids
  Entities,   \* primary keys of the table
  Values,     \* contents of a live row
  Times,      \* what a wall clock may show; it may stand still or go back
  MaxAhead,   \* HLC_REMOTE_MAX_AHEAD_MS
  MaxEdits,   \* bound on write operations
  MaxFaults,  \* bound on rollbacks
  MaxEmpty    \* bound on change sets published without any entity

ASSUME RowsAssumption ==
  /\ Devices \subseteq Nat
  /\ Values \subseteq Nat \ {0}
  /\ Times \subseteq Nat
  /\ MaxAhead \in Nat
  /\ MaxEdits \in Nat
  /\ MaxFaults \in Nat
  /\ MaxEmpty \in Nat

VARIABLES
  db,         \* the committed database of each device
  work,       \* the database as the device's open transaction sees it
  step,       \* what the transaction is doing
  now,        \* the wall clock the transaction works with
  incoming,   \* the change set it merges
  todo,       \* the entities of it that are still to be merged
  changeSets, \* every change set ever published
  lastSaver,  \* observer: the device whose save changed each row last
  edits, faults, empties

transaction == <<work, step, now, incoming, todo>>
vars == <<db, transaction, changeSets, lastSaver, edits, faults, empties>>

----------------------------------------------------------------------------
(* Databases                                                               *)

\* No row: it was deleted or never existed.
Gone == 0

Contents == Values \cup {Gone}

\* sync_entity_meta; a missing meta row has no clock.
Meta == [rowHlc : Hlc \cup {NoClock}, deleted : BOOLEAN]

NoMeta == [rowHlc |-> NoClock, deleted |-> FALSE]

\* What one stamp recorded.
Version == [entity : Entities, clock : Hlc, content : Contents]

Database ==
  [clock    : HlcState,               \* sync_identity
   row      : [Entities -> Contents],
   meta     : [Entities -> Meta],
   snapshot : [Entities -> Contents], \* content hash, Gone for none
   dirty    : SUBSET Entities,        \* sync_dirty
   typed    : [Entities -> Contents], \* observer: what the user last saved
   seen     : SUBSET Version]         \* observer: the versions merged here

EmptyDatabase ==
  [clock    |-> InitialHlcState,
   row      |-> [e \in Entities |-> Gone],
   meta     |-> [e \in Entities |-> NoMeta],
   snapshot |-> [e \in Entities |-> Gone],
   dirty    |-> {},
   typed    |-> [e \in Entities |-> Gone],
   seen     |-> {}]

LiveClock(meta) == IF meta.deleted THEN NoClock ELSE meta.rowHlc

DeleteClock(meta) == IF meta.deleted THEN meta.rowHlc ELSE NoClock

----------------------------------------------------------------------------
(* Writing and stamping                                                    *)

\* The user's statements.  Every insert and update marks its row, the same
\* content included; a delete of a missing row fires no trigger.
Edited(s, saved) ==
  [s EXCEPT
     !.row   = [e \in Entities |-> IF e \in DOMAIN saved THEN saved[e]
                                                         ELSE @[e]],
     !.typed = [e \in Entities |-> IF e \in DOMAIN saved THEN saved[e]
                                                         ELSE @[e]],
     !.dirty = @ \cup {e \in DOMAIN saved : {saved[e], s.row[e]} # {Gone}}]

\* Whether a marked row differs from what its last stamp saw.
Changed(s, e) ==
  IF s.row[e] = Gone
  THEN LiveClock(s.meta[e]) # NoClock
  ELSE LiveClock(s.meta[e]) = NoClock \/ s.snapshot[e] # s.row[e]

\* One mark drained by stampDirtyEntities.
Stamped(s, device, e, time) ==
  LET clock == TickHlc(s.clock, time)
      hlc   == EncodeHlc(clock, device)
      clean == [s EXCEPT !.snapshot[e] = s.row[e], !.dirty = @ \ {e}]
  IN  IF ~Changed(s, e)
      THEN clean
      ELSE [clean EXCEPT
              !.clock   = clock,
              !.meta[e] = [rowHlc |-> hlc, deleted |-> s.row[e] = Gone],
              !.seen    = @ \cup {[entity  |-> e,
                                   clock   |-> hlc,
                                   content |-> s.row[e]]}]

\* Bug: marks are left for after the merge.
DrainedLater(s) == TRUE

Drained(s) == s.dirty = {}

----------------------------------------------------------------------------
(* Change sets                                                             *)

\* Bug: tombstones stay at home.
LiveOnly(s) == {e \in Entities : LiveClock(s.meta[e]) # NoClock}

\* A marked row whose delete the stamper has not seen is not published.
Publishable(s) ==
  {e \in Entities : \/ DeleteClock(s.meta[e]) # NoClock
                    \/ LiveClock(s.meta[e]) # NoClock /\ s.row[e] # Gone}

\* An entity the change set does not carry has no clock.
Entity(s, e) ==
  IF e \in Publishable(s)
  THEN [content |-> IF s.meta[e].deleted THEN Gone ELSE s.row[e],
        rowHlc  |-> s.meta[e].rowHlc]
  ELSE [content |-> Gone, rowHlc |-> NoClock]

\* The newest clock carried, or the device's own when none is.
HlcHigh(s, device) ==
  LET carried == {s.meta[e].rowHlc : e \in Publishable(s)}
  IN  IF carried = {}
      THEN {EncodeHlc(s.clock, device)}
      ELSE {h \in carried : \A c \in carried : AtMost(c, h)}

\* readChangeSet; "seen" is the observer of what it stands for.
ChangeSet(s, device, high) ==
  [deviceId |-> device,
   hlcHigh  |-> high,
   entities |-> [e \in Entities |-> Entity(s, e)],
   seen     |-> {v \in s.seen : v.entity \in Publishable(s)}]

NoChangeSet ==
  [deviceId |-> 0,
   hlcHigh  |-> NoClock,
   entities |-> [e \in Entities |-> [content |-> Gone, rowHlc |-> NoClock]],
   seen     |-> {}]

Carried(set) == {e \in Entities : set.entities[e].rowHlc # NoClock}

\* assertRemoteClockAcceptable
Acceptable(set, time) == set.hlcHigh.physicalMs - time <= MaxAhead

----------------------------------------------------------------------------
(* Merging                                                                 *)

\* Bug: a delete beats any edit.
DeleteAlwaysWins(s, e, remote) ==
  remote.content = Gone \/ Before(s.meta[e].rowHlc, remote.rowHlc)

\* Bug: what arrives last wins.
ArrivalWins(s, e, remote) == TRUE

\* mergeRowEntity: whether the remote state replaces the local one.
RemoteWins(s, e, remote) ==
  LET live == LiveClock(s.meta[e])
      gone == DeleteClock(s.meta[e])
  IN  \/ /\ remote.content = Gone
         /\ s.row[e] # Gone
         /\ Before(live, remote.rowHlc)
      \/ /\ remote.content = Gone
         /\ s.row[e] = Gone
         /\ Before(gone, remote.rowHlc)
      \/ /\ remote.content # Gone
         /\ s.row[e] = Gone
         /\ ~Before(remote.rowHlc, gone)
      \/ /\ remote.content # Gone
         /\ s.row[e] # Gone
         /\ \/ Before(live, remote.rowHlc)
            \/ live = remote.rowHlc /\ remote.content < s.row[e]

\* The merge of one entity, with the snapshot read back afterwards.  The
\* triggers are quiet: "applying" is raised.
Merged(s, e, set) ==
  LET remote == set.entities[e]
      known  == {v \in set.seen : v.entity = e}
      wins   == RemoteWins(s, e, remote)
      row    == IF wins THEN remote.content ELSE s.row[e]
  IN  [s EXCEPT
         !.row[e]      = row,
         !.meta[e]     = IF wins THEN [rowHlc  |-> remote.rowHlc,
                                       deleted |-> remote.content = Gone]
                                 ELSE @,
         !.snapshot[e] = row,
         !.seen        = @ \cup known]

\* Bug: the bundle's clock is not folded in.
NotAbsorbed(s, remote, time) == s

\* absorbRemoteHlc
Absorbed(s, remote, time) ==
  IF Earlier(s.clock, remote)
  THEN [s EXCEPT !.clock = ReceiveHlc(s.clock, remote, time)]
  ELSE s

----------------------------------------------------------------------------
(* The writer slot of a device                                             *)

Init ==
  /\ db         = [d \in Devices |-> EmptyDatabase]
  /\ work       = [d \in Devices |-> EmptyDatabase]
  /\ step       = [d \in Devices |-> "idle"]
  /\ now        = [d \in Devices |-> 0]
  /\ incoming   = [d \in Devices |-> NoChangeSet]
  /\ todo       = [d \in Devices |-> {}]
  /\ changeSets = {}
  /\ lastSaver  = [e \in Entities |-> 0]
  /\ edits      = 0
  /\ faults     = 0
  /\ empties    = 0

\* The slot becomes free, with "left" as the database.
Ends(d, left) ==
  /\ step'     = [step EXCEPT ![d] = "idle"]
  /\ now'      = [now EXCEPT ![d] = 0]
  /\ incoming' = [incoming EXCEPT ![d] = NoChangeSet]
  /\ todo'     = [todo EXCEPT ![d] = {}]
  /\ work'     = [work EXCEPT ![d] = left]

\* Who saved each row last, once the user's write is committed.
SavedBy(d, before, after) ==
  [e \in Entities |-> IF after.row[e] # before.row[e] THEN d ELSE lastSaver[e]]

\* One write operation of the user: some rows inserted, updated, deleted.
Saves(d, first) ==
  /\ step[d] = "idle"
  /\ edits < MaxEdits
  /\ \E saved \in UNION {[S -> Contents] : S \in SUBSET Entities \ {{}}},
         time \in Times :
       /\ work' = [work EXCEPT ![d] = Edited(db[d], saved)]
       /\ now'  = [now EXCEPT ![d] = time]
  /\ step'  = [step EXCEPT ![d] = first]
  /\ edits' = edits + 1
  /\ UNCHANGED <<incoming, todo, changeSets, faults, empties>>

\* writeTransaction: the work is done, the stamper runs before COMMIT.
Write(d) ==
  /\ Saves(d, "write")
  /\ UNCHANGED <<db, lastSaver>>

\* writeExclusive: the operation commits by itself, a transaction that
\* stamps its marks follows in the same slot.
WriteAlone(d) ==
  /\ Saves(d, "flush")
  /\ db'        = [db EXCEPT ![d] = work'[d]]
  /\ lastSaver' = SavedBy(d, db[d], work'[d])

Stamp(d, e) ==
  /\ step[d] \in {"write", "flush", "drain"}
  /\ e \in work[d].dirty
  /\ work' = [work EXCEPT ![d] = Stamped(@, d, e, now[d])]
  /\ UNCHANGED <<db, step, now, incoming, todo>>
  /\ UNCHANGED <<changeSets, lastSaver, edits, faults, empties>>

Commit(d) ==
  /\ \/ step[d] \in {"write", "flush"} /\ Drained(work[d])
     \/ step[d] = "merge" /\ todo[d] = {}
  /\ db' = [db EXCEPT ![d] = work[d]]
  /\ Ends(d, work[d])
  /\ lastSaver' = IF step[d] = "write" THEN SavedBy(d, db[d], work[d])
                                      ELSE lastSaver
  /\ UNCHANGED <<changeSets, edits, faults, empties>>

\* An error in the transaction, or the end of the process.
Rollback(d) ==
  /\ step[d] \in {"write", "drain", "merge"}
  /\ faults < MaxFaults
  /\ faults' = faults + 1
  /\ Ends(d, db[d])
  /\ UNCHANGED <<db, changeSets, lastSaver, edits, empties>>

\* The same, after the operation has committed: its marks stay.
FlushFails(d) ==
  /\ step[d] = "flush"
  /\ faults < MaxFaults
  /\ faults' = faults + 1
  /\ Ends(d, db[d])
  /\ UNCHANGED <<db, changeSets, lastSaver, edits, empties>>

----------------------------------------------------------------------------
(* Exchange                                                                *)

\* readSyncSnapshot, in the writer slot: nothing is written, nothing drained.
Publish(d) ==
  /\ step[d] = "idle"
  /\ \E high \in HlcHigh(db[d], d) :
       LET set == ChangeSet(db[d], d, high)
       IN  /\ set \notin changeSets
           /\ IF Carried(set) = {} THEN /\ empties < MaxEmpty
                                        /\ empties' = empties + 1
                                   ELSE UNCHANGED empties
           /\ changeSets' = changeSets \cup {set}
  /\ UNCHANGED <<db, transaction, lastSaver, edits, faults>>

\* prepareApply, BEGIN.  What refuses the set leaves everything as it was.
Apply(d, set) ==
  /\ step[d] = "idle"
  /\ set \in changeSets
  /\ set.deviceId # d
  /\ \E time \in Times : /\ Acceptable(set, time)
                         /\ now' = [now EXCEPT ![d] = time]
  /\ step'     = [step EXCEPT ![d] = "drain"]
  /\ incoming' = [incoming EXCEPT ![d] = set]
  /\ UNCHANGED <<db, work, todo>>
  /\ UNCHANGED <<changeSets, lastSaver, edits, faults, empties>>

Absorb(d) ==
  /\ step[d] = "drain"
  /\ Drained(work[d])
  /\ work' = [work EXCEPT ![d] = Absorbed(@, incoming[d].hlcHigh, now[d])]
  /\ step' = [step EXCEPT ![d] = "merge"]
  /\ todo' = [todo EXCEPT ![d] = Carried(incoming[d])]
  /\ UNCHANGED <<db, now, incoming>>
  /\ UNCHANGED <<changeSets, lastSaver, edits, faults, empties>>

Merge(d, e) ==
  /\ step[d] = "merge"
  /\ e \in todo[d]
  /\ work' = [work EXCEPT ![d] = Merged(@, e, incoming[d])]
  /\ todo' = [todo EXCEPT ![d] = @ \ {e}]
  /\ UNCHANGED <<db, step, now, incoming>>
  /\ UNCHANGED <<changeSets, lastSaver, edits, faults, empties>>

----------------------------------------------------------------------------
(* Specifications                                                          *)

\* Every write gets its stamp: no flush fails.
StampedNext ==
  \E d \in Devices :
    \/ Write(d) \/ WriteAlone(d)
    \/ Commit(d) \/ Rollback(d)
    \/ Publish(d)
    \/ \E set \in changeSets : Apply(d, set)
    \/ Absorb(d)
    \/ \E e \in Entities : Stamp(d, e) \/ Merge(d, e)

Next == StampedNext \/ \E d \in Devices : FlushFails(d)

StampedSpec == Init /\ [][StampedNext]_vars
Spec        == Init /\ [][Next]_vars

\* A transaction that was begun goes on; a device that has something new to
\* publish does, and applies the newest change set of each other device.
FairSpec ==
  /\ StampedSpec
  /\ \A d \in Devices :
       /\ WF_vars(\E e \in Entities : Stamp(d, e) \/ Merge(d, e))
       /\ WF_vars(Absorb(d))
       /\ WF_vars(Commit(d))
       /\ SF_vars(Publish(d))
       /\ \A other \in Devices :
            SF_vars(\E set \in changeSets :
                      /\ \E high \in HlcHigh(db[other], other) :
                           set = ChangeSet(db[other], other, high)
                      /\ Apply(d, set))

----------------------------------------------------------------------------
(* Properties                                                              *)

\* Every database, committed or inside a transaction.
Databases == {db[d] : d \in Devices} \cup {work[d] : d \in Devices}

ChangeSetType ==
  [deviceId : Nat,
   hlcHigh  : Hlc \cup {NoClock},
   entities : [Entities -> [content : Contents, rowHlc : Hlc \cup {NoClock}]],
   seen     : SUBSET Version]

\* Every variable keeps its type; in particular no clock state ever holds a
\* counter its text form has no room for (finishStep).
TypeOK ==
  /\ db         \in [Devices -> Database]
  /\ work       \in [Devices -> Database]
  /\ step       \in [Devices -> {"idle", "write", "flush", "drain", "merge"}]
  /\ now        \in [Devices -> Nat]
  /\ incoming   \in [Devices -> ChangeSetType]
  /\ todo       \in [Devices -> SUBSET Entities]
  /\ changeSets \subseteq ChangeSetType
  /\ lastSaver  \in [Entities -> Devices \cup {0}]
  /\ edits      \in 0 .. MaxEdits
  /\ faults     \in 0 .. MaxFaults
  /\ empties    \in 0 .. MaxEmpty

\* A marked row holds what this device's user last saved, so the stamp it is
\* about to get, a fresh clock of this device, never names a remote content:
\* the drain before "applying" is raised, and the silent triggers after it.
PendingIsLocal ==
  \A s \in Databases : \A e \in s.dirty : s.row[e] = s.typed[e]

\* A stamp comes after everything its device has merged, whatever the wall
\* clocks showed: an edit made on top of another one beats it everywhere
\* (tickHlc, absorbRemoteHlc, the guard of validateChangeSet on hlcHigh).
StampsFollowWhatWasSeen ==
  [][\A d \in Devices : \A v \in work'[d].seen \ work[d].seen :
       v.clock.deviceId = d =>
         \A u \in work[d].seen : Before(u.clock, v.clock)]_vars

\* Everything known anywhere: on a device, or in a published change set.
Known ==
  (UNION {s.seen : s \in Databases}) \cup (UNION {c.seen : c \in changeSets})

\* One clock names one stamp, over all devices, rollbacks included.
ClocksNameOneVersion ==
  \A u, v \in Known : u.clock = v.clock => u = v

\* A device shows the newest of the versions it has merged, and only its
\* unstamped rows differ from it.  Two devices that have merged the same
\* versions, in whatever order, grouping and repetition, show the same rows.
ShowsNewestSeen ==
  \A s \in Databases : \A e \in Entities :
    LET known == {v \in s.seen : v.entity = e}
        newest == [entity  |-> e,
                   clock   |-> s.meta[e].rowHlc,
                   content |-> s.snapshot[e]]
    IN  /\ \A v \in known : AtMost(v.clock, newest.clock)
        /\ s.meta[e] = NoMeta => s.snapshot[e] = Gone
        /\ s.meta[e] # NoMeta =>
             newest \in known /\ (s.meta[e].deleted <=> newest.content = Gone)
        /\ e \notin s.dirty => s.row[e] = s.snapshot[e]

\* A merge replaces what this device's user saved only by a version with a
\* later clock (mergeRowEntity after the drain).
EditsYieldToLaterOnly ==
  [][\A d \in Devices : \A e \in todo[d] \ todo'[d] :
       (/\ step'[d] = "merge"
        /\ work[d].row[e] = work[d].typed[e]
        /\ work'[d].row[e] # work[d].row[e])
       => Before(work[d].meta[e].rowHlc, work'[d].meta[e].rowHlc)]_vars

\* A failed flush "only delays the stamp [...]; it never loses a change"
\* (tauri-sqlite-repository.ts:320): the last save of a row, on any device,
\* is not merged away on the device that made it unless by a later clock.
LastSaveIsNotLost ==
  [][\A d \in Devices : \A e \in todo[d] \ todo'[d] :
       (/\ step'[d] = "merge"
        /\ lastSaver[e] = d
        /\ work[d].row[e] = work[d].typed[e]
        /\ work'[d].row[e] # work[d].row[e])
       => Before(work[d].meta[e].rowHlc, work'[d].meta[e].rowHlc)]_vars

\* Once the users stop saving, all devices come to show the same rows.
Converges ==
  <>[](\A c, d \in Devices : db[c].row = db[d].row)
=============================================================================
