------------------------ MODULE ReplicatedRowsProofs ------------------------
(***************************************************************************)
(* Proofs about ReplicatedRows, for any devices, rows, wall clocks, edits, *)
(* faults and counter width.  A state is described in three layers: a      *)
(* database by itself, a published change set by itself, and where the     *)
(* versions a device has stamped may be found.                             *)
(***************************************************************************)
EXTENDS ReplicatedRows, HybridClockProofs

----------------------------------------------------------------------------
(* The inductive invariant                                                 *)

\* The device's clock has reached every clock its database holds, and the
\* clock of an entity every version of it that was merged.
ClockCovers(s) ==
  /\ \A e \in Entities : ~Earlier(s.clock, s.meta[e].rowHlc)
  /\ \A v \in s.seen : /\ ~Earlier(s.clock, v.clock)
                       /\ AtMost(v.clock, s.meta[v.entity].rowHlc)

\* The meta and the snapshot of an entity describe the row it has.
Describes(s, e) ==
  IF s.row[e] = Gone
  THEN LiveClock(s.meta[e]) = NoClock /\ s.snapshot[e] = Gone
  ELSE LiveClock(s.meta[e]) # NoClock /\ s.snapshot[e] = s.row[e]

\* They may fail to only for a marked row, which the user has saved.
MarksCover(s) ==
  \A e \in Entities : IF e \in s.dirty THEN s.row[e] = s.typed[e]
                                       ELSE Describes(s, e)

ClocksUnique(s) == \A u, v \in s.seen : u.clock = v.clock => u = v

Sound(s) == ClockCovers(s) /\ MarksCover(s) /\ ClocksUnique(s)

\* A change set carries what it stands for, and names its newest clock.
Proper(c) ==
  /\ c.hlcHigh \in Hlc
  /\ \A e \in Entities : AtMost(c.entities[e].rowHlc, c.hlcHigh)
  /\ \A v \in c.seen : /\ v.entity \in Carried(c)
                       /\ AtMost(v.clock, c.entities[v.entity].rowHlc)

\* A version is committed on the device whose clock it has.
AtHome(v) == v.clock.deviceId \in Devices /\ v \in db[v.clock.deviceId].seen

\* Only the device itself may see its own versions before they are.
KnownAtHome ==
  /\ \A d \in Devices : \A v \in db[d].seen : AtHome(v)
  /\ \A d \in Devices : \A v \in work[d].seen : v.clock.deviceId = d \/ AtHome(v)
  /\ \A c \in changeSets : \A v \in c.seen : AtHome(v)

\* What the open transaction of a device may rely on.
SlotSound(d) ==
  /\ db[d].seen \subseteq work[d].seen
  /\ step[d] = "idle" => work[d] = db[d]
  /\ step[d] \in {"drain", "merge"} => incoming[d] \in changeSets
  /\ step[d] = "merge" => /\ work[d].dirty = {}
                          /\ ~Earlier(work[d].clock, incoming[d].hlcHigh)
                          /\ todo[d] \subseteq Carried(incoming[d])

IInv ==
  /\ TypeOK
  /\ \A d \in Devices : Sound(db[d]) /\ Sound(work[d]) /\ SlotSound(d)
  /\ \A c \in changeSets : Proper(c)
  /\ KnownAtHome

\* What holds besides when no flush fails: the committed database has no marks
\* outside a flush, and each entity shows one of the versions merged.
ShowsAVersion(s) ==
  \A e \in Entities :
    /\ s.meta[e] = NoMeta => s.snapshot[e] = Gone
    /\ s.meta[e] # NoMeta =>
         /\ s.meta[e].deleted <=> s.snapshot[e] = Gone
         /\ [entity  |-> e,
             clock   |-> s.meta[e].rowHlc,
             content |-> s.snapshot[e]] \in s.seen

CarriesVersions(c) ==
  \A e \in Carried(c) : [entity  |-> e,
                         clock   |-> c.entities[e].rowHlc,
                         content |-> c.entities[e].content] \in c.seen

StampedInv ==
  /\ \A d \in Devices : /\ ShowsAVersion(db[d]) /\ ShowsAVersion(work[d])
                        /\ step[d] # "flush" => db[d].dirty = {}
  /\ \A c \in changeSets : CarriesVersions(c)

----------------------------------------------------------------------------
(* Types                                                                   *)

\* The parts of a database have their types.
LEMMA DatabaseParts ==
  ASSUME NEW s \in Database
  PROVE  /\ s.clock \in HlcState
         /\ s.row \in [Entities -> Contents]
         /\ s.meta \in [Entities -> Meta]
         /\ s.snapshot \in [Entities -> Contents]
         /\ s.dirty \subseteq Entities
         /\ s.typed \in [Entities -> Contents]
         /\ s.seen \subseteq Version
BY DEF Database

\* A meta row holds clocks.
LEMMA MetaParts ==
  ASSUME NEW meta \in Meta
  PROVE  /\ meta.rowHlc \in Clock
         /\ meta.deleted \in BOOLEAN
         /\ LiveClock(meta) \in Clock
         /\ DeleteClock(meta) \in Clock
BY DEF Meta, Clock, LiveClock, DeleteClock

\* A version has a real clock.
LEMMA VersionParts ==
  ASSUME NEW v \in Version
  PROVE  v.entity \in Entities /\ v.clock \in Hlc /\ v.content \in Contents
BY DEF Version

\* A new database has its type.
LEMMA EmptyType == EmptyDatabase \in Database
<1>1. InitialHlcState \in HlcState
  BY CounterAssumption DEF InitialHlcState, HlcState
<1>2. NoMeta \in Meta /\ Gone \in Contents
  BY DEF NoMeta, Meta, Contents
<1> QED
  BY <1>1, <1>2 DEF EmptyDatabase, Database

\* What a save changes, part by part.
EditedTo(s, S, saved, t) ==
  /\ t.clock = s.clock /\ t.meta = s.meta
  /\ t.snapshot = s.snapshot /\ t.seen = s.seen
  /\ \A e \in Entities :
       /\ e \in S => t.row[e] = saved[e] /\ t.typed[e] = saved[e]
       /\ e \notin S => t.row[e] = s.row[e] /\ t.typed[e] = s.typed[e]
       /\ e \in t.dirty <=>
            e \in s.dirty \/ (e \in S /\ {saved[e], s.row[e]} # {Gone})

\* A save yields a database.
LEMMA EditedParts ==
  ASSUME NEW s \in Database, NEW S \in SUBSET Entities,
         NEW saved \in [S -> Contents]
  PROVE  /\ Edited(s, saved) \in Database
         /\ EditedTo(s, S, saved, Edited(s, saved))
<1> DEFINE row   == [e \in Entities |-> IF e \in S THEN saved[e] ELSE s.row[e]]
           typed == [e \in Entities |-> IF e \in S THEN saved[e] ELSE s.typed[e]]
           dirty == s.dirty \cup {e \in S : {saved[e], s.row[e]} # {Gone}}
<1>1. DOMAIN saved = S
  OBVIOUS
<1>2. Edited(s, saved) =
        [s EXCEPT !.row = row, !.typed = typed, !.dirty = dirty]
  BY <1>1, DatabaseParts DEF Edited, Database
<1>3. /\ row \in [Entities -> Contents]
      /\ typed \in [Entities -> Contents]
      /\ dirty \subseteq Entities
  BY DatabaseParts
<1>4. \A e \in Entities :
         /\ e \in S => row[e] = saved[e] /\ typed[e] = saved[e]
         /\ e \notin S => row[e] = s.row[e] /\ typed[e] = s.typed[e]
         /\ e \in dirty <=>
              e \in s.dirty \/ (e \in S /\ {saved[e], s.row[e]} # {Gone})
  OBVIOUS
<1> HIDE DEF row, typed, dirty
<1> DEFINE t == [s EXCEPT !.row = row, !.typed = typed, !.dirty = dirty]
<1>5. /\ t \in Database
      /\ t.row = row /\ t.typed = typed /\ t.dirty = dirty
      /\ t.clock = s.clock /\ t.meta = s.meta
      /\ t.snapshot = s.snapshot /\ t.seen = s.seen
  BY <1>3 DEF Database
<1> HIDE DEF t
<1>6. EditedTo(s, S, saved, t)
  BY <1>4, <1>5 DEF EditedTo
<1> QED
  BY <1>2, <1>5, <1>6 DEF t

\* The version that a stamp records.
StampOf(s, device, e, time) ==
  [entity  |-> e,
   clock   |-> EncodeHlc(TickHlc(s.clock, time), device),
   content |-> s.row[e]]

\* The version has its type, and the device's id.
LEMMA StampOfType ==
  ASSUME NEW s \in Database, NEW d \in Devices, NEW e \in Entities,
         NEW time \in Nat
  PROVE  /\ StampOf(s, d, e, time) \in Version
         /\ StampOf(s, d, e, time).clock.deviceId = d
         /\ StampOf(s, d, e, time).clock # NoClock
         /\ StampOf(s, d, e, time).entity = e
         /\ StampOf(s, d, e, time).content = s.row[e]
         /\ StampOf(s, d, e, time).clock.physicalMs =
              TickHlc(s.clock, time).physicalMs
         /\ StampOf(s, d, e, time).clock.counter =
              TickHlc(s.clock, time).counter
<1>1. TickHlc(s.clock, time) \in HlcState
  BY TickIsLater, DatabaseParts
<1>2. EncodeHlc(TickHlc(s.clock, time), d) \in Hlc
  BY <1>1, RowsAssumption DEF EncodeHlc, HlcState, Hlc
<1>3. s.row[e] \in Contents
  BY DatabaseParts
<1>4. EncodeHlc(TickHlc(s.clock, time), d) # NoClock
  BY <1>2 DEF Hlc, NoClock
<1> QED
  BY <1>2, <1>3, <1>4 DEF StampOf, Version, EncodeHlc

\* What draining a mark changes, part by part; v is the version it records.
StampedTo(s, e, clock, v, t) ==
  /\ t.row = s.row /\ t.typed = s.typed
  /\ t.dirty = s.dirty \ {e}
  /\ t.snapshot = [s.snapshot EXCEPT ![e] = s.row[e]]
  /\ ~Changed(s, e) =>
       t.clock = s.clock /\ t.meta = s.meta /\ t.seen = s.seen
  /\ Changed(s, e) =>
       /\ t.clock = clock
       /\ t.meta = [s.meta EXCEPT ![e] =
            [rowHlc |-> v.clock, deleted |-> s.row[e] = Gone]]
       /\ t.seen = s.seen \cup {v}

\* Draining a mark yields a database.
LEMMA StampedParts ==
  ASSUME NEW s \in Database, NEW d \in Devices, NEW e \in Entities,
         NEW time \in Nat
  PROVE  /\ Stamped(s, d, e, time) \in Database
         /\ StampedTo(s, e, TickHlc(s.clock, time), StampOf(s, d, e, time),
                      Stamped(s, d, e, time))
<1> DEFINE v        == StampOf(s, d, e, time)
           meta     == [s.meta EXCEPT ![e] =
                         [rowHlc |-> v.clock, deleted |-> s.row[e] = Gone]]
           snapshot == [s.snapshot EXCEPT ![e] = s.row[e]]
           clock    == TickHlc(s.clock, time)
           clean    == [s EXCEPT !.snapshot = snapshot, !.dirty = s.dirty \ {e}]
           stamped  == [clean EXCEPT !.clock = clock, !.meta = meta,
                                     !.seen = s.seen \cup {v}]
<1>1. v \in Version /\ clock \in HlcState
  BY StampOfType, TickIsLater, DatabaseParts
<1>2. [rowHlc |-> v.clock, deleted |-> s.row[e] = Gone] \in Meta
  BY <1>1, VersionParts DEF Meta
<1>3. meta \in [Entities -> Meta] /\ snapshot \in [Entities -> Contents]
  BY <1>2, DatabaseParts
<1>4. Stamped(s, d, e, time) = IF ~Changed(s, e) THEN clean ELSE stamped
  BY DatabaseParts DEF Stamped, StampOf, Database
<1> HIDE DEF v, meta, snapshot, clock
<1>5. /\ clean \in Database
      /\ clean.snapshot = snapshot /\ clean.dirty = s.dirty \ {e}
      /\ clean.row = s.row /\ clean.typed = s.typed /\ clean.clock = s.clock
      /\ clean.meta = s.meta /\ clean.seen = s.seen
  BY <1>3 DEF Database
<1> HIDE DEF clean
<1>6. /\ stamped \in Database
      /\ stamped.snapshot = clean.snapshot /\ stamped.dirty = clean.dirty
      /\ stamped.row = clean.row /\ stamped.typed = clean.typed
      /\ stamped.clock = clock /\ stamped.meta = meta
      /\ stamped.seen = s.seen \cup {v}
  BY <1>1, <1>3, <1>5 DEF Database
<1> HIDE DEF stamped
<1>7. CASE Changed(s, e)
  <2>1. Stamped(s, d, e, time) = stamped
    BY <1>4, <1>7
  <2>2. StampedTo(s, e, clock, v, stamped)
    BY <1>5, <1>6, <1>7 DEF StampedTo, meta, snapshot
  <2> QED
    BY <2>1, <2>2, <1>6 DEF v, clock
<1>8. CASE ~Changed(s, e)
  <2>1. Stamped(s, d, e, time) = clean
    BY <1>4, <1>8
  <2>2. StampedTo(s, e, clock, v, clean)
    BY <1>5, <1>8 DEF StampedTo, snapshot
  <2> QED
    BY <2>1, <2>2, <1>5 DEF v, clock
<1> QED
  BY <1>7, <1>8

\* What folding a clock in changes, part by part.
AbsorbedTo(s, remote, t) ==
  /\ t.row = s.row /\ t.typed = s.typed /\ t.dirty = s.dirty
  /\ t.meta = s.meta /\ t.snapshot = s.snapshot /\ t.seen = s.seen
  /\ ~Earlier(t.clock, s.clock)
  /\ ~Earlier(t.clock, remote)

\* Folding a clock in yields a database.
LEMMA AbsorbedParts ==
  ASSUME NEW s \in Database, NEW remote \in Hlc, NEW time \in Nat
  PROVE  /\ Absorbed(s, remote, time) \in Database
         /\ AbsorbedTo(s, remote, Absorbed(s, remote, time))
<1>1. CASE Earlier(s.clock, remote)
  <2> DEFINE clock == ReceiveHlc(s.clock, remote, time)
             t     == [s EXCEPT !.clock = clock]
  <2>1. /\ clock \in HlcState
        /\ Earlier(s.clock, clock)
        /\ Earlier(remote, clock)
    BY ReceiveIsLater, DatabaseParts
  <2>2. Absorbed(s, remote, time) = t
    BY <1>1, DatabaseParts DEF Absorbed, Database
  <2> HIDE DEF clock
  <2>3. /\ t \in Database /\ t.clock = clock
        /\ t.row = s.row /\ t.typed = s.typed /\ t.dirty = s.dirty
        /\ t.meta = s.meta /\ t.snapshot = s.snapshot /\ t.seen = s.seen
    BY <2>1 DEF Database
  <2>4. ~Earlier(clock, s.clock) /\ ~Earlier(clock, remote)
    BY <2>1, DatabaseParts DEF Earlier, HlcState, Hlc
  <2> HIDE DEF t
  <2>5. AbsorbedTo(s, remote, t)
    BY <2>3, <2>4 DEF AbsorbedTo
  <2> QED
    BY <2>2, <2>3, <2>5
<1>2. CASE ~Earlier(s.clock, remote)
  <2>1. Absorbed(s, remote, time) = s
    BY <1>2 DEF Absorbed
  <2>2. ~Earlier(s.clock, s.clock)
    BY DatabaseParts DEF Earlier, HlcState
  <2> QED
    BY <1>2, <2>1, <2>2 DEF AbsorbedTo
<1> QED
  BY <1>1, <1>2

\* The parts of a change set have their types.
LEMMA ChangeSetParts ==
  ASSUME NEW c \in ChangeSetType
  PROVE  /\ c.deviceId \in Nat
         /\ c.hlcHigh \in Clock
         /\ \A e \in Entities : /\ c.entities[e].rowHlc \in Clock
                                /\ c.entities[e].content \in Contents
         /\ c.seen \subseteq Version
BY DEF ChangeSetType, Clock

\* What the merge of an entity changes, part by part.
MergedTo(s, e, remote, seen, t) ==
  /\ t.clock = s.clock /\ t.typed = s.typed /\ t.dirty = s.dirty
  /\ t.snapshot = [s.snapshot EXCEPT ![e] = t.row[e]]
  /\ t.seen = s.seen \cup {v \in seen : v.entity = e}
  /\ RemoteWins(s, e, remote) =>
       /\ t.row = [s.row EXCEPT ![e] = remote.content]
       /\ t.meta = [s.meta EXCEPT ![e] =
            [rowHlc  |-> remote.rowHlc,
             deleted |-> remote.content = Gone]]
  /\ ~RemoteWins(s, e, remote) => t.row = s.row /\ t.meta = s.meta

\* Merging an entity yields a database.
LEMMA MergedParts ==
  ASSUME NEW s \in Database, NEW e \in Entities, NEW c \in ChangeSetType
  PROVE  /\ Merged(s, e, c) \in Database
         /\ MergedTo(s, e, c.entities[e], c.seen, Merged(s, e, c))
<1> DEFINE remote   == c.entities[e]
           known    == {v \in c.seen : v.entity = e}
           wins     == RemoteWins(s, e, remote)
           new      == IF wins THEN remote.content ELSE s.row[e]
           newMeta  == IF wins THEN [rowHlc  |-> remote.rowHlc,
                                     deleted |-> remote.content = Gone]
                               ELSE s.meta[e]
           row      == [s.row EXCEPT ![e] = new]
           meta     == [s.meta EXCEPT ![e] = newMeta]
           snapshot == [s.snapshot EXCEPT ![e] = new]
           t        == [s EXCEPT !.row = row, !.meta = meta,
                                 !.snapshot = snapshot,
                                 !.seen = s.seen \cup known]
<1>1. Merged(s, e, c) = t
  BY DatabaseParts DEF Merged, Database
<1>2. /\ remote.rowHlc \in Clock
      /\ remote.content \in Contents
      /\ known \subseteq Version
  BY ChangeSetParts
<1>3. new \in Contents /\ newMeta \in Meta
  BY <1>2, DatabaseParts DEF Meta, Clock
<1>4. /\ row \in [Entities -> Contents] /\ row[e] = new
      /\ meta \in [Entities -> Meta]
      /\ snapshot \in [Entities -> Contents]
  BY <1>3, DatabaseParts
<1>5. ~wins => row = s.row /\ meta = s.meta
  BY DatabaseParts
<1> HIDE DEF row, meta, snapshot, known, wins
<1>6. /\ t \in Database
      /\ t.row = row /\ t.meta = meta /\ t.snapshot = snapshot
      /\ t.seen = s.seen \cup known
      /\ t.clock = s.clock /\ t.typed = s.typed /\ t.dirty = s.dirty
  BY <1>2, <1>4 DEF Database
<1> HIDE DEF t
<1>7. MergedTo(s, e, remote, c.seen, t)
  BY <1>4, <1>5, <1>6 DEF MergedTo, row, meta, snapshot, known, wins
<1> QED
  BY <1>1, <1>6, <1>7

\* What a change set reads, part by part.
PublishedFrom(s, c) ==
  /\ c.hlcHigh \in Hlc
  /\ c.seen = {v \in s.seen : v.entity \in Publishable(s)}
  /\ Carried(c) = Publishable(s)
  /\ \A e \in Entities :
       /\ e \in Carried(c) =>
            /\ c.entities[e].rowHlc = s.meta[e].rowHlc
            /\ AtMost(s.meta[e].rowHlc, c.hlcHigh)
            /\ c.entities[e].content =
                 IF s.meta[e].deleted THEN Gone ELSE s.row[e]
            /\ ~s.meta[e].deleted => s.row[e] # Gone
       /\ e \notin Carried(c) =>
            c.entities[e].rowHlc = NoClock

\* Publishing yields a change set.
LEMMA PublishedParts ==
  ASSUME NEW s \in Database, NEW d \in Devices, NEW high \in HlcHigh(s, d)
  PROVE  /\ ChangeSet(s, d, high) \in ChangeSetType
         /\ PublishedFrom(s, ChangeSet(s, d, high))
<1> DEFINE c == ChangeSet(s, d, high)
<1>1. \A e \in Publishable(s) : s.meta[e].rowHlc \in Hlc
  BY DatabaseParts, MetaParts
  DEF Publishable, DeleteClock, LiveClock, Clock
<1>2. high \in Hlc
  <2>1. CASE {s.meta[e].rowHlc : e \in Publishable(s)} = {}
    <3>1. high = EncodeHlc(s.clock, d)
      BY <2>1 DEF HlcHigh
    <3> QED
      BY <3>1, DatabaseParts, RowsAssumption DEF EncodeHlc, HlcState, Hlc
  <2>2. CASE {s.meta[e].rowHlc : e \in Publishable(s)} # {}
    <3>1. high \in {s.meta[e].rowHlc : e \in Publishable(s)}
      BY <2>2 DEF HlcHigh
    <3> QED
      BY <3>1, <1>1
  <2> QED
    BY <2>1, <2>2
<1>3. \A e \in Publishable(s) : AtMost(s.meta[e].rowHlc, high)
  BY DEF HlcHigh
<1>4. \A e \in Entities :
         /\ Entity(s, e) \in [content : Contents, rowHlc : Clock]
         /\ e \in Publishable(s) =>
              /\ Entity(s, e).rowHlc = s.meta[e].rowHlc
              /\ Entity(s, e).content =
                   IF s.meta[e].deleted THEN Gone ELSE s.row[e]
         /\ e \notin Publishable(s) => Entity(s, e).rowHlc = NoClock
  <2>1. SUFFICES ASSUME NEW e \in Entities
                 PROVE  /\ Entity(s, e) \in [content : Contents, rowHlc : Clock]
                        /\ e \in Publishable(s) =>
                             /\ Entity(s, e).rowHlc = s.meta[e].rowHlc
                             /\ Entity(s, e).content =
                                  IF s.meta[e].deleted THEN Gone ELSE s.row[e]
                        /\ e \notin Publishable(s) =>
                             Entity(s, e).rowHlc = NoClock
    OBVIOUS
  <2>2. s.meta[e].rowHlc \in Clock /\ s.row[e] \in Contents /\ Gone \in Contents
    BY DatabaseParts, MetaParts DEF Contents
  <2> QED
    BY <2>2 DEF Entity, Clock
<1>5. /\ c.deviceId = d /\ c.hlcHigh = high
      /\ c.entities = [e \in Entities |-> Entity(s, e)]
      /\ c.seen = {v \in s.seen : v.entity \in Publishable(s)}
  BY DEF ChangeSet
<1>6. c \in ChangeSetType
  <2>1. [e \in Entities |-> Entity(s, e)]
          \in [Entities -> [content : Contents, rowHlc : Hlc \cup {NoClock}]]
    BY <1>4 DEF Clock
  <2>2. {v \in s.seen : v.entity \in Publishable(s)} \subseteq Version
    BY DatabaseParts
  <2> QED
    BY <1>2, <2>1, <2>2, RowsAssumption DEF ChangeSet, ChangeSetType
<1>7. Carried(c) = Publishable(s)
  BY <1>1, <1>4, <1>5 DEF Carried, Publishable, Hlc, NoClock
<1>8. \A e \in Publishable(s) : ~s.meta[e].deleted => s.row[e] # Gone
  BY DEF Publishable, DeleteClock
<1> HIDE DEF c
<1>9. PublishedFrom(s, c)
  BY <1>2, <1>3, <1>4, <1>5, <1>7, <1>8 DEF PublishedFrom
<1> QED
  BY <1>6, <1>9 DEF c

\* The placeholder of an idle device has the type of a change set.
LEMMA NoChangeSetType == NoChangeSet \in ChangeSetType
<1>1. Gone \in Contents
  BY DEF Contents
<1> QED
  BY <1>1 DEF NoChangeSet, ChangeSetType

\* The initial state has its types.
LEMMA TypesInitially == Init => TypeOK
BY EmptyType, NoChangeSetType, RowsAssumption DEF Init, TypeOK

\* A save starts from the committed database.
LEMMA SavesAnEdit ==
  ASSUME TypeOK, NEW d \in Devices, NEW first, Saves(d, first)
  PROVE  /\ now' \in [Devices -> Nat]
         /\ \E S \in SUBSET Entities : \E saved \in [S -> Contents] :
              work' = [work EXCEPT ![d] = Edited(db[d], saved)]
<1>1. PICK saved \in UNION {[S -> Contents] : S \in SUBSET Entities \ {{}}},
           time \in Times :
        /\ work' = [work EXCEPT ![d] = Edited(db[d], saved)]
        /\ now'  = [now EXCEPT ![d] = time]
  BY DEF Saves
<1>2. PICK S \in SUBSET Entities : saved \in [S -> Contents]
  OBVIOUS
<1>3. time \in Nat
  BY RowsAssumption
<1>4. now' \in [Devices -> Nat]
  BY <1>1, <1>3 DEF TypeOK
<1> QED
  BY <1>1, <1>2, <1>4

\* Every action keeps them.
LEMMA TypesPreserved == TypeOK /\ [Next]_vars => TypeOK'
<1> SUFFICES ASSUME TypeOK, [Next]_vars
             PROVE  TypeOK'
  OBVIOUS
<1> USE DEF TypeOK
<1>1. ASSUME NEW d \in Devices, Write(d)
      PROVE  TypeOK'
  <2>1. PICK S \in SUBSET Entities : \E saved \in [S -> Contents] :
          work' = [work EXCEPT ![d] = Edited(db[d], saved)]
    BY <1>1, SavesAnEdit DEF Write
  <2>2. PICK saved \in [S -> Contents] :
          work' = [work EXCEPT ![d] = Edited(db[d], saved)]
    BY <2>1
  <2>3. work' \in [Devices -> Database] /\ now' \in [Devices -> Nat]
    <3>1. Edited(db[d], saved) \in Database
      BY EditedParts
    <3> QED
      BY <1>1, <2>2, <3>1, SavesAnEdit DEF Write
  <2> QED
    BY <1>1, <2>3, RowsAssumption DEF Write, Saves
<1>2. ASSUME NEW d \in Devices, WriteAlone(d)
      PROVE  TypeOK'
  <2>1. PICK S \in SUBSET Entities : \E saved \in [S -> Contents] :
          work' = [work EXCEPT ![d] = Edited(db[d], saved)]
    BY <1>2, SavesAnEdit DEF WriteAlone
  <2>2. PICK saved \in [S -> Contents] :
          work' = [work EXCEPT ![d] = Edited(db[d], saved)]
    BY <2>1
  <2>3. work' \in [Devices -> Database] /\ now' \in [Devices -> Nat]
    <3>1. Edited(db[d], saved) \in Database
      BY EditedParts
    <3> QED
      BY <1>2, <2>2, <3>1, SavesAnEdit DEF WriteAlone
  <2>4. db' \in [Devices -> Database]
    BY <1>2, <2>3 DEF WriteAlone
  <2>5. lastSaver' \in [Entities -> Devices \cup {0}]
    BY <1>2 DEF WriteAlone, SavedBy
  <2> QED
    BY <1>2, <2>3, <2>4, <2>5, RowsAssumption DEF WriteAlone, Saves
<1>3. ASSUME NEW d \in Devices, NEW e \in Entities, Stamp(d, e)
      PROVE  TypeOK'
  <2>1. Stamped(work[d], d, e, now[d]) \in Database
    BY StampedParts
  <2>2. work' \in [Devices -> Database]
    BY <1>3, <2>1 DEF Stamp
  <2> QED
    BY <1>3, <2>2 DEF Stamp
<1>4. ASSUME NEW d \in Devices, NEW left \in Database, Ends(d, left)
      PROVE  /\ step' \in [Devices -> {"idle", "write", "flush", "drain", "merge"}]
             /\ now' \in [Devices -> Nat]
             /\ incoming' \in [Devices -> ChangeSetType]
             /\ todo' \in [Devices -> SUBSET Entities]
             /\ work' \in [Devices -> Database]
  BY <1>4, NoChangeSetType DEF Ends
<1>5. ASSUME NEW d \in Devices, Commit(d)
      PROVE  TypeOK'
  <2>1. Ends(d, work[d]) /\ work[d] \in Database
    BY <1>5 DEF Commit
  <2>2. db' \in [Devices -> Database]
    BY <1>5 DEF Commit
  <2>3. lastSaver' \in [Entities -> Devices \cup {0}]
    BY <1>5 DEF Commit, SavedBy
  <2> QED
    BY <1>4, <1>5, <2>1, <2>2, <2>3 DEF Commit
<1>6. ASSUME NEW d \in Devices, Rollback(d) \/ FlushFails(d)
      PROVE  TypeOK'
  <2>1. Ends(d, db[d]) /\ db[d] \in Database
    BY <1>6 DEF Rollback, FlushFails
  <2>2. faults' \in 0 .. MaxFaults
    BY <1>6, RowsAssumption DEF Rollback, FlushFails
  <2> QED
    BY <1>4, <1>6, <2>1, <2>2 DEF Rollback, FlushFails
<1>7. ASSUME NEW d \in Devices, Publish(d)
      PROVE  TypeOK'
  <2>1. PICK high \in HlcHigh(db[d], d) :
          changeSets' = changeSets \cup {ChangeSet(db[d], d, high)}
    BY <1>7 DEF Publish
  <2>2. ChangeSet(db[d], d, high) \in ChangeSetType
    BY PublishedParts
  <2>3. empties' \in 0 .. MaxEmpty
    BY <1>7, RowsAssumption DEF Publish
  <2> QED
    BY <1>7, <2>1, <2>2, <2>3 DEF Publish, transaction
<1>8. ASSUME NEW d \in Devices, NEW set \in changeSets, Apply(d, set)
      PROVE  TypeOK'
  BY <1>8, RowsAssumption DEF Apply
<1>9. ASSUME NEW d \in Devices, Absorb(d)
      PROVE  TypeOK'
  <2>1. Absorbed(work[d], incoming[d].hlcHigh, now[d]) \in Database
    <3>1. CASE incoming[d].hlcHigh = NoClock
      <4>1. ~Earlier(work[d].clock, NoClock)
        BY DatabaseParts DEF Earlier, NoClock, HlcState
      <4> QED
        BY <3>1, <4>1 DEF Absorbed
    <3>2. CASE incoming[d].hlcHigh # NoClock
      BY <3>2, AbsorbedParts, ChangeSetParts DEF Clock
    <3> QED
      BY <3>1, <3>2
  <2>2. work' \in [Devices -> Database]
    BY <1>9, <2>1 DEF Absorb
  <2>3. todo' \in [Devices -> SUBSET Entities]
    BY <1>9 DEF Absorb, Carried
  <2> QED
    BY <1>9, <2>2, <2>3 DEF Absorb
<1>10. ASSUME NEW d \in Devices, NEW e \in Entities, Merge(d, e)
       PROVE  TypeOK'
  <2>1. Merged(work[d], e, incoming[d]) \in Database
    BY MergedParts
  <2>2. work' \in [Devices -> Database]
    BY <1>10, <2>1 DEF Merge
  <2> QED
    BY <1>10, <2>2 DEF Merge
<1>11. CASE UNCHANGED vars
  BY <1>11 DEF vars, transaction
<1> QED
  BY <1>1, <1>2, <1>3, <1>5, <1>6, <1>7, <1>8, <1>9, <1>10, <1>11
  DEF Next, StampedNext

\* Every variable keeps its type, failed flushes included: in particular every
\* clock fits its text form (finishStep), whatever the wall clocks show.
THEOREM Types == Spec => []TypeOK
<1> QED
  BY TypesInitially, TypesPreserved, PTL DEF Spec

----------------------------------------------------------------------------
(* What each step does to a sound database                                 *)

\* A clock's state does not go back when it is replaced by a later one.
LEMMA ReachedStays ==
  ASSUME NEW old \in HlcState, NEW new \in HlcState, NEW c \in Clock,
         ~Earlier(old, c), ~Earlier(new, old)
  PROVE  ~Earlier(new, c)
BY ClockParts DEF Earlier, HlcState

\* The clocks of a meta row just written.
LEMMA MetaClocks ==
  ASSUME NEW clock, NEW content
  PROVE  LET meta == [rowHlc |-> clock, deleted |-> content = Gone]
         IN  /\ meta.rowHlc = clock
             /\ content = Gone =>
                  LiveClock(meta) = NoClock /\ DeleteClock(meta) = clock
             /\ content # Gone =>
                  LiveClock(meta) = clock /\ DeleteClock(meta) = NoClock
<1>1. CASE content = Gone
  BY <1>1, Zenon DEF LiveClock, DeleteClock
<1>2. CASE content # Gone
  BY <1>2, Zenon DEF LiveClock, DeleteClock
<1> QED
  BY <1>1, <1>2

\* A new database is sound.
LEMMA EmptySound == Sound(EmptyDatabase)
<1>1. \A e \in Entities : EmptyDatabase.meta[e] = NoMeta
  BY DEF EmptyDatabase
<1>2. LiveClock(NoMeta) = NoClock
  BY DEF LiveClock, NoMeta
<1>3. ~Earlier(InitialHlcState, NoClock)
  BY DEF Earlier, InitialHlcState, NoClock
<1>4. EmptyDatabase.clock = InitialHlcState /\ EmptyDatabase.seen = {}
  BY DEF EmptyDatabase
<1>5. ClockCovers(EmptyDatabase)
  BY <1>1, <1>3, <1>4 DEF ClockCovers, NoMeta
<1>6. MarksCover(EmptyDatabase)
  BY <1>1, <1>2 DEF MarksCover, Describes, EmptyDatabase
<1> QED
  BY <1>4, <1>5, <1>6 DEF Sound, ClocksUnique

\* A save marks what it changes, with the content the user saved.
LEMMA EditedSound ==
  ASSUME NEW s \in Database, Sound(s),
         NEW S \in SUBSET Entities, NEW saved \in [S -> Contents]
  PROVE  Sound(Edited(s, saved))
<1> DEFINE t == Edited(s, saved)
<1>0. EditedTo(s, S, saved, t)
  BY EditedParts
<1> HIDE DEF t
<1>1. /\ t.clock = s.clock /\ t.meta = s.meta
      /\ t.snapshot = s.snapshot /\ t.seen = s.seen
  BY <1>0 DEF EditedTo
<1>2. ASSUME NEW e \in Entities
      PROVE  IF e \in t.dirty THEN t.row[e] = t.typed[e] ELSE Describes(t, e)
  <2>1. /\ e \in S => t.row[e] = saved[e] /\ t.typed[e] = saved[e]
        /\ e \notin S => t.row[e] = s.row[e] /\ t.typed[e] = s.typed[e]
        /\ e \in t.dirty <=>
             e \in s.dirty \/ (e \in S /\ {saved[e], s.row[e]} # {Gone})
    BY <1>0 DEF EditedTo
  <2>2. IF e \in s.dirty THEN s.row[e] = s.typed[e] ELSE Describes(s, e)
    BY DEF Sound, MarksCover
  <2>3. CASE e \in S
    <3>1. CASE e \in t.dirty
      BY <2>1, <2>3, <3>1
    <3>2. CASE e \notin t.dirty
      <4>1. {saved[e], s.row[e]} = {Gone} /\ e \notin s.dirty
        BY <2>1, <2>3, <3>2
      <4>2. t.row[e] = s.row[e]
        BY <2>1, <2>3, <4>1
      <4> QED
        BY <1>1, <2>2, <3>2, <4>1, <4>2 DEF Describes
    <3> QED
      BY <3>1, <3>2
  <2>4. CASE e \notin S
    BY <1>1, <2>1, <2>2, <2>4 DEF Describes
  <2> QED
    BY <2>3, <2>4
<1>3. ClockCovers(t)
  BY <1>1 DEF Sound, ClockCovers
<1>4. MarksCover(t)
  BY <1>2 DEF MarksCover
<1>5. ClocksUnique(t)
  BY <1>1 DEF Sound, ClocksUnique
<1>6. Sound(t)
  BY <1>3, <1>4, <1>5 DEF Sound
<1> QED
  BY <1>6 DEF t

\* A stamp's clock is new to the device, and later than all it has merged.
LEMMA StampIsLater ==
  ASSUME NEW s \in Database, Sound(s), NEW d \in Devices, NEW e \in Entities,
         NEW time \in Nat, NEW u \in s.seen
  PROVE  /\ Earlier(u.clock, StampOf(s, d, e, time).clock)
         /\ Before(u.clock, StampOf(s, d, e, time).clock)
         /\ u.clock # StampOf(s, d, e, time).clock
<1> DEFINE v == StampOf(s, d, e, time)
<1>1. u \in Version /\ u.clock \in Clock
  BY DatabaseParts, VersionParts DEF Clock
<1>2. ~Earlier(s.clock, u.clock)
  BY DEF Sound, ClockCovers
<1>3. Earlier(s.clock, TickHlc(s.clock, time))
      /\ TickHlc(s.clock, time) \in HlcState
  BY TickIsLater, DatabaseParts
<1>4. /\ v.clock.physicalMs = TickHlc(s.clock, time).physicalMs
      /\ v.clock.counter = TickHlc(s.clock, time).counter
  BY StampOfType
<1>5. Earlier(u.clock, v.clock)
  BY <1>1, <1>2, <1>3, <1>4, ClockParts, DatabaseParts DEF Earlier, HlcState
<1>6. u.clock # v.clock
  BY <1>1, <1>5, ClockParts DEF Earlier
<1> QED
  BY <1>5, <1>6 DEF Before

\* Draining a mark keeps a database sound.
LEMMA StampedSound ==
  ASSUME NEW s \in Database, Sound(s), NEW d \in Devices, NEW e \in Entities,
         e \in s.dirty, NEW time \in Nat
  PROVE  Sound(Stamped(s, d, e, time))
<1> DEFINE t == Stamped(s, d, e, time)
           v == StampOf(s, d, e, time)
<1>1. /\ t \in Database
      /\ StampedTo(s, e, TickHlc(s.clock, time), v, t)
  BY StampedParts
<1>2. /\ v \in Version /\ v.entity = e /\ v.clock \in Clock
      /\ v.clock.physicalMs = TickHlc(s.clock, time).physicalMs
      /\ v.clock.counter = TickHlc(s.clock, time).counter
      /\ v.clock # NoClock
  BY StampOfType, VersionParts DEF Clock
<1>3. \A u \in s.seen : Before(u.clock, v.clock) /\ u.clock # v.clock
  BY StampIsLater
<1>4. /\ TickHlc(s.clock, time) \in HlcState
      /\ Earlier(s.clock, TickHlc(s.clock, time))
  BY TickIsLater, DatabaseParts
<1> HIDE DEF t, v
<1>5. /\ t.row = s.row /\ t.typed = s.typed
      /\ t.dirty = s.dirty \ {e}
      /\ t.snapshot = [s.snapshot EXCEPT ![e] = s.row[e]]
  BY <1>1 DEF StampedTo
<1>6. CASE ~Changed(s, e)
  <2>1. t.clock = s.clock /\ t.meta = s.meta /\ t.seen = s.seen
    BY <1>1, <1>6 DEF StampedTo
  <2>2. ClockCovers(t) /\ ClocksUnique(t)
    BY <2>1 DEF Sound, ClockCovers, ClocksUnique
  <2>3. ASSUME NEW f \in Entities
        PROVE  IF f \in t.dirty THEN t.row[f] = t.typed[f] ELSE Describes(t, f)
    <3>1. IF f \in s.dirty THEN s.row[f] = s.typed[f] ELSE Describes(s, f)
      BY DEF Sound, MarksCover
    <3>2. CASE f = e
      <4>1. t.snapshot[e] = t.row[e] /\ t.row[e] = s.row[e] /\ t.meta[e] = s.meta[e]
        BY <1>1, <1>5, <2>1, DatabaseParts
      <4>2. Describes(t, e)
        BY <1>6, <4>1 DEF Describes, Changed
      <4> QED
        BY <1>5, <3>2, <4>2
    <3>3. CASE f # e
      <4>1. t.snapshot[f] = s.snapshot[f] /\ (f \in t.dirty <=> f \in s.dirty)
        BY <1>5, <3>3, DatabaseParts
      <4> QED
        BY <1>5, <2>1, <3>1, <4>1 DEF Describes
    <3> QED
      BY <3>2, <3>3
  <2>4. MarksCover(t)
    BY <2>3 DEF MarksCover
  <2>5. Sound(t)
    BY <2>2, <2>4 DEF Sound
  <2> QED
    BY <2>5 DEF t
<1>7. CASE Changed(s, e)
  <2>1. /\ t.clock = TickHlc(s.clock, time)
        /\ t.meta = [s.meta EXCEPT ![e] =
                       [rowHlc |-> v.clock, deleted |-> s.row[e] = Gone]]
        /\ t.seen = s.seen \cup {v}
    BY <1>1, <1>7 DEF StampedTo
  <2>2. /\ v \in Version /\ v.entity = e /\ v.clock \in Clock
        /\ v.clock.physicalMs = t.clock.physicalMs
        /\ v.clock.counter = t.clock.counter
        /\ v.clock # NoClock
    BY <2>1, <1>2
  <2>3. \A u \in s.seen : Before(u.clock, v.clock) /\ u.clock # v.clock
    BY <1>3
  <2>4. t.clock \in HlcState /\ ~Earlier(t.clock, s.clock)
    BY <2>1, <1>4, DatabaseParts DEF Earlier, HlcState
  <2>5. ~Earlier(t.clock, v.clock)
    BY <2>2, <2>4, ClockParts DEF Earlier, HlcState
  <2>6. /\ t.meta[e] = [rowHlc |-> v.clock, deleted |-> s.row[e] = Gone]
        /\ \A f \in Entities : f # e => t.meta[f] = s.meta[f]
    BY <1>1, <2>1, DatabaseParts
  <2>7. ASSUME NEW f \in Entities
        PROVE  ~Earlier(t.clock, t.meta[f].rowHlc)
    <3>1. CASE f = e
      BY <2>5, <2>6, <3>1
    <3>2. CASE f # e
      <4>1. ~Earlier(s.clock, s.meta[f].rowHlc)
        BY DEF Sound, ClockCovers
      <4> QED
        BY <2>4, <2>6, <3>2, <4>1, ReachedStays, MetaParts, DatabaseParts
    <3> QED
      BY <3>1, <3>2
  <2>8. ASSUME NEW u \in t.seen
        PROVE  /\ ~Earlier(t.clock, u.clock)
               /\ AtMost(u.clock, t.meta[u.entity].rowHlc)
    <3>1. CASE u = v
      <4>1. AtMost(v.clock, v.clock)
        BY <2>2, ClockOrder DEF AtMost
      <4> QED
        BY <2>2, <2>5, <2>6, <3>1, <4>1
    <3>2. CASE u \in s.seen
      <4>1. /\ ~Earlier(s.clock, u.clock)
            /\ AtMost(u.clock, s.meta[u.entity].rowHlc)
        BY <3>2 DEF Sound, ClockCovers
      <4>2. u.clock \in Clock /\ u.entity \in Entities
        BY <3>2, DatabaseParts, VersionParts DEF Clock
      <4>3. ~Earlier(t.clock, u.clock)
        BY <2>4, <4>1, <4>2, ReachedStays, DatabaseParts
      <4>4. AtMost(u.clock, v.clock)
        BY <2>2, <2>3, <3>2, <4>2, ClockOrder DEF AtMost
      <4>5. CASE u.entity = e
        BY <2>6, <4>3, <4>4, <4>5
      <4>6. CASE u.entity # e
        BY <2>6, <4>1, <4>2, <4>3, <4>6
      <4> QED
        BY <4>5, <4>6
    <3> QED
      BY <2>1, <3>1, <3>2
  <2>9. ClockCovers(t)
    BY <2>7, <2>8 DEF ClockCovers
  <2>10. ClocksUnique(t)
    BY <2>1, <2>3 DEF Sound, ClocksUnique
  <2>11. ASSUME NEW f \in Entities
         PROVE  IF f \in t.dirty THEN t.row[f] = t.typed[f] ELSE Describes(t, f)
    <3>1. IF f \in s.dirty THEN s.row[f] = s.typed[f] ELSE Describes(s, f)
      BY DEF Sound, MarksCover
    <3>2. CASE f = e
      <4>1. t.snapshot[e] = s.row[e]
        BY <1>1, <1>5, DatabaseParts
      <4>2. t.row[e] = s.row[e]
        BY <1>5
      <4>3. CASE s.row[e] = Gone
        <5>1. LiveClock(t.meta[e]) = NoClock
          BY <2>6, <4>3, MetaClocks
        <5> QED
          BY <1>5, <3>2, <4>1, <4>2, <4>3, <5>1 DEF Describes
      <4>4. CASE s.row[e] # Gone
        <5>1. LiveClock(t.meta[e]) = v.clock
          BY <2>6, <4>4, MetaClocks
        <5> QED
          BY <1>5, <2>2, <3>2, <4>1, <4>2, <4>4, <5>1 DEF Describes
      <4> QED
        BY <4>3, <4>4
    <3>3. CASE f # e
      <4>1. t.snapshot[f] = s.snapshot[f] /\ (f \in t.dirty <=> f \in s.dirty)
        BY <1>5, <3>3, DatabaseParts
      <4> QED
        BY <1>5, <2>6, <3>1, <3>3, <4>1 DEF Describes
    <3> QED
      BY <3>2, <3>3
  <2>12. MarksCover(t)
    BY <2>11 DEF MarksCover
  <2>13. Sound(t)
    BY <2>9, <2>10, <2>12 DEF Sound
  <2> QED
    BY <2>13 DEF t
<1> QED
  BY <1>6, <1>7

\* Folding a clock in keeps a database sound.
LEMMA AbsorbedSound ==
  ASSUME NEW s \in Database, Sound(s), NEW remote \in Hlc, NEW time \in Nat
  PROVE  Sound(Absorbed(s, remote, time))
<1> DEFINE t == Absorbed(s, remote, time)
<1>1. t \in Database /\ AbsorbedTo(s, remote, t)
  BY AbsorbedParts
<1> HIDE DEF t
<1>2. /\ t.row = s.row /\ t.typed = s.typed /\ t.dirty = s.dirty
      /\ t.meta = s.meta /\ t.snapshot = s.snapshot /\ t.seen = s.seen
      /\ ~Earlier(t.clock, s.clock)
  BY <1>1 DEF AbsorbedTo
<1>3. ASSUME NEW c \in Clock, ~Earlier(s.clock, c)
      PROVE  ~Earlier(t.clock, c)
  BY <1>1, <1>2, <1>3, ReachedStays, DatabaseParts
<1>4. \A e \in Entities : s.meta[e].rowHlc \in Clock
  BY DatabaseParts, MetaParts
<1>5. \A v \in s.seen : v.clock \in Clock
  BY DatabaseParts, VersionParts DEF Clock
<1>6. ClockCovers(t)
  BY <1>2, <1>3, <1>4, <1>5 DEF Sound, ClockCovers
<1>7. MarksCover(t) /\ ClocksUnique(t)
  BY <1>2 DEF Sound, MarksCover, Describes, ClocksUnique
<1>8. Sound(t)
  BY <1>6, <1>7 DEF Sound
<1> QED
  BY <1>8 DEF t

\* mergeRowEntity keeps the later of two clocks, whatever the rows are.
LEMMA MergeKeepsLater ==
  ASSUME NEW s \in Database, NEW e \in Entities, Describes(s, e),
         NEW remote, remote.rowHlc \in Hlc
  PROVE  /\ RemoteWins(s, e, remote) =>
              AtMost(s.meta[e].rowHlc, remote.rowHlc)
         /\ ~RemoteWins(s, e, remote) =>
              AtMost(remote.rowHlc, s.meta[e].rowHlc)
<1> DEFINE mine   == s.meta[e].rowHlc
           theirs == remote.rowHlc
<1>1. mine \in Clock /\ theirs \in Clock
  BY DatabaseParts, MetaParts DEF Clock
<1>2. CASE s.row[e] = Gone
  <2>1. DeleteClock(s.meta[e]) = mine
    BY <1>2 DEF Describes, LiveClock, DeleteClock
  <2>2. CASE remote.content = Gone
    <3>1. RemoteWins(s, e, remote) <=> Before(mine, theirs)
      BY <1>2, <2>1, <2>2 DEF RemoteWins
    <3> QED
      BY <1>1, <3>1, ClockOrder DEF AtMost
  <2>3. CASE remote.content # Gone
    <3>1. RemoteWins(s, e, remote) <=> ~Before(theirs, mine)
      BY <1>2, <2>1, <2>3 DEF RemoteWins
    <3> QED
      BY <1>1, <3>1, ClockOrder DEF AtMost
  <2> QED
    BY <2>2, <2>3
<1>3. CASE s.row[e] # Gone
  <2>1. LiveClock(s.meta[e]) = mine
    BY <1>3 DEF Describes, LiveClock
  <2>2. CASE remote.content = Gone
    <3>1. RemoteWins(s, e, remote) <=> Before(mine, theirs)
      BY <1>3, <2>1, <2>2 DEF RemoteWins
    <3> QED
      BY <1>1, <3>1, ClockOrder DEF AtMost
  <2>3. CASE remote.content # Gone
    <3>1. RemoteWins(s, e, remote) =>
            Before(mine, theirs) \/ mine = theirs
      BY <1>3, <2>1, <2>3 DEF RemoteWins
    <3>2. Before(mine, theirs) => RemoteWins(s, e, remote)
      BY <1>3, <2>1, <2>3 DEF RemoteWins
    <3> QED
      BY <1>1, <3>1, <3>2, ClockOrder DEF AtMost
  <2> QED
    BY <2>2, <2>3
<1> QED
  BY <1>2, <1>3

\* After a merge the entity has the later of the two clocks.
LEMMA MergedClocks ==
  ASSUME NEW s \in Database, NEW e \in Entities, Describes(s, e),
         NEW c \in ChangeSetType, e \in Carried(c)
  PROVE  LET t == Merged(s, e, c)
         IN  /\ AtMost(s.meta[e].rowHlc, t.meta[e].rowHlc)
             /\ AtMost(c.entities[e].rowHlc, t.meta[e].rowHlc)
             /\ t.meta[e].rowHlc \in {s.meta[e].rowHlc, c.entities[e].rowHlc}
             /\ Describes(t, e)
<1> DEFINE t      == Merged(s, e, c)
           remote == c.entities[e]
<1>1. t \in Database /\ MergedTo(s, e, remote, c.seen, t)
  BY MergedParts
<1>2. remote.rowHlc \in Hlc /\ remote.rowHlc # NoClock
  BY ChangeSetParts DEF Carried, Clock
<1>3. s.meta[e].rowHlc \in Clock /\ remote.rowHlc \in Clock
  BY <1>2, DatabaseParts, MetaParts DEF Clock
<1>4. AtMost(s.meta[e].rowHlc, s.meta[e].rowHlc)
      /\ AtMost(remote.rowHlc, remote.rowHlc)
  BY <1>3, ClockOrder DEF AtMost
<1> HIDE DEF t, remote
<1>5. t.snapshot[e] = t.row[e]
  BY <1>1, DatabaseParts DEF MergedTo
<1>6. CASE RemoteWins(s, e, remote)
  <2>1. /\ t.row[e] = remote.content
        /\ t.meta[e] = [rowHlc  |-> remote.rowHlc,
                        deleted |-> remote.content = Gone]
    BY <1>1, <1>6, DatabaseParts DEF MergedTo
  <2>2. t.meta[e].rowHlc = remote.rowHlc
    BY <2>1
  <2>3. AtMost(s.meta[e].rowHlc, remote.rowHlc)
    BY <1>2, <1>6, MergeKeepsLater
  <2>4. Describes(t, e)
    BY <1>2, <1>5, <2>1, MetaClocks DEF Describes
  <2> QED
    BY <1>4, <2>2, <2>3, <2>4 DEF t, remote
<1>7. CASE ~RemoteWins(s, e, remote)
  <2>1. t.row = s.row /\ t.meta = s.meta
    BY <1>1, <1>7 DEF MergedTo
  <2>2. AtMost(remote.rowHlc, s.meta[e].rowHlc)
    BY <1>2, <1>7, MergeKeepsLater
  <2>3. Describes(t, e)
    BY <1>5, <2>1 DEF Describes
  <2> QED
    BY <1>4, <2>1, <2>2, <2>3 DEF t, remote
<1> QED
  BY <1>6, <1>7

\* Merging an entity keeps a database sound, if the device's clock has
\* reached the change set's and no clock of either names two versions.
LEMMA MergedSound ==
  ASSUME NEW s \in Database, Sound(s), s.dirty = {},
         NEW c \in ChangeSetType, Proper(c),
         ~Earlier(s.clock, c.hlcHigh),
         NEW e \in Entities, e \in Carried(c),
         \A u, v \in s.seen \cup c.seen : u.clock = v.clock => u = v
  PROVE  Sound(Merged(s, e, c))
<1> DEFINE t == Merged(s, e, c)
<1>1. Describes(s, e)
  BY DEF Sound, MarksCover
<1>2. t \in Database /\ MergedTo(s, e, c.entities[e], c.seen, t)
  BY MergedParts
<1>3. /\ AtMost(s.meta[e].rowHlc, t.meta[e].rowHlc)
      /\ AtMost(c.entities[e].rowHlc, t.meta[e].rowHlc)
      /\ t.meta[e].rowHlc \in {s.meta[e].rowHlc, c.entities[e].rowHlc}
      /\ Describes(t, e)
  BY <1>1, MergedClocks
<1> HIDE DEF t
<1>4. /\ t.clock = s.clock /\ t.typed = s.typed /\ t.dirty = {}
      /\ t.seen = s.seen \cup {v \in c.seen : v.entity = e}
      /\ \A f \in Entities : f # e => /\ t.meta[f] = s.meta[f]
                                      /\ t.row[f] = s.row[f]
                                      /\ t.snapshot[f] = s.snapshot[f]
  BY <1>2, DatabaseParts DEF MergedTo
<1>5. /\ \A f \in Entities : s.meta[f].rowHlc \in Clock
                             /\ t.meta[f].rowHlc \in Clock
      /\ c.entities[e].rowHlc \in Clock
      /\ c.hlcHigh \in Clock
  BY <1>2, DatabaseParts, MetaParts, ChangeSetParts
<1>6. ASSUME NEW k \in Clock, AtMost(k, c.entities[e].rowHlc)
      PROVE  ~Earlier(s.clock, k)
  <2>1. AtMost(c.entities[e].rowHlc, c.hlcHigh)
    BY DEF Proper
  <2>2. AtMost(k, c.hlcHigh)
    BY <1>5, <1>6, <2>1, ClockOrder
  <2>3. ~Earlier(c.hlcHigh, k)
    BY <2>2 DEF AtMost, Before
  <2>4. /\ c.hlcHigh.physicalMs \in Int /\ c.hlcHigh.counter \in Int
        /\ k.physicalMs \in Int /\ k.counter \in Int
    BY <1>5, ClockParts
  <2>5. s.clock.physicalMs \in Int /\ s.clock.counter \in Int
    BY DatabaseParts DEF HlcState
  <2> QED
    BY <2>3, <2>4, <2>5 DEF Earlier
<1>7. ASSUME NEW f \in Entities
      PROVE  ~Earlier(t.clock, t.meta[f].rowHlc)
  <2>1. ~Earlier(s.clock, s.meta[f].rowHlc)
    BY DEF Sound, ClockCovers
  <2>2. AtMost(c.entities[e].rowHlc, c.entities[e].rowHlc)
    BY <1>5, ClockOrder DEF AtMost
  <2>3. ~Earlier(s.clock, c.entities[e].rowHlc)
    BY <1>5, <1>6, <2>2
  <2> QED
    BY <1>3, <1>4, <2>1, <2>3
<1>8. ASSUME NEW u \in t.seen
      PROVE  /\ ~Earlier(t.clock, u.clock)
             /\ AtMost(u.clock, t.meta[u.entity].rowHlc)
  <2>1. CASE u \in s.seen
    <3>1. /\ ~Earlier(s.clock, u.clock)
          /\ AtMost(u.clock, s.meta[u.entity].rowHlc)
      BY <2>1 DEF Sound, ClockCovers
    <3>2. u.clock \in Clock /\ u.entity \in Entities
      BY <2>1, DatabaseParts, VersionParts DEF Clock
    <3>3. CASE u.entity = e
      <4>1. AtMost(u.clock, t.meta[e].rowHlc)
        BY <1>3, <1>5, <3>1, <3>2, <3>3, ClockOrder
      <4> QED
        BY <1>4, <3>1, <3>3, <4>1
    <3>4. CASE u.entity # e
      BY <1>4, <3>1, <3>2, <3>4
    <3> QED
      BY <3>3, <3>4
  <2>2. CASE u \in c.seen /\ u.entity = e
    <3>1. AtMost(u.clock, c.entities[e].rowHlc)
      BY <2>2 DEF Proper
    <3>2. u.clock \in Clock
      BY <2>2, ChangeSetParts, VersionParts DEF Clock
    <3>3. ~Earlier(s.clock, u.clock)
      BY <1>6, <3>1, <3>2
    <3>4. AtMost(u.clock, t.meta[e].rowHlc)
      BY <1>3, <1>5, <3>1, <3>2, ClockOrder
    <3> QED
      BY <1>4, <2>2, <3>3, <3>4
  <2> QED
    BY <1>4, <2>1, <2>2
<1>9. ClockCovers(t)
  BY <1>7, <1>8 DEF ClockCovers
<1>10. ClocksUnique(t)
  BY <1>4 DEF ClocksUnique
<1>11. ASSUME NEW f \in Entities
       PROVE  Describes(t, f)
  <2>1. CASE f = e
    BY <1>3, <2>1
  <2>2. CASE f # e
    <3>1. Describes(s, f)
      BY DEF Sound, MarksCover
    <3> QED
      BY <1>4, <2>2, <3>1 DEF Describes
  <2> QED
    BY <2>1, <2>2
<1>12. MarksCover(t)
  BY <1>4, <1>11 DEF MarksCover
<1>13. Sound(t)
  BY <1>9, <1>10, <1>12 DEF Sound
<1> QED
  BY <1>13 DEF t

\* The change set of a sound database is proper.
LEMMA PublishedProper ==
  ASSUME NEW s \in Database, Sound(s), NEW c \in ChangeSetType,
         PublishedFrom(s, c)
  PROVE  Proper(c) /\ c.seen \subseteq s.seen
<1>1. /\ c.hlcHigh \in Hlc
      /\ c.seen = {v \in s.seen : v.entity \in Publishable(s)}
      /\ Carried(c) = Publishable(s)
  BY DEF PublishedFrom
<1>2. ASSUME NEW e \in Entities
      PROVE  AtMost(c.entities[e].rowHlc, c.hlcHigh)
  <2>1. CASE e \in Carried(c)
    <3>1. /\ c.entities[e].rowHlc = s.meta[e].rowHlc
          /\ AtMost(s.meta[e].rowHlc, c.hlcHigh)
      BY <2>1 DEF PublishedFrom
    <3> QED
      BY <3>1
  <2>2. CASE e \notin Carried(c)
    <3>1. c.entities[e].rowHlc = NoClock
      BY <2>2 DEF Carried
    <3> QED
      BY <1>1, <3>1 DEF AtMost, Before, Earlier, Hlc, NoClock
  <2> QED
    BY <2>1, <2>2
<1>3. ASSUME NEW v \in c.seen
      PROVE  /\ v.entity \in Carried(c)
             /\ AtMost(v.clock, c.entities[v.entity].rowHlc)
  <2>1. v \in s.seen /\ v.entity \in Carried(c) /\ v.entity \in Entities
    BY <1>1, <1>3, DatabaseParts, VersionParts
  <2>2. AtMost(v.clock, s.meta[v.entity].rowHlc)
    BY <2>1 DEF Sound, ClockCovers
  <2>3. c.entities[v.entity].rowHlc = s.meta[v.entity].rowHlc
    BY <2>1 DEF PublishedFrom
  <2> QED
    BY <2>1, <2>2, <2>3
<1> QED
  BY <1>1, <1>2, <1>3 DEF Proper

----------------------------------------------------------------------------
(* The invariant is inductive                                              *)

\* Where a version may be: on its device, if nowhere else.
LEMMA KnownOnItsDevice ==
  ASSUME IInv, NEW v \in Known
  PROVE  v.clock.deviceId \in Devices /\ v \in work[v.clock.deviceId].seen
<1>1. /\ \A d \in Devices : db[d].seen \subseteq work[d].seen
      /\ KnownAtHome
  BY DEF IInv, SlotSound
<1>2. CASE \E c \in changeSets : v \in c.seen
  BY <1>1, <1>2 DEF KnownAtHome, AtHome
<1>3. CASE \E d \in Devices : v \in db[d].seen
  BY <1>1, <1>3 DEF KnownAtHome, AtHome
<1>4. CASE \E d \in Devices : v \in work[d].seen
  BY <1>1, <1>4 DEF KnownAtHome, AtHome
<1>5. CASE v \in UNION {s.seen : s \in Databases}
  <2>1. PICK s \in Databases : v \in s.seen
    BY <1>5
  <2>2. \E d \in Devices : s = db[d] \/ s = work[d]
    BY DEF Databases
  <2> QED
    BY <1>3, <1>4, <2>1, <2>2
<1>6. CASE v \in UNION {c.seen : c \in changeSets}
  BY <1>2, <1>6
<1> QED
  BY <1>5, <1>6 DEF Known

\* So two versions with one clock meet there.
LEMMA KnownUnique == IInv => ClocksNameOneVersion
<1> SUFFICES ASSUME IInv, NEW u \in Known, NEW v \in Known, u.clock = v.clock
             PROVE  u = v
  BY DEF ClocksNameOneVersion
<1> DEFINE d == u.clock.deviceId
<1>1. d \in Devices /\ u \in work[d].seen /\ v \in work[d].seen
  BY KnownOnItsDevice
<1>2. ClocksUnique(work[d])
  BY <1>1 DEF IInv, Sound
<1> QED
  BY <1>1, <1>2 DEF ClocksUnique

\* The initial state satisfies the invariant.
LEMMA InvInitially == Init => IInv
<1> SUFFICES ASSUME Init
             PROVE  IInv
  OBVIOUS
<1>1. TypeOK
  BY TypesInitially
<1>2. \A d \in Devices : db[d] = EmptyDatabase /\ work[d] = EmptyDatabase
  BY DEF Init
<1>3. EmptyDatabase.seen = {}
  BY DEF EmptyDatabase
<1>4. \A d \in Devices : SlotSound(d)
  BY <1>2 DEF SlotSound, Init
<1>5. KnownAtHome
  BY <1>2, <1>3 DEF KnownAtHome, Init
<1>6. changeSets = {}
  BY DEF Init
<1> QED
  BY <1>1, <1>2, <1>4, <1>5, <1>6, EmptySound DEF IInv

\* A step of one device, whose open transaction gets the database "new" and
\* perhaps commits it, preserves the invariant if "new" is sound.
LEMMA OneDeviceMoves ==
  ASSUME IInv, TypeOK', NEW d \in Devices, NEW new,
         work' = [work EXCEPT ![d] = new],
         db' \in {db, [db EXCEPT ![d] = new]},
         changeSets' = changeSets,
         Sound(new),
         db[d].seen \subseteq new.seen,
         \A v \in new.seen : v.clock.deviceId = d \/ AtHome(v),
         \A o \in Devices \ {d} : /\ step'[o] = step[o]
                                  /\ incoming'[o] = incoming[o]
                                  /\ todo'[o] = todo[o],
         SlotSound(d)'
  PROVE  IInv'
<1>1. /\ work'[d] = new
      /\ db'[d] \in {db[d], new}
      /\ \A o \in Devices \ {d} : work'[o] = work[o] /\ db'[o] = db[o]
  BY DEF IInv, TypeOK
<1>2. \A o \in Devices : db[o].seen \subseteq db'[o].seen
  BY <1>1
<1>3. ASSUME NEW v, AtHome(v)
      PROVE  AtHome(v)'
  BY <1>2, <1>3 DEF AtHome
<1>4. \A o \in Devices : Sound(db'[o]) /\ Sound(work'[o])
  BY <1>1 DEF IInv
<1>5. ASSUME NEW o \in Devices
      PROVE  SlotSound(o)'
  <2>1. CASE o = d
    BY <2>1
  <2>2. CASE o # d
    <3>1. SlotSound(o)
      BY DEF IInv
    <3> QED
      BY <1>1, <2>2, <3>1 DEF SlotSound
  <2> QED
    BY <2>1, <2>2
<1>6. KnownAtHome'
  <2>1. ASSUME NEW o \in Devices, NEW v \in db'[o].seen
        PROVE  AtHome(v)'
    <3>1. CASE v \in db[o].seen
      BY <1>3, <3>1 DEF IInv, KnownAtHome
    <3>2. CASE v \notin db[o].seen
      <4>1. o = d /\ db'[d] = new /\ v \in new.seen
        BY <1>1, <2>1, <3>2
      <4>2. CASE v.clock.deviceId = d
        BY <4>1, <4>2 DEF AtHome
      <4>3. CASE AtHome(v)
        BY <1>3, <4>3
      <4> QED
        BY <4>1, <4>2, <4>3
    <3> QED
      BY <3>1, <3>2
  <2>2. ASSUME NEW o \in Devices, NEW v \in work'[o].seen
        PROVE  v.clock.deviceId = o \/ AtHome(v)'
    <3>1. v.clock.deviceId = o \/ AtHome(v)
      BY <1>1, <2>2 DEF IInv, KnownAtHome
    <3> QED
      BY <1>3, <3>1
  <2>3. ASSUME NEW c \in changeSets', NEW v \in c.seen
        PROVE  AtHome(v)'
    <3>1. AtHome(v)
      BY <2>3 DEF IInv, KnownAtHome
    <3> QED
      BY <1>3, <3>1
  <2> QED
    BY <2>1, <2>2, <2>3 DEF KnownAtHome
<1>7. \A c \in changeSets' : Proper(c)
  BY DEF IInv
<1> QED
  BY <1>4, <1>5, <1>6, <1>7 DEF IInv

\* A save: the database it starts from with the rows edited.
LEMMA SavePreserves ==
  ASSUME IInv, TypeOK', NEW d \in Devices, Write(d) \/ WriteAlone(d)
  PROVE  IInv'
<1>1. TypeOK /\ db[d] \in Database /\ Sound(db[d])
  BY DEF IInv, TypeOK
<1>2. PICK first \in {"write", "flush"} : Saves(d, first)
  BY DEF Write, WriteAlone
<1>3. PICK S \in SUBSET Entities : \E saved \in [S -> Contents] :
        work' = [work EXCEPT ![d] = Edited(db[d], saved)]
  BY <1>1, <1>2, SavesAnEdit
<1>4. PICK saved \in [S -> Contents] :
        work' = [work EXCEPT ![d] = Edited(db[d], saved)]
  BY <1>3
<1> DEFINE new == Edited(db[d], saved)
<1>5. Sound(new)
  BY <1>1, EditedSound
<1>6. new.seen = db[d].seen
  BY <1>1, EditedParts DEF EditedTo
<1> HIDE DEF new
<1>7. work' = [work EXCEPT ![d] = new] /\ work'[d] = new
  BY <1>1, <1>4 DEF TypeOK, new
<1>8. db' \in {db, [db EXCEPT ![d] = new]}
  BY <1>7 DEF Write, WriteAlone
<1>9. db'[d].seen \subseteq work'[d].seen
  BY <1>1, <1>6, <1>7, <1>8 DEF TypeOK
<1>10. step' = [step EXCEPT ![d] = first]
       /\ UNCHANGED <<incoming, todo, changeSets>>
  BY <1>2 DEF Saves
<1>11. SlotSound(d)'
  BY <1>1, <1>9, <1>10 DEF SlotSound, TypeOK
<1>12. \A v \in new.seen : AtHome(v)
  BY <1>6 DEF IInv, KnownAtHome
<1> QED
  BY <1>1, <1>5, <1>6, <1>7, <1>8, <1>10, <1>11, <1>12, OneDeviceMoves
  DEF TypeOK

\* The versions that a stamp adds are the device's own.
LEMMA StampAdds ==
  ASSUME TypeOK, NEW d \in Devices, NEW e \in Entities, Stamp(d, e)
  PROVE  LET v == StampOf(work[d], d, e, now[d])
         IN  /\ work'[d] = Stamped(work[d], d, e, now[d])
             /\ work'[d].seen \in {work[d].seen, work[d].seen \cup {v}}
             /\ v.clock.deviceId = d
<1>1. work[d] \in Database /\ now[d] \in Nat
  BY DEF TypeOK
<1>2. work'[d] = Stamped(work[d], d, e, now[d])
  BY DEF TypeOK, Stamp
<1>3. StampedTo(work[d], e, TickHlc(work[d].clock, now[d]),
                StampOf(work[d], d, e, now[d]), work'[d])
  BY <1>1, <1>2, StampedParts
<1>4. StampOf(work[d], d, e, now[d]).clock.deviceId = d
  BY <1>1, StampOfType
<1> QED
  BY <1>2, <1>3, <1>4 DEF StampedTo

\* A drained mark.
LEMMA StampPreserves ==
  ASSUME IInv, TypeOK', NEW d \in Devices, NEW e \in Entities, Stamp(d, e)
  PROVE  IInv'
<1> DEFINE new == Stamped(work[d], d, e, now[d])
<1>1. /\ TypeOK /\ work[d] \in Database /\ now[d] \in Nat
      /\ Sound(work[d]) /\ SlotSound(d)
  BY DEF IInv, TypeOK
<1>2. Sound(new)
  BY <1>1, StampedSound DEF Stamp
<1>3. /\ work' = [work EXCEPT ![d] = new] /\ work'[d] = new
      /\ step[d] \in {"write", "flush", "drain"}
      /\ UNCHANGED <<db, step, incoming, todo, changeSets>>
  BY <1>1 DEF Stamp, TypeOK
<1>4. PICK v : /\ new.seen \in {work[d].seen, work[d].seen \cup {v}}
               /\ v.clock.deviceId = d
  BY <1>1, <1>3, StampAdds
<1> HIDE DEF new
<1>5. db[d].seen \subseteq new.seen
  BY <1>1, <1>4 DEF SlotSound
<1>6. \A u \in new.seen : u.clock.deviceId = d \/ AtHome(u)
  BY <1>4 DEF IInv, KnownAtHome
<1>7. SlotSound(d)'
  BY <1>1, <1>3, <1>5 DEF SlotSound
<1> QED
  BY <1>2, <1>3, <1>5, <1>6, <1>7, OneDeviceMoves

\* The end of a transaction, whatever it leaves.
LEMMA EndPreserves ==
  ASSUME IInv, TypeOK', NEW d \in Devices,
         Commit(d) \/ Rollback(d) \/ FlushFails(d)
  PROVE  IInv'
<1>1. TypeOK /\ Sound(db[d]) /\ Sound(work[d]) /\ SlotSound(d)
  BY DEF IInv
<1>2. PICK new \in {db[d], work[d]} : Ends(d, new) /\ db'[d] = new
                                      /\ db' \in {db, [db EXCEPT ![d] = new]}
                                      /\ changeSets' = changeSets
  BY <1>1 DEF Commit, Rollback, FlushFails, TypeOK
<1>3. /\ work' = [work EXCEPT ![d] = new] /\ work'[d] = new
      /\ step'[d] = "idle"
      /\ \A o \in Devices \ {d} : /\ step'[o] = step[o]
                                  /\ incoming'[o] = incoming[o]
                                  /\ todo'[o] = todo[o]
  BY <1>1, <1>2 DEF Ends, TypeOK
<1>4. db[d].seen \subseteq new.seen
  BY <1>1, <1>2 DEF SlotSound
<1>5. \A v \in new.seen : v.clock.deviceId = d \/ AtHome(v)
  BY <1>2 DEF IInv, KnownAtHome
<1>6. SlotSound(d)'
  BY <1>2, <1>3 DEF SlotSound
<1> QED
  BY <1>1, <1>2, <1>3, <1>4, <1>5, <1>6, OneDeviceMoves

\* A change set is published from the committed database.
LEMMA PublishAdds ==
  ASSUME TypeOK, NEW d \in Devices, Publish(d)
  PROVE  \E set \in ChangeSetType : /\ changeSets' = changeSets \cup {set}
                                    /\ PublishedFrom(db[d], set)
<1>1. PICK high \in HlcHigh(db[d], d) :
        changeSets' = changeSets \cup {ChangeSet(db[d], d, high)}
  BY DEF Publish
<1> QED
  BY <1>1, PublishedParts DEF TypeOK

\* A published change set.
LEMMA PublishPreserves ==
  ASSUME IInv, TypeOK', NEW d \in Devices, Publish(d)
  PROVE  IInv'
<1>1. TypeOK /\ db[d] \in Database /\ Sound(db[d])
  BY DEF IInv, TypeOK
<1>2. PICK set \in ChangeSetType : /\ changeSets' = changeSets \cup {set}
                                   /\ PublishedFrom(db[d], set)
  BY <1>1, PublishAdds
<1>3. Proper(set) /\ set.seen \subseteq db[d].seen
  BY <1>1, <1>2, PublishedProper
<1>4. UNCHANGED <<db, work, step, incoming, todo>>
  BY DEF Publish, transaction
<1>5. \A c \in changeSets' : Proper(c)
  BY <1>2, <1>3 DEF IInv
<1>6. \A o \in Devices : Sound(db'[o]) /\ Sound(work'[o])
  BY <1>4 DEF IInv
<1>7. \A o \in Devices : SlotSound(o)'
  BY <1>2, <1>4 DEF IInv, SlotSound
<1>8. \A v : AtHome(v) => AtHome(v)'
  BY <1>4 DEF AtHome
<1>9. KnownAtHome'
  BY <1>2, <1>3, <1>4, <1>8 DEF IInv, KnownAtHome
<1> QED
  BY <1>5, <1>6, <1>7, <1>9 DEF IInv

\* The begin of a merge.
LEMMA ApplyPreserves ==
  ASSUME IInv, TypeOK', NEW d \in Devices, NEW set \in changeSets, Apply(d, set)
  PROVE  IInv'
<1>1. TypeOK /\ Sound(work[d]) /\ SlotSound(d)
  BY DEF IInv
<1>2. /\ work' = [work EXCEPT ![d] = work[d]]
      /\ step' = [step EXCEPT ![d] = "drain"]
      /\ incoming' = [incoming EXCEPT ![d] = set]
      /\ UNCHANGED <<db, work, todo, changeSets>>
  BY <1>1 DEF Apply, TypeOK
<1>3. SlotSound(d)'
  BY <1>1, <1>2 DEF SlotSound, TypeOK
<1>4. \A o \in Devices \ {d} : /\ step'[o] = step[o]
                               /\ incoming'[o] = incoming[o]
                               /\ todo'[o] = todo[o]
  BY <1>1, <1>2 DEF TypeOK
<1>5. \A v \in work[d].seen : v.clock.deviceId = d \/ AtHome(v)
  BY DEF IInv, KnownAtHome
<1>6. db[d].seen \subseteq work[d].seen
  BY <1>1 DEF SlotSound
<1> QED
  BY <1>1, <1>2, <1>3, <1>4, <1>5, <1>6, OneDeviceMoves

\* The bundle's clock.
LEMMA AbsorbPreserves ==
  ASSUME IInv, TypeOK', NEW d \in Devices, Absorb(d)
  PROVE  IInv'
<1> DEFINE set == incoming[d]
           new == Absorbed(work[d], set.hlcHigh, now[d])
<1>1. /\ TypeOK /\ work[d] \in Database /\ now[d] \in Nat
      /\ Sound(work[d]) /\ SlotSound(d)
  BY DEF IInv, TypeOK
<1>2. step[d] = "drain" /\ set \in changeSets /\ work[d].dirty = {}
  BY <1>1 DEF Absorb, SlotSound, Drained
<1>3. Proper(set) /\ set.hlcHigh \in Hlc
  BY <1>2 DEF IInv, Proper
<1>4. Sound(new)
  BY <1>1, <1>3, AbsorbedSound
<1>5. AbsorbedTo(work[d], set.hlcHigh, new)
  BY <1>1, <1>3, AbsorbedParts
<1> HIDE DEF new
<1>6. new.seen = work[d].seen /\ new.dirty = {} /\ ~Earlier(new.clock, set.hlcHigh)
  BY <1>2, <1>5 DEF AbsorbedTo
<1>7. /\ work' = [work EXCEPT ![d] = new] /\ work'[d] = new
      /\ step' = [step EXCEPT ![d] = "merge"] /\ step'[d] = "merge"
      /\ todo' = [todo EXCEPT ![d] = Carried(set)] /\ todo'[d] = Carried(set)
      /\ UNCHANGED <<db, incoming, changeSets>>
  BY <1>1 DEF Absorb, TypeOK, new
<1>8. SlotSound(d)'
  BY <1>1, <1>2, <1>6, <1>7 DEF SlotSound
<1>9. \A o \in Devices \ {d} : /\ step'[o] = step[o]
                               /\ incoming'[o] = incoming[o]
                               /\ todo'[o] = todo[o]
  BY <1>1, <1>7 DEF TypeOK
<1>10. \A v \in new.seen : v.clock.deviceId = d \/ AtHome(v)
  BY <1>6 DEF IInv, KnownAtHome
<1>11. db[d].seen \subseteq new.seen
  BY <1>1, <1>6 DEF SlotSound
<1> QED
  BY <1>4, <1>7, <1>8, <1>9, <1>10, <1>11, OneDeviceMoves

\* Where a merge starts from.
LEMMA MergeStarts ==
  ASSUME IInv, NEW d \in Devices, NEW e \in Entities, Merge(d, e)
  PROVE  /\ TypeOK /\ work[d] \in Database /\ incoming[d] \in ChangeSetType
         /\ Sound(work[d]) /\ work[d].dirty = {}
         /\ incoming[d] \in changeSets /\ Proper(incoming[d])
         /\ ~Earlier(work[d].clock, incoming[d].hlcHigh)
         /\ e \in Carried(incoming[d])
         /\ work'[d] = Merged(work[d], e, incoming[d])
         /\ work'[d].seen =
              work[d].seen \cup {v \in incoming[d].seen : v.entity = e}
         /\ \A u, v \in work[d].seen \cup incoming[d].seen :
              u.clock = v.clock => u = v
<1>1. TypeOK /\ work[d] \in Database /\ incoming[d] \in ChangeSetType
  BY DEF IInv, TypeOK
<1>2. /\ Sound(work[d]) /\ work[d].dirty = {}
      /\ incoming[d] \in changeSets /\ Proper(incoming[d])
      /\ ~Earlier(work[d].clock, incoming[d].hlcHigh)
      /\ e \in Carried(incoming[d])
  BY DEF IInv, SlotSound, Merge
<1>3. work'[d] = Merged(work[d], e, incoming[d])
  BY <1>1 DEF Merge, TypeOK
<1>4. work'[d].seen = work[d].seen \cup {v \in incoming[d].seen : v.entity = e}
  <2>1. MergedTo(work[d], e, incoming[d].entities[e], incoming[d].seen, work'[d])
    BY <1>1, <1>3, MergedParts
  <2> QED
    BY <2>1 DEF MergedTo
<1>5. work[d].seen \cup incoming[d].seen \subseteq Known
  BY <1>2 DEF Known, Databases
<1> QED
  BY <1>1, <1>2, <1>3, <1>4, <1>5, KnownUnique DEF ClocksNameOneVersion

\* A merged entity.
LEMMA MergePreserves ==
  ASSUME IInv, TypeOK', NEW d \in Devices, NEW e \in Entities, Merge(d, e)
  PROVE  IInv'
<1> DEFINE set == incoming[d]
           new == Merged(work[d], e, set)
<1>1. /\ TypeOK /\ work[d] \in Database /\ set \in ChangeSetType
      /\ Sound(work[d]) /\ work[d].dirty = {}
      /\ set \in changeSets /\ Proper(set)
      /\ ~Earlier(work[d].clock, set.hlcHigh)
      /\ e \in Carried(set)
      /\ work'[d] = new
      /\ new.seen = work[d].seen \cup {v \in set.seen : v.entity = e}
      /\ \A u, v \in work[d].seen \cup set.seen : u.clock = v.clock => u = v
  BY MergeStarts
<1>2. Sound(new)
  BY <1>1, MergedSound
<1>3. MergedTo(work[d], e, set.entities[e], set.seen, new)
  BY <1>1, MergedParts
<1> HIDE DEF new
<1>4. new.dirty = {} /\ new.clock = work[d].clock
  BY <1>1, <1>3 DEF MergedTo
<1>5. /\ work' = [work EXCEPT ![d] = new]
      /\ todo' = [todo EXCEPT ![d] = @ \ {e}]
      /\ UNCHANGED <<db, step, incoming, changeSets>>
  BY DEF Merge, new
<1>6. SlotSound(d)
  BY DEF IInv
<1>7. db[d].seen \subseteq new.seen
  BY <1>1, <1>6 DEF SlotSound
<1>8. todo'[d] \subseteq todo[d]
  BY <1>1, <1>5 DEF TypeOK
<1>9. SlotSound(d)'
  BY <1>1, <1>4, <1>5, <1>6, <1>7, <1>8 DEF SlotSound, Merge
<1>10. \A o \in Devices \ {d} : todo'[o] = todo[o]
  BY <1>1, <1>5 DEF TypeOK
<1>11. \A v \in new.seen : v.clock.deviceId = d \/ AtHome(v)
  BY <1>1 DEF IInv, KnownAtHome
<1> QED
  BY <1>2, <1>5, <1>7, <1>9, <1>10, <1>11, OneDeviceMoves

\* Every action preserves the invariant.
LEMMA InvPreserved == IInv /\ [Next]_vars => IInv'
<1> SUFFICES ASSUME IInv, [Next]_vars
             PROVE  IInv'
  OBVIOUS
<1>1. TypeOK'
  BY TypesPreserved DEF IInv
<1>2. CASE UNCHANGED vars
  BY <1>2 DEF vars, transaction, IInv, TypeOK, SlotSound, KnownAtHome, AtHome
<1>3. CASE Next
  BY <1>1, <1>3, SavePreserves, StampPreserves, EndPreserves, PublishPreserves,
     ApplyPreserves, AbsorbPreserves, MergePreserves
  DEF Next, StampedNext
<1> QED
  BY <1>2, <1>3

\* The invariant, for any devices, rows, wall clocks, saves and faults.
THEOREM RowsInvariant == Spec => []IInv
<1> QED
  BY InvInitially, InvPreserved, PTL DEF Spec

----------------------------------------------------------------------------
(* With failed flushes                                                     *)

\* The invariant covers the marks.
LEMMA PendingFromInv == IInv => PendingIsLocal
BY DEF IInv, TypeOK, Database, Sound, MarksCover, PendingIsLocal, Databases

\* A marked row is stamped with what its device's user saved, never with a
\* content that a merge brought, failed flushes included.
THEOREM StampsAreLocal == Spec => []PendingIsLocal
<1> QED
  BY RowsInvariant, PendingFromInv, PTL

\* No two stamps anywhere share a clock, over all devices, rollbacks, failed
\* flushes, wall clocks that go back and counters that overflow.
THEOREM UniqueClocks == Spec => []ClocksNameOneVersion
<1> QED
  BY RowsInvariant, KnownUnique, PTL

\* Everything a device stamps comes after everything it has merged.
THEOREM StampsFollow == Spec => StampsFollowWhatWasSeen
<1> DEFINE Follows == \A d \in Devices : \A v \in work'[d].seen \ work[d].seen :
                        v.clock.deviceId = d =>
                          \A u \in work[d].seen : Before(u.clock, v.clock)
<1>1. ASSUME IInv, [Next]_vars
      PROVE  [Follows]_vars
  <2>1. SUFFICES ASSUME Next, NEW d \in Devices,
                        NEW v \in work'[d].seen \ work[d].seen,
                        v.clock.deviceId = d,
                        NEW u \in work[d].seen
                 PROVE  Before(u.clock, v.clock)
    BY <1>1
  <2>2. /\ TypeOK /\ work[d] \in Database /\ db[d] \in Database
        /\ now[d] \in Nat /\ Sound(work[d])
        /\ db[d].seen \subseteq work[d].seen
    BY <1>1 DEF IInv, TypeOK, SlotSound
  <2>3. ASSUME NEW o \in Devices, Write(o) \/ WriteAlone(o)
        PROVE  FALSE
    <3>1. PICK first \in {"write", "flush"} : Saves(o, first)
      BY <2>3 DEF Write, WriteAlone
    <3>2. PICK S \in SUBSET Entities : \E saved \in [S -> Contents] :
            work' = [work EXCEPT ![o] = Edited(db[o], saved)]
      BY <2>2, <3>1, SavesAnEdit
    <3>3. PICK saved \in [S -> Contents] :
            work' = [work EXCEPT ![o] = Edited(db[o], saved)]
      BY <3>2
    <3>4. db[o] \in Database
      BY <2>2 DEF TypeOK
    <3>5. EditedTo(db[o], S, saved, Edited(db[o], saved))
      BY <3>4, EditedParts
    <3>6. Edited(db[o], saved).seen = db[o].seen
      BY <3>5 DEF EditedTo
    <3> QED
      BY <2>1, <2>2, <3>3, <3>6 DEF TypeOK
  <2>4. ASSUME NEW o \in Devices, NEW e \in Entities, Stamp(o, e)
        PROVE  Before(u.clock, v.clock)
    <3>1. CASE o = d
      <4>1. work'[d].seen \in {work[d].seen,
                               work[d].seen \cup {StampOf(work[d], d, e, now[d])}}
        BY <2>2, <2>4, <3>1, StampAdds
      <4>2. v = StampOf(work[d], d, e, now[d])
        BY <2>1, <4>1
      <4> QED
        BY <2>2, <4>2, StampIsLater
    <3>2. CASE o # d
      BY <2>1, <2>2, <2>4, <3>2 DEF Stamp, TypeOK
    <3> QED
      BY <3>1, <3>2
  <2>5. ASSUME NEW o \in Devices, Commit(o) \/ Rollback(o) \/ FlushFails(o)
        PROVE  FALSE
    <3>1. PICK left \in {db[o], work[o]} : work' = [work EXCEPT ![o] = left]
      BY <2>5 DEF Commit, Rollback, FlushFails, Ends
    <3> QED
      BY <2>1, <2>2, <3>1 DEF TypeOK
  <2>6. ASSUME NEW o \in Devices, Publish(o)
        PROVE  FALSE
    BY <2>1, <2>6 DEF Publish, transaction
  <2>7. ASSUME NEW o \in Devices, NEW set \in changeSets, Apply(o, set)
        PROVE  FALSE
    BY <2>1, <2>7 DEF Apply
  <2>8. ASSUME NEW o \in Devices, Absorb(o)
        PROVE  FALSE
    <3>1. work[o] \in Database /\ now[o] \in Nat /\ SlotSound(o)
      BY <1>1 DEF IInv, TypeOK
    <3>2. incoming[o].hlcHigh \in Hlc
      BY <1>1, <2>8, <3>1 DEF IInv, Proper, SlotSound, Absorb
    <3>3. AbsorbedTo(work[o], incoming[o].hlcHigh,
                     Absorbed(work[o], incoming[o].hlcHigh, now[o]))
      BY <3>1, <3>2, AbsorbedParts
    <3>4. Absorbed(work[o], incoming[o].hlcHigh, now[o]).seen = work[o].seen
      BY <3>3 DEF AbsorbedTo
    <3> QED
      BY <2>1, <2>2, <2>8, <3>4 DEF Absorb, TypeOK
  <2>9. ASSUME NEW o \in Devices, NEW e \in Entities, Merge(o, e)
        PROVE  FALSE
    <3>1. o = d
      BY <2>1, <2>2, <2>9 DEF Merge, TypeOK
    <3>2. /\ incoming[d] \in changeSets
          /\ work'[d].seen =
               work[d].seen \cup {w \in incoming[d].seen : w.entity = e}
      BY <1>1, <2>9, <3>1, MergeStarts
    <3>3. v \in incoming[d].seen
      BY <2>1, <3>2
    <3>4. AtHome(v)
      BY <1>1, <3>2, <3>3 DEF IInv, KnownAtHome
    <3> QED
      BY <2>1, <2>2, <3>4 DEF AtHome
  <2> QED
    BY <2>1, <2>3, <2>4, <2>5, <2>6, <2>7, <2>8, <2>9 DEF Next, StampedNext
<1>2. IInv /\ [Next]_vars => [Follows]_vars
  BY <1>1
<1>3. Spec => []IInv
  BY RowsInvariant
<1>4. StampsFollowWhatWasSeen <=> [][Follows]_vars
  BY DEF StampsFollowWhatWasSeen
<1> QED
  BY <1>2, <1>3, <1>4, PTL DEF Spec

----------------------------------------------------------------------------
(* When no flush fails                                                     *)

\* The tombstone flag of a meta row just written.
LEMMA MetaRecord ==
  ASSUME NEW clock, NEW content
  PROVE  LET meta == [rowHlc |-> clock, deleted |-> content = Gone]
         IN  /\ meta.deleted <=> content = Gone
             /\ clock # NoClock => meta # NoMeta
<1>1. [rowHlc |-> clock, deleted |-> content = Gone].deleted <=> content = Gone
  BY Zenon
<1>2. clock # NoClock => [rowHlc |-> clock, deleted |-> content = Gone] # NoMeta
  BY Zenon DEF NoMeta
<1> QED
  BY <1>1, <1>2

\* Only a missing meta row is live without a clock.
LEMMA NoMetaIsUnstamped ==
  ASSUME NEW meta \in Meta
  PROVE  meta = NoMeta <=> ~meta.deleted /\ meta.rowHlc = NoClock
BY DEF Meta, NoMeta

\* A step that leaves the meta and the snapshot as they are.
LEMMA ShowsStays ==
  ASSUME NEW s, NEW t, ShowsAVersion(s),
         t.meta = s.meta, t.snapshot = s.snapshot, s.seen \subseteq t.seen
  PROVE  ShowsAVersion(t)
BY DEF ShowsAVersion

\* A step that replaces those of one entity.
LEMMA ShowsNew ==
  ASSUME NEW s, NEW t, NEW e \in Entities, ShowsAVersion(s),
         \A f \in Entities \ {e} : t.meta[f] = s.meta[f]
                                   /\ t.snapshot[f] = s.snapshot[f],
         s.seen \subseteq t.seen,
         t.meta[e] # NoMeta,
         t.meta[e].deleted <=> t.snapshot[e] = Gone,
         [entity  |-> e,
          clock   |-> t.meta[e].rowHlc,
          content |-> t.snapshot[e]] \in t.seen
  PROVE  ShowsAVersion(t)
<1> SUFFICES ASSUME NEW f \in Entities
             PROVE  /\ t.meta[f] = NoMeta => t.snapshot[f] = Gone
                    /\ t.meta[f] # NoMeta =>
                         /\ t.meta[f].deleted <=> t.snapshot[f] = Gone
                         /\ [entity  |-> f,
                             clock   |-> t.meta[f].rowHlc,
                             content |-> t.snapshot[f]] \in t.seen
  BY DEF ShowsAVersion
<1>1. CASE f = e
  BY <1>1
<1>2. CASE f # e
  <2>1. t.meta[f] = s.meta[f] /\ t.snapshot[f] = s.snapshot[f]
    BY <1>2
  <2>2. /\ s.meta[f] = NoMeta => s.snapshot[f] = Gone
        /\ s.meta[f] # NoMeta =>
             /\ s.meta[f].deleted <=> s.snapshot[f] = Gone
             /\ [entity  |-> f,
                 clock   |-> s.meta[f].rowHlc,
                 content |-> s.snapshot[f]] \in s.seen
    BY DEF ShowsAVersion
  <2> QED
    BY <2>1, <2>2
<1> QED
  BY <1>1, <1>2

\* A drained mark leaves the entity showing a version.
LEMMA StampShows ==
  ASSUME NEW s \in Database, ShowsAVersion(s), NEW d \in Devices,
         NEW e \in Entities, NEW time \in Nat
  PROVE  ShowsAVersion(Stamped(s, d, e, time))
<1> DEFINE t == Stamped(s, d, e, time)
           v == StampOf(s, d, e, time)
<1>1. t \in Database /\ StampedTo(s, e, TickHlc(s.clock, time), v, t)
  BY StampedParts
<1>2. v = [entity |-> e, clock |-> v.clock, content |-> s.row[e]]
      /\ v.clock # NoClock
  <2>1. v.clock # NoClock
    BY StampOfType
  <2>2. v = [entity |-> e, clock |-> v.clock, content |-> s.row[e]]
    BY DEF StampOf
  <2> QED
    BY <2>1, <2>2
<1> HIDE DEF t, v
<1>3. t.snapshot = [s.snapshot EXCEPT ![e] = s.row[e]]
  BY <1>1 DEF StampedTo
<1>4. CASE ~Changed(s, e)
  <2>1. t.meta = s.meta /\ t.seen = s.seen
    BY <1>1, <1>4 DEF StampedTo
  <2>2. s.snapshot[e] = s.row[e]
    <3>1. CASE s.row[e] # Gone
      BY <1>4, <3>1 DEF Changed
    <3>2. CASE s.row[e] = Gone
      <4>1. LiveClock(s.meta[e]) = NoClock
        BY <1>4, <3>2 DEF Changed
      <4>2. CASE s.meta[e] = NoMeta
        BY <3>2, <4>2 DEF ShowsAVersion
      <4>3. CASE s.meta[e] # NoMeta
        <5>1. s.meta[e].deleted
          BY <4>1, <4>3, NoMetaIsUnstamped, DatabaseParts DEF LiveClock
        <5> QED
          BY <3>2, <4>3, <5>1 DEF ShowsAVersion
      <4> QED
        BY <4>2, <4>3
    <3> QED
      BY <3>1, <3>2
  <2>3. t.snapshot = s.snapshot
    BY <1>3, <2>2, DatabaseParts
  <2>4. ShowsAVersion(t)
    BY <2>1, <2>3, ShowsStays
  <2> QED
    BY <2>4 DEF t
<1>5. CASE Changed(s, e)
  <2>1. /\ t.meta = [s.meta EXCEPT ![e] =
                       [rowHlc |-> v.clock, deleted |-> s.row[e] = Gone]]
        /\ t.seen = s.seen \cup {v}
    BY <1>1, <1>5 DEF StampedTo
  <2>2. /\ t.meta[e] = [rowHlc |-> v.clock, deleted |-> s.row[e] = Gone]
        /\ t.snapshot[e] = s.row[e]
        /\ \A f \in Entities \ {e} : t.meta[f] = s.meta[f]
                                     /\ t.snapshot[f] = s.snapshot[f]
    BY <1>3, <2>1, DatabaseParts
  <2>3. /\ t.meta[e] # NoMeta
        /\ t.meta[e].deleted <=> t.snapshot[e] = Gone
    BY <1>2, <2>2, MetaRecord
  <2>4. t.meta[e].rowHlc = v.clock
    BY <2>2
  <2>5. [entity  |-> e, clock |-> t.meta[e].rowHlc,
         content |-> t.snapshot[e]] \in t.seen
    BY <1>2, <2>1, <2>2, <2>4
  <2>6. ShowsAVersion(t)
    BY <2>1, <2>2, <2>3, <2>5, ShowsNew
  <2> QED
    BY <2>6 DEF t
<1> QED
  BY <1>4, <1>5

\* So does a merge of a change set that carries versions.
LEMMA MergeShows ==
  ASSUME NEW s \in Database, ShowsAVersion(s), NEW e \in Entities,
         Describes(s, e),
         NEW c \in ChangeSetType, CarriesVersions(c), e \in Carried(c)
  PROVE  ShowsAVersion(Merged(s, e, c))
<1> DEFINE t      == Merged(s, e, c)
           remote == c.entities[e]
<1>1. t \in Database /\ MergedTo(s, e, remote, c.seen, t)
  BY MergedParts
<1>2. /\ [entity |-> e, clock |-> remote.rowHlc, content |-> remote.content]
           \in c.seen
      /\ remote.rowHlc # NoClock
  BY DEF CarriesVersions, Carried
<1> HIDE DEF t, remote
<1>3. /\ t.snapshot = [s.snapshot EXCEPT ![e] = t.row[e]]
      /\ t.seen = s.seen \cup {v \in c.seen : v.entity = e}
  BY <1>1 DEF MergedTo
<1>4. CASE ~RemoteWins(s, e, remote)
  <2>1. t.row = s.row /\ t.meta = s.meta
    BY <1>1, <1>4 DEF MergedTo
  <2>2. s.snapshot[e] = s.row[e]
    BY DEF Describes
  <2>3. t.snapshot = s.snapshot
    BY <1>3, <2>1, <2>2, DatabaseParts
  <2>4. ShowsAVersion(t)
    BY <1>3, <2>1, <2>3, ShowsStays
  <2> QED
    BY <2>4 DEF t
<1>5. CASE RemoteWins(s, e, remote)
  <2>1. /\ t.row = [s.row EXCEPT ![e] = remote.content]
        /\ t.meta = [s.meta EXCEPT ![e] = [rowHlc  |-> remote.rowHlc,
                                           deleted |-> remote.content = Gone]]
    BY <1>1, <1>5 DEF MergedTo
  <2>2. /\ t.meta[e] = [rowHlc  |-> remote.rowHlc,
                        deleted |-> remote.content = Gone]
        /\ t.snapshot[e] = remote.content
        /\ \A f \in Entities \ {e} : t.meta[f] = s.meta[f]
                                     /\ t.snapshot[f] = s.snapshot[f]
    BY <1>3, <2>1, DatabaseParts
  <2>3. /\ t.meta[e] # NoMeta
        /\ t.meta[e].deleted <=> t.snapshot[e] = Gone
    BY <1>2, <2>2, MetaRecord
  <2>4. t.meta[e].rowHlc = remote.rowHlc
    BY <2>2
  <2>5. [entity  |-> e, clock |-> t.meta[e].rowHlc,
         content |-> t.snapshot[e]] \in t.seen
    BY <1>2, <1>3, <2>2, <2>4
  <2>6. ShowsAVersion(t)
    BY <1>3, <2>2, <2>3, <2>5, ShowsNew
  <2> QED
    BY <2>6 DEF t
<1> QED
  BY <1>4, <1>5

\* What an unmarked database publishes are versions.
LEMMA PublishCarries ==
  ASSUME NEW s \in Database, Sound(s), s.dirty = {}, ShowsAVersion(s),
         NEW c \in ChangeSetType, PublishedFrom(s, c)
  PROVE  CarriesVersions(c)
<1> SUFFICES ASSUME NEW e \in Carried(c)
             PROVE  [entity  |-> e,
                     clock   |-> c.entities[e].rowHlc,
                     content |-> c.entities[e].content] \in c.seen
  BY DEF CarriesVersions
<1>1. /\ e \in Entities
      /\ c.entities[e].rowHlc # NoClock
      /\ c.entities[e].rowHlc = s.meta[e].rowHlc
      /\ c.entities[e].content = IF s.meta[e].deleted THEN Gone ELSE s.row[e]
      /\ ~s.meta[e].deleted => s.row[e] # Gone
      /\ c.seen = {v \in s.seen : v.entity \in Carried(c)}
  BY DEF PublishedFrom, Carried
<1>2. s.meta[e] # NoMeta
  BY <1>1 DEF NoMeta
<1>3. /\ s.meta[e].deleted <=> s.snapshot[e] = Gone
      /\ [entity |-> e, clock |-> s.meta[e].rowHlc, content |-> s.snapshot[e]]
           \in s.seen
  BY <1>1, <1>2 DEF ShowsAVersion
<1>4. Describes(s, e)
  BY <1>1 DEF Sound, MarksCover
<1>5. c.entities[e].content = s.snapshot[e]
  BY <1>1, <1>3, <1>4 DEF Describes
<1> QED
  BY <1>1, <1>3, <1>5

\* The initial state shows nothing.
LEMMA StampedInitially == Init => StampedInv
<1> SUFFICES ASSUME Init
             PROVE  StampedInv
  OBVIOUS
<1>1. \A d \in Devices : db[d] = EmptyDatabase /\ work[d] = EmptyDatabase
  BY DEF Init
<1>2. ShowsAVersion(EmptyDatabase)
  BY DEF ShowsAVersion, EmptyDatabase
<1>3. EmptyDatabase.dirty = {}
  BY DEF EmptyDatabase
<1>4. changeSets = {}
  BY DEF Init
<1> QED
  BY <1>1, <1>2, <1>3, <1>4 DEF StampedInv

\* Like OneDeviceMoves, for what holds when no flush fails.
LEMMA OneDeviceShows ==
  ASSUME TypeOK, StampedInv, NEW d \in Devices, NEW new,
         work' = [work EXCEPT ![d] = new],
         db' \in {db, [db EXCEPT ![d] = new]},
         changeSets' = changeSets,
         ShowsAVersion(new),
         \A o \in Devices \ {d} : step'[o] = step[o],
         step'[d] # "flush" => db'[d].dirty = {}
  PROVE  StampedInv'
<1>1. /\ work'[d] = new
      /\ db'[d] \in {db[d], new}
      /\ \A o \in Devices \ {d} : work'[o] = work[o] /\ db'[o] = db[o]
  BY DEF TypeOK
<1>2. \A o \in Devices : /\ ShowsAVersion(db'[o])
                         /\ ShowsAVersion(work'[o])
                         /\ step'[o] # "flush" => db'[o].dirty = {}
  BY <1>1 DEF StampedInv
<1>3. \A c \in changeSets' : CarriesVersions(c)
  BY DEF StampedInv
<1> QED
  BY <1>2, <1>3 DEF StampedInv

\* Every action but a failed flush preserves it.
LEMMA StampedPreserved ==
  IInv /\ StampedInv /\ [StampedNext]_vars => StampedInv'
<1> SUFFICES ASSUME IInv, StampedInv, [StampedNext]_vars
             PROVE  StampedInv'
  OBVIOUS
<1>1. TypeOK
  BY DEF IInv
<1>2. ASSUME NEW d \in Devices, Write(d) \/ WriteAlone(d)
      PROVE  StampedInv'
  <2>1. db[d] \in Database /\ ShowsAVersion(db[d])
    BY <1>1 DEF TypeOK, StampedInv
  <2>2. PICK first \in {"write", "flush"} : Saves(d, first)
    BY <1>2 DEF Write, WriteAlone
  <2>3. PICK S \in SUBSET Entities : \E saved \in [S -> Contents] :
          work' = [work EXCEPT ![d] = Edited(db[d], saved)]
    BY <1>1, <2>2, SavesAnEdit
  <2>4. PICK saved \in [S -> Contents] :
          work' = [work EXCEPT ![d] = Edited(db[d], saved)]
    BY <2>3
  <2> DEFINE new == Edited(db[d], saved)
  <2>5. EditedTo(db[d], S, saved, new)
    BY <2>1, EditedParts
  <2> HIDE DEF new
  <2>6. ShowsAVersion(new)
    <3>1. /\ new.meta = db[d].meta /\ new.snapshot = db[d].snapshot
          /\ new.seen = db[d].seen
      BY <2>5 DEF EditedTo
    <3> QED
      BY <2>1, <3>1, ShowsStays
  <2>7. work' = [work EXCEPT ![d] = new] /\ work'[d] = new
    BY <1>1, <2>4 DEF TypeOK, new
  <2>8. CASE Write(d)
    <3>1. step[d] = "idle" /\ db' = db
      BY <2>8 DEF Write, Saves
    <3>2. db'[d].dirty = {}
      BY <3>1 DEF StampedInv
    <3>3. changeSets' = changeSets
          /\ \A o \in Devices \ {d} : step'[o] = step[o]
      BY <1>1, <2>8 DEF Write, Saves, TypeOK
    <3> QED
      BY <1>1, <2>6, <2>7, <3>1, <3>2, <3>3, OneDeviceShows
  <2>9. CASE WriteAlone(d)
    <3>1. db' = [db EXCEPT ![d] = new] /\ step'[d] = "flush"
      BY <1>1, <2>7, <2>9 DEF WriteAlone, Saves, TypeOK
    <3>2. changeSets' = changeSets
          /\ \A o \in Devices \ {d} : step'[o] = step[o]
      BY <1>1, <2>9 DEF WriteAlone, Saves, TypeOK
    <3> QED
      BY <1>1, <2>6, <2>7, <3>1, <3>2, OneDeviceShows
  <2> QED
    BY <1>2, <2>8, <2>9
<1>3. ASSUME NEW d \in Devices, NEW e \in Entities, Stamp(d, e)
      PROVE  StampedInv'
  <2> DEFINE new == Stamped(work[d], d, e, now[d])
  <2>1. work[d] \in Database /\ now[d] \in Nat /\ ShowsAVersion(work[d])
    BY <1>1 DEF TypeOK, StampedInv
  <2>2. ShowsAVersion(new)
    BY <2>1, StampShows
  <2>3. work' = [work EXCEPT ![d] = new] /\ UNCHANGED <<db, step, changeSets>>
    BY <1>3 DEF Stamp
  <2> HIDE DEF new
  <2>4. step'[d] # "flush" => db'[d].dirty = {}
    BY <2>3 DEF StampedInv
  <2> QED
    BY <1>1, <2>2, <2>3, <2>4, OneDeviceShows
<1>4. ASSUME NEW d \in Devices, Commit(d)
      PROVE  StampedInv'
  <2>1. work[d].dirty = {}
    BY <1>4 DEF Commit, Drained, IInv, SlotSound
  <2>2. /\ work' = [work EXCEPT ![d] = work[d]]
        /\ db' = [db EXCEPT ![d] = work[d]]
        /\ changeSets' = changeSets
        /\ \A o \in Devices \ {d} : step'[o] = step[o]
    BY <1>1, <1>4 DEF Commit, Ends, TypeOK
  <2>3. db'[d].dirty = {}
    BY <1>1, <2>1, <2>2 DEF TypeOK
  <2>4. ShowsAVersion(work[d])
    BY DEF StampedInv
  <2> QED
    BY <1>1, <2>2, <2>3, <2>4, OneDeviceShows
<1>5. ASSUME NEW d \in Devices, Rollback(d)
      PROVE  StampedInv'
  <2>1. /\ work' = [work EXCEPT ![d] = db[d]]
        /\ db' = db
        /\ changeSets' = changeSets
        /\ \A o \in Devices \ {d} : step'[o] = step[o]
        /\ step[d] # "flush"
    BY <1>1, <1>5 DEF Rollback, Ends, TypeOK
  <2>2. ShowsAVersion(db[d]) /\ db'[d].dirty = {}
    BY <2>1 DEF StampedInv
  <2> QED
    BY <1>1, <2>1, <2>2, OneDeviceShows
<1>6. ASSUME NEW d \in Devices, Publish(d)
      PROVE  StampedInv'
  <2>1. PICK set \in ChangeSetType : /\ changeSets' = changeSets \cup {set}
                                     /\ PublishedFrom(db[d], set)
    BY <1>1, <1>6, PublishAdds
  <2>2. step[d] = "idle" /\ UNCHANGED <<db, work, step>>
    BY <1>6 DEF Publish, transaction
  <2>3. /\ db[d] \in Database /\ Sound(db[d]) /\ ShowsAVersion(db[d])
        /\ db[d].dirty = {}
    BY <1>1, <2>2 DEF IInv, TypeOK, StampedInv
  <2>4. CarriesVersions(set)
    BY <2>1, <2>3, PublishCarries
  <2> QED
    BY <2>1, <2>2, <2>4 DEF StampedInv
<1>7. ASSUME NEW d \in Devices, NEW set \in changeSets, Apply(d, set)
      PROVE  StampedInv'
  <2>1. /\ work' = [work EXCEPT ![d] = work[d]]
        /\ UNCHANGED <<db, changeSets>>
        /\ \A o \in Devices \ {d} : step'[o] = step[o]
        /\ step[d] = "idle"
    BY <1>1, <1>7 DEF Apply, TypeOK
  <2>2. ShowsAVersion(work[d]) /\ db'[d].dirty = {}
    BY <2>1 DEF StampedInv
  <2> QED
    BY <1>1, <2>1, <2>2, OneDeviceShows
<1>8. ASSUME NEW d \in Devices, Absorb(d)
      PROVE  StampedInv'
  <2> DEFINE new == Absorbed(work[d], incoming[d].hlcHigh, now[d])
  <2>1. /\ work[d] \in Database /\ now[d] \in Nat /\ ShowsAVersion(work[d])
        /\ incoming[d] \in changeSets
    BY <1>1, <1>8 DEF IInv, TypeOK, StampedInv, SlotSound, Absorb
  <2>2. incoming[d].hlcHigh \in Hlc
    BY <2>1 DEF IInv, Proper
  <2>3. AbsorbedTo(work[d], incoming[d].hlcHigh, new)
    BY <2>1, <2>2, AbsorbedParts
  <2> HIDE DEF new
  <2>4. ShowsAVersion(new)
    <3>1. /\ new.meta = work[d].meta /\ new.snapshot = work[d].snapshot
          /\ new.seen = work[d].seen
      BY <2>3 DEF AbsorbedTo
    <3> QED
      BY <2>1, <3>1, ShowsStays
  <2>5. /\ work' = [work EXCEPT ![d] = new] /\ UNCHANGED <<db, changeSets>>
        /\ \A o \in Devices \ {d} : step'[o] = step[o]
        /\ step[d] = "drain"
    BY <1>1, <1>8 DEF Absorb, TypeOK, new
  <2>6. db'[d].dirty = {}
    BY <2>5 DEF StampedInv
  <2> QED
    BY <1>1, <2>4, <2>5, <2>6, OneDeviceShows
<1>9. ASSUME NEW d \in Devices, NEW e \in Entities, Merge(d, e)
      PROVE  StampedInv'
  <2> DEFINE new == Merged(work[d], e, incoming[d])
  <2>1. /\ work[d] \in Database /\ incoming[d] \in ChangeSetType
        /\ Sound(work[d]) /\ work[d].dirty = {}
        /\ incoming[d] \in changeSets
        /\ e \in Carried(incoming[d])
    BY <1>9, MergeStarts
  <2>2. Describes(work[d], e)
    BY <2>1 DEF Sound, MarksCover
  <2>3. ShowsAVersion(work[d]) /\ CarriesVersions(incoming[d])
    BY <2>1 DEF StampedInv
  <2>4. ShowsAVersion(new)
    BY <2>1, <2>2, <2>3, MergeShows
  <2>5. /\ work' = [work EXCEPT ![d] = new] /\ UNCHANGED <<db, step, changeSets>>
        /\ step[d] = "merge"
    BY <1>9 DEF Merge
  <2> HIDE DEF new
  <2>6. db'[d].dirty = {}
    BY <2>5 DEF StampedInv
  <2> QED
    BY <1>1, <2>4, <2>5, <2>6, OneDeviceShows
<1>10. CASE UNCHANGED vars
  BY <1>10 DEF vars, transaction, StampedInv
<1> QED
  BY <1>2, <1>3, <1>4, <1>5, <1>6, <1>7, <1>8, <1>9, <1>10 DEF StampedNext

\* Without failed flushes the system does nothing else.
LEMMA StampedIsSpec == StampedSpec => Spec
<1>1. [StampedNext]_vars => [Next]_vars
  BY DEF Next
<1> QED
  BY <1>1, PTL DEF StampedSpec, Spec

\* The invariant when no flush fails: what is published is what was stamped.
THEOREM StampedInvariant == StampedSpec => [](IInv /\ StampedInv)
<1> QED
  BY StampedInitially, StampedPreserved, StampedIsSpec, RowsInvariant, PTL
  DEF StampedSpec

\* The newest version is the one shown.
LEMMA NewestFromInv == IInv /\ StampedInv => ShowsNewestSeen
<1> SUFFICES ASSUME IInv, StampedInv, NEW s \in Databases, NEW e \in Entities
             PROVE  LET known == {v \in s.seen : v.entity = e}
                        newest == [entity  |-> e,
                                   clock   |-> s.meta[e].rowHlc,
                                   content |-> s.snapshot[e]]
                    IN  /\ \A v \in known : AtMost(v.clock, newest.clock)
                        /\ s.meta[e] = NoMeta => s.snapshot[e] = Gone
                        /\ s.meta[e] # NoMeta =>
                             /\ newest \in known
                             /\ s.meta[e].deleted <=> newest.content = Gone
                        /\ e \notin s.dirty => s.row[e] = s.snapshot[e]
  BY DEF ShowsNewestSeen
<1>1. Sound(s) /\ ShowsAVersion(s)
  BY DEF Databases, IInv, StampedInv
<1>2. \A v \in s.seen : AtMost(v.clock, s.meta[v.entity].rowHlc)
  BY <1>1 DEF Sound, ClockCovers
<1>3. e \notin s.dirty => s.row[e] = s.snapshot[e]
  BY <1>1 DEF Sound, MarksCover, Describes
<1>4. /\ s.meta[e] = NoMeta => s.snapshot[e] = Gone
      /\ s.meta[e] # NoMeta =>
           /\ s.meta[e].deleted <=> s.snapshot[e] = Gone
           /\ [entity  |-> e,
               clock   |-> s.meta[e].rowHlc,
               content |-> s.snapshot[e]] \in s.seen
  BY <1>1 DEF ShowsAVersion
<1> QED
  BY <1>2, <1>3, <1>4

\* While every write gets its stamp, a device shows the newest version of each
\* row that it has merged, whatever it was merged with and in which order.
THEOREM NewestShown == StampedSpec => []ShowsNewestSeen
<1> QED
  BY StampedInvariant, NewestFromInv, PTL

\* Two databases that have merged the same versions show the same rows.
AgreeOnVersions ==
  \A s, t \in Databases :
    s.seen = t.seen => \A e \in Entities \ (s.dirty \cup t.dirty) :
                         s.row[e] = t.row[e]

\* Whatever the order, the grouping and the repetition of the merges: devices
\* that have merged the same versions agree (mergeRowEntity, tombstones too).
THEOREM SameVersionsSameRows == StampedSpec => []AgreeOnVersions
<1>1. ASSUME IInv, StampedInv
      PROVE  AgreeOnVersions
  <2>1. SUFFICES ASSUME NEW s \in Databases, NEW t \in Databases,
                        s.seen = t.seen,
                        NEW e \in Entities \ (s.dirty \cup t.dirty)
                 PROVE  s.row[e] = t.row[e]
    BY DEF AgreeOnVersions
  <2>2. /\ Sound(s) /\ ShowsAVersion(s) /\ s \in Database
        /\ Sound(t) /\ ShowsAVersion(t) /\ t \in Database
    BY <1>1 DEF Databases, IInv, StampedInv, TypeOK
  <2>3. s.row[e] = s.snapshot[e] /\ t.row[e] = t.snapshot[e]
    BY <2>2 DEF Sound, MarksCover, Describes
  <2> DEFINE mine   == [entity  |-> e, clock |-> s.meta[e].rowHlc,
                        content |-> s.snapshot[e]]
             theirs == [entity  |-> e, clock |-> t.meta[e].rowHlc,
                        content |-> t.snapshot[e]]
  <2>4. /\ s.meta[e] = NoMeta => s.snapshot[e] = Gone
        /\ s.meta[e] # NoMeta => mine \in s.seen
        /\ t.meta[e] = NoMeta => t.snapshot[e] = Gone
        /\ t.meta[e] # NoMeta => theirs \in s.seen
    BY <2>1, <2>2 DEF ShowsAVersion
  <2>5. \A v \in s.seen : /\ AtMost(v.clock, s.meta[v.entity].rowHlc)
                          /\ AtMost(v.clock, t.meta[v.entity].rowHlc)
                          /\ v.clock \in Hlc
    BY <2>1, <2>2, DatabaseParts, VersionParts DEF Sound, ClockCovers
  <2>6. s.meta[e].rowHlc \in Clock /\ t.meta[e].rowHlc \in Clock
    BY <2>2, DatabaseParts, MetaParts
  <2>7. \A c \in Hlc : ~AtMost(c, NoMeta.rowHlc)
    BY DEF AtMost, Before, Earlier, Hlc, NoMeta, NoClock
  <2>8. CASE s.meta[e] = NoMeta /\ t.meta[e] = NoMeta
    BY <2>3, <2>4, <2>8
  <2>9. CASE s.meta[e] # NoMeta
    <3>1. t.meta[e] # NoMeta
      BY <2>4, <2>5, <2>7, <2>9
    <3>2. AtMost(t.meta[e].rowHlc, s.meta[e].rowHlc)
          /\ AtMost(s.meta[e].rowHlc, t.meta[e].rowHlc)
      BY <2>4, <2>5, <2>9, <3>1
    <3>3. mine.clock = theirs.clock
      BY <2>6, <3>2, ClockOrder DEF AtMost
    <3>4. mine = theirs
      BY <2>2, <2>4, <2>9, <3>1, <3>3 DEF Sound, ClocksUnique
    <3> QED
      BY <2>3, <3>4
  <2>10. CASE t.meta[e] # NoMeta
    <3>1. s.meta[e] # NoMeta
      BY <2>4, <2>5, <2>7, <2>10
    <3> QED
      BY <2>9, <3>1
  <2> QED
    BY <2>8, <2>9, <2>10
<1> QED
  BY <1>1, StampedInvariant, PTL

\* While every write gets its stamp, a merge replaces what the device's user
\* saved only by a version with a later clock.
THEOREM EditsYield == StampedSpec => EditsYieldToLaterOnly
<1> DEFINE Yields ==
      \A d \in Devices : \A e \in todo[d] \ todo'[d] :
        (/\ step'[d] = "merge"
         /\ work[d].row[e] = work[d].typed[e]
         /\ work'[d].row[e] # work[d].row[e])
        => Before(work[d].meta[e].rowHlc, work'[d].meta[e].rowHlc)
<1>1. ASSUME IInv, StampedInv, [StampedNext]_vars
      PROVE  [Yields]_vars
  <2>1. SUFFICES ASSUME StampedNext, NEW d \in Devices,
                        NEW e \in todo[d] \ todo'[d],
                        step'[d] = "merge",
                        work'[d].row[e] # work[d].row[e]
                 PROVE  Before(work[d].meta[e].rowHlc, work'[d].meta[e].rowHlc)
    BY <1>1
  <2>2. TypeOK /\ e \in Entities
    BY <1>1 DEF IInv, TypeOK
  <2>3. Merge(d, e)
    <3>1. ASSUME NEW o \in Devices, Write(o) \/ WriteAlone(o)
          PROVE  FALSE
      BY <2>1, <3>1 DEF Write, WriteAlone, Saves
    <3>2. ASSUME NEW o \in Devices, NEW f \in Entities, Stamp(o, f)
          PROVE  FALSE
      BY <2>1, <3>2 DEF Stamp
    <3>3. ASSUME NEW o \in Devices, Commit(o) \/ Rollback(o)
          PROVE  FALSE
      BY <2>1, <2>2, <3>3 DEF Commit, Rollback, Ends, TypeOK
    <3>4. ASSUME NEW o \in Devices, Publish(o)
          PROVE  FALSE
      BY <2>1, <3>4 DEF Publish, transaction
    <3>5. ASSUME NEW o \in Devices, NEW set \in changeSets, Apply(o, set)
          PROVE  FALSE
      BY <2>1, <3>5 DEF Apply
    <3>6. ASSUME NEW o \in Devices, Absorb(o)
          PROVE  FALSE
      <4>1. work[o] \in Database /\ now[o] \in Nat /\ SlotSound(o)
        BY <1>1 DEF IInv, TypeOK
      <4>2. incoming[o].hlcHigh \in Hlc
        BY <1>1, <3>6, <4>1 DEF IInv, Proper, SlotSound, Absorb
      <4>3. AbsorbedTo(work[o], incoming[o].hlcHigh,
                       Absorbed(work[o], incoming[o].hlcHigh, now[o]))
        BY <4>1, <4>2, AbsorbedParts
      <4>4. Absorbed(work[o], incoming[o].hlcHigh, now[o]).row = work[o].row
        BY <4>3 DEF AbsorbedTo
      <4> QED
        BY <2>1, <2>2, <3>6, <4>4 DEF Absorb, TypeOK
    <3>7. ASSUME NEW o \in Devices, NEW f \in Entities, Merge(o, f)
          PROVE  o = d /\ f = e
      BY <2>1, <2>2, <3>7 DEF Merge, TypeOK
    <3> QED
      BY <2>1, <3>1, <3>2, <3>3, <3>4, <3>5, <3>6, <3>7 DEF StampedNext
  <2> DEFINE s == work[d]
             c == incoming[d]
             t == Merged(s, e, c)
  <2>4. /\ s \in Database /\ c \in ChangeSetType
        /\ Sound(s) /\ s.dirty = {} /\ c \in changeSets
        /\ e \in Carried(c) /\ work'[d] = t
        /\ \A u, v \in s.seen \cup c.seen : u.clock = v.clock => u = v
    BY <1>1, <2>2, <2>3, MergeStarts
  <2>5. Describes(s, e)
    BY <2>2, <2>4 DEF Sound, MarksCover
  <2>6. ShowsAVersion(s) /\ CarriesVersions(c)
    BY <1>1, <2>4 DEF StampedInv
  <2>7. MergedTo(s, e, c.entities[e], c.seen, t)
    BY <2>2, <2>4, MergedParts
  <2>8. AtMost(s.meta[e].rowHlc, t.meta[e].rowHlc)
    BY <2>2, <2>4, <2>5, MergedClocks
  <2>9. t.row[e] # s.row[e]
    BY <2>1, <2>4
  <2>10. c.entities[e].rowHlc \in Clock /\ s.meta[e].rowHlc \in Clock
    BY <2>2, <2>4, ChangeSetParts, DatabaseParts, MetaParts
  <2>11. work'[d].meta[e].rowHlc = t.meta[e].rowHlc
    BY <2>4
  <2> HIDE DEF s, c, t
  <2>12. RemoteWins(s, e, c.entities[e])
    BY <2>7, <2>9 DEF MergedTo
  <2>13. /\ t.row[e] = c.entities[e].content
         /\ t.meta[e].rowHlc = c.entities[e].rowHlc
    BY <2>2, <2>4, <2>7, <2>12, DatabaseParts DEF MergedTo
  <2>14. s.meta[e].rowHlc # c.entities[e].rowHlc
    <3>1. SUFFICES ASSUME s.meta[e].rowHlc = c.entities[e].rowHlc
                   PROVE  FALSE
      OBVIOUS
    <3>2. c.entities[e].rowHlc # NoClock
          /\ [entity  |-> e, clock |-> c.entities[e].rowHlc,
              content |-> c.entities[e].content] \in c.seen
      BY <2>4, <2>6 DEF CarriesVersions, Carried
    <3>3. s.meta[e] # NoMeta
      BY <3>1, <3>2 DEF NoMeta
    <3>4. [entity |-> e, clock |-> s.meta[e].rowHlc, content |-> s.snapshot[e]]
            \in s.seen
      BY <2>2, <2>6, <3>3 DEF ShowsAVersion
    <3>5. s.snapshot[e] = c.entities[e].content
      BY <2>4, <3>1, <3>2, <3>4
    <3>6. s.row[e] = s.snapshot[e]
      BY <2>5 DEF Describes
    <3> QED
      BY <2>9, <2>13, <3>5, <3>6
  <2>15. Before(s.meta[e].rowHlc, c.entities[e].rowHlc)
    BY <2>8, <2>10, <2>13, <2>14, ClockOrder DEF AtMost
  <2> QED
    BY <2>11, <2>13, <2>15 DEF s
<1>2. IInv /\ StampedInv /\ [StampedNext]_vars => [Yields]_vars
  BY <1>1
<1>3. EditsYieldToLaterOnly <=> [][Yields]_vars
  BY DEF EditsYieldToLaterOnly
<1> QED
  BY <1>2, <1>3, StampedInvariant, PTL DEF StampedSpec
=============================================================================
