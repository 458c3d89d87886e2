-------------------------- MODULE PullEngineProofs --------------------------
(* What a pull promises, for any peers, domains, folders, pieces and       *)
(* bounds.                                                                 *)
EXTENDS PullEngine, TLAPS

----------------------------------------------------------------------------
(* The inductive invariant                                                 *)

\* What belongs to a stage of a run.
Staged ==
    /\ run.stage = "idle" => run = NoRun
    /\ run.stage = "list" => run.ready = {} /\ run.applied = {}
    /\ run.stage \in {"apply", "record"} => run.toRead = {}
    /\ run.stage = "record" => run.ready = {}
    /\ run.stage # "apply" \/ run.ready = {} => run.chunk = 0
    /\ \A s \in run.toRead \cup run.ready \cup run.applied : run.listed[s].gen > 0

\* What is skipped or believed done was merged: the pieces behind a resume index,
\* the pieces of this call, what is applied, and what a run did not have to read.
Skipped ==
    /\ \A s \in Slots, g \in Generations : 1 .. resume[s][g] \subseteq PiecesOf(s, g)
    /\ \A s \in run.ready :
          NextSlot(s, run.ready) => 1 .. run.chunk \subseteq PiecesOf(s, run.listed[s].gen)
    /\ \A s \in run.applied : Whole(s, run.listed[s].gen)
    /\ \A s \in Slots \ (run.toRead \cup run.ready \cup run.left) :
          run.listed[s].gen > 0 => Whole(s, run.listed[s].gen)

MergedInv == RecordedIsMerged /\ ContactIsMerged /\ Skipped

RecordedPair(s) ==
    [slot |-> s, schema |-> recorded[s].schema, local |-> recorded[s].local]

\* What a run may apply has its copy, or the first piece checks that none is needed.
Copied ==
    /\ backupNoted \/ backupTaken => cleanCopy
    /\ \A s \in Slots : recorded[s].gen > 0 => RecordedPair(s) \in PairsMerged
    /\ \A s \in run.applied : PairOf(s) \in PairsMerged
    /\ run.stage = "apply" /\ ~run.halted /\ ~run.guard =>
          /\ cleanCopy
          /\ \A s \in run.ready :
                run.listed[s].schema # localSchema => PairOf(s) \in copiedPairs

CopyInv == BackupBeforeMerge /\ Copied

IInv == TypeOK /\ Staged /\ MergedInv /\ CopyInv
----------------------------------------------------------------------------
(* Types and stages                                                        *)

\* The fields of a run and their types.
LEMMA RunFields ==
  ASSUME TypeOK
  PROVE  /\ run.stage \in Stages /\ run.budget \in Budgets
         /\ run.join \in BOOLEAN /\ run.empty \in BOOLEAN
         /\ run.peers \subseteq Peers /\ run.folders \subseteq Folders
         /\ run.listed \in [Slots -> Offers]
         /\ run.refused \in BOOLEAN /\ run.toRead \subseteq Slots /\ run.ready \subseteq Slots
         /\ run.chunk \in 0 .. Chunks - 1
         /\ run.applied \subseteq Slots /\ run.left \subseteq Slots /\ run.down \subseteq Folders
         /\ run.guard \in BOOLEAN /\ run.halted \in BOOLEAN /\ run.toRecord \subseteq Peers
BY DEF TypeOK, Runs

\* No run is a run.
LEMMA NoRunType == NoRun \in Runs
BY BoundsAssumption DEF NoRun, Runs, Stages, Budgets, Offers, Generations, Schemas

LEMMA FreshResumeType == FreshResume \in [Slots -> [Generations -> 0 .. Chunks - 1]]
BY BoundsAssumption DEF FreshResume

\* A run that begins has its types and its stage, and nothing to read or apply yet.
LEMMA BeginType ==
  ASSUME NEW peers \in SUBSET Peers, NEW budget \in Budgets,
         NEW join \in BOOLEAN, NEW empty \in BOOLEAN, Begin(peers, budget, join, empty)
  PROVE  run' \in Runs /\ Staged'
<1>1. NoRun \in Runs /\ "list" \in Stages /\ Folders \in SUBSET Folders
  BY NoRunType DEF Stages
<1>2. run' \in Runs
  BY <1>1 DEF Begin, Runs
<1>3. /\ run'.stage = "list" /\ run'.toRead = {} /\ run'.ready = {}
      /\ run'.applied = {} /\ run'.chunk = 0
  BY DEF Begin, NoRun
<1> QED
  BY <1>2, <1>3 DEF Staged

\* What leaves a slot keeps the run's types and stage.
LEMMA LeaveFits ==
  ASSUME TypeOK, Staged, NEW s \in Slots
  PROVE  /\ Leave(s) \in Runs
         /\ Leave(s).stage = run.stage /\ Leave(s).listed = run.listed
         /\ Leave(s).toRead = run.toRead \ {s} /\ Leave(s).ready = run.ready \ {s}
         /\ Leave(s).applied = run.applied /\ Leave(s).left = run.left \cup {s}
         /\ Leave(s).chunk = 0 /\ Leave(s).guard = run.guard /\ Leave(s).halted = run.halted
         /\ Leave(s).down = run.down
<1>1. 0 \in 0 .. Chunks - 1
  BY BoundsAssumption
<1> QED
  BY <1>1 DEF TypeOK, Runs, Leave

LEMMA SurroundingsTypes ==
  ASSUME TypeOK, Staged, Surroundings
  PROVE  TypeOK' /\ Staged'
<1>1. ASSUME NEW p \in Peers, NEW d \in Domains, NEW schema \in Schemas, Publish(p, d, schema)
      PROVE  TypeOK' /\ Staged'
  <2>1. <<p, d>> \in Slots /\ <<p, FolderOf[d]>> \in Peers \X Folders
    BY OrderAssumption DEF Slots
  <2>2. offered[<<p, d>>].gen < MaxGeneration
        /\ offered' = [offered EXCEPT ![<<p, d>>] = [gen |-> @.gen + 1, schema |-> schema]]
        /\ manifest' = [manifest EXCEPT ![<<p, FolderOf[d]>>] = schema]
    BY <1>1 DEF Publish
  <2>3. UNCHANGED <<database, resume, backupTaken, run, copies, faults>>
    BY <1>1 DEF Publish
  <2>4. [gen |-> offered[<<p, d>>].gen + 1, schema |-> schema] \in Offers
    BY <2>1, <2>2, BoundsAssumption DEF TypeOK, Offers, Generations
  <2>5. offered' \in [Slots -> Offers] /\ manifest' \in [Peers \X Folders -> Schemas]
    BY <2>1, <2>2, <2>4 DEF TypeOK
  <2> QED
    BY <2>3, <2>5 DEF TypeOK, Staged, database, copies
<1>2. CASE Edit \/ Switch
  BY <1>2 DEF TypeOK, Staged, Edit, Switch, folders, copies
<1>3. CASE Restart
  <2>1. localSchema' \in Schemas
    BY <1>3, BoundsAssumption DEF Restart, TypeOK, Schemas
  <2>2. faults' \in 0 .. MaxFaults
    BY <1>3, BoundsAssumption DEF Restart, Fault, TypeOK
  <2>3. run' \in Runs /\ resume' \in [Slots -> [Generations -> 0 .. Chunks - 1]]
    BY <1>3, NoRunType, FreshResumeType DEF Restart
  <2>4. Staged'
    BY <1>3 DEF Restart, Staged, NoRun
  <2> QED
    BY <1>3, <2>1, <2>2, <2>3, <2>4 DEF TypeOK, Restart, RunEnds, folders
<1> QED
  BY <1>1, <1>2, <1>3 DEF Surroundings

\* Starting a run, or its budget's end, keeps the types.
LEMMA StartTypes ==
  ASSUME TypeOK, Staged,
         \/ \E budget \in {"none", "left"} : StartPull(budget)
         \/ \E p \in Peers : StartJoin(p)
         \/ BudgetEnds
  PROVE  TypeOK' /\ Staged'
<1>1. ASSUME NEW budget \in {"none", "left"}, StartPull(budget) PROVE TypeOK' /\ Staged'
  <2>0. Begin(Peers, budget, FALSE, FALSE) /\ budget \in Budgets /\ Peers \in SUBSET Peers
    BY <1>1 DEF StartPull, Budgets
  <2>1. run' \in Runs /\ Staged'
    BY <2>0, BeginType
  <2> QED
    BY <1>1, <2>1 DEF TypeOK, StartPull, folders, database, copies
<1>2. ASSUME NEW p \in Peers, StartJoin(p) PROVE TypeOK' /\ Staged'
  <2>1. DatabaseEmpty \in BOOLEAN
    BY DEF DatabaseEmpty, TypeOK
  <2>2. run' \in Runs /\ Staged'
    <3>1. Begin({p}, "none", TRUE, DatabaseEmpty) /\ "none" \in Budgets /\ {p} \in SUBSET Peers
      BY <1>2 DEF StartJoin, Budgets
    <3> QED
      BY <2>1, <3>1, BeginType
  <2> QED
    BY <1>2, <2>2, FreshResumeType DEF TypeOK, StartJoin, folders, database, copies
<1>3. CASE BudgetEnds
  <2>1. run' = [run EXCEPT !.budget = "spent"] /\ run.stage # "idle"
    BY <1>3 DEF BudgetEnds, Staged, NoRun
  <2>2. run' \in Runs
    BY <2>1 DEF TypeOK, Runs, Budgets
  <2>3. Staged'
    BY <2>1 DEF TypeOK, Runs, Staged
  <2> QED
    BY <1>3, <2>2, <2>3 DEF TypeOK, BudgetEnds, folders, database, copies
<1> QED
  BY <1>1, <1>2, <1>3

\* A fault is one more.
LEMMA FaultType ==
  ASSUME TypeOK, Fault \/ UNCHANGED faults
  PROVE  faults' \in 0 .. MaxFaults
BY BoundsAssumption DEF TypeOK, Fault

LEMMA DiscoveryTypes ==
  ASSUME TypeOK, Staged, Discovery
  PROVE  TypeOK' /\ Staged'
<1>1. ASSUME NEW f \in Folders, ListFolder(f) PROVE TypeOK' /\ Staged'
  <2>1. Accepted(f) \subseteq Slots /\ \A s \in Accepted(f) : offered[s].gen > 0
    BY RunFields DEF Accepted, Carried, Slots
  <2> DEFINE listed == [s \in Slots |-> IF s \in Accepted(f) THEN offered[s] ELSE run.listed[s]]
             toRead == run.toRead \cup {s \in Accepted(f) : Changed(s)}
  <2>2. listed \in [Slots -> Offers] /\ toRead \subseteq Slots
    BY <2>1, RunFields DEF TypeOK
  <2>3. \A s \in toRead : listed[s].gen > 0
    BY <2>1, <2>2 DEF Staged
  <2>4. (Carried(f) # Accepted(f)) \in BOOLEAN
    OBVIOUS
  <2> DEFINE stage == IF run.folders = {f} THEN "read" ELSE "list"
             refused == run.refused \/ Carried(f) # Accepted(f)
  <2>5. run' = [run EXCEPT !.folders = @ \ {f}, !.stage = stage, !.listed = listed,
                           !.refused = refused, !.toRead = toRead]
    BY <1>1 DEF ListFolder
  <2>6. run.stage = "list" /\ stage \in {"list", "read"} /\ refused \in BOOLEAN
    BY <1>1, <2>4, RunFields DEF ListFolder
  <2> HIDE DEF listed, toRead, stage, refused
  <2>7. run' \in Runs
    BY <2>2, <2>5, <2>6 DEF TypeOK, Runs, Stages
  <2>8. Staged'
    BY <2>2, <2>3, <2>5, <2>6, RunFields DEF Staged, TypeOK, Runs
  <2> QED
    BY <1>1, <2>7, <2>8 DEF TypeOK, ListFolder, folders, database, copies
<1>2. ASSUME NEW f \in Folders, SkipFolder(f) PROVE TypeOK' /\ Staged'
  <2> DEFINE stage == IF run.folders = {f} THEN "read" ELSE "list"
  <2>1. run' = [run EXCEPT !.folders = @ \ {f}, !.down = @ \cup {f}, !.stage = stage]
    BY <1>2 DEF SkipFolder
  <2>2. run.stage = "list" /\ stage \in {"list", "read"}
    BY <1>2 DEF SkipFolder
  <2> HIDE DEF stage
  <2>3. run' \in Runs /\ Staged'
    BY <2>1, <2>2 DEF TypeOK, Runs, Staged, Stages
  <2>4. faults' \in 0 .. MaxFaults
    BY <1>2, FaultType DEF SkipFolder
  <2> QED
    BY <1>2, <2>3, <2>4 DEF TypeOK, SkipFolder, folders, database, copies
<1>3. ASSUME NEW s \in Slots, ReadBundle(s) PROVE TypeOK' /\ Staged'
  <2>1. run.stage = "read" /\ s \in run.toRead
    BY <1>3 DEF ReadBundle, Reading, NextSlot
  <2>2. run' = [run EXCEPT !.toRead = @ \ {s}, !.ready = @ \cup {s}]
    BY <1>3 DEF ReadBundle
  <2>3. run' \in Runs /\ Staged'
    BY <2>1, <2>2 DEF TypeOK, Runs, Staged
  <2> QED
    BY <1>3, <2>3 DEF TypeOK, ReadBundle, folders, database, copies
<1>4. ASSUME NEW s \in Slots, NotRead(s) \/ FolderLost(s) PROVE TypeOK' /\ Staged'
  <2>1. run.stage = "read" /\ faults' \in 0 .. MaxFaults
    BY <1>4, FaultType DEF NotRead, FolderLost, Reading
  <2>2. run' = Leave(s) \/ run' = [Leave(s) EXCEPT !.down = @ \cup {FolderOf[s[2]]}]
    BY <1>4 DEF NotRead, FolderLost
  <2>3. FolderOf[s[2]] \in Folders
    BY OrderAssumption DEF Slots
  <2>4. run' \in Runs /\ Staged'
    BY <2>1, <2>2, <2>3, LeaveFits DEF Runs, Staged
  <2> QED
    BY <1>4, <2>1, <2>4 DEF TypeOK, NotRead, FolderLost, folders, database, copies
<1> QED
  BY <1>1, <1>2, <1>3, <1>4 DEF Discovery

LEMMA SafeguardTypes ==
  ASSUME TypeOK, Staged, Safeguard
  PROVE  TypeOK' /\ Staged'
<1>1. BackupDue \in BOOLEAN /\ FirstMerge \in BOOLEAN
  BY DEF BackupDue, FirstMerge
<1>2. run.stage = "read" /\ run.toRead = {}
  BY DEF Safeguard, NothingRead, NoBackup, TakeBackup, BackupFails, AllRead
<1>3. CASE NothingRead
  <2>1. run' \in Runs /\ Staged'
    BY <1>2, <1>3 DEF NothingRead, TypeOK, Runs, Staged, Stages
  <2> QED
    BY <1>3, <2>1 DEF TypeOK, NothingRead, folders, database, copies
<1>4. CASE NoBackup
  <2>1. run' \in Runs /\ Staged'
    BY <1>1, <1>2, <1>4 DEF NoBackup, TypeOK, Runs, Staged, Stages
  <2> QED
    BY <1>4, <2>1 DEF TypeOK, NoBackup, folders, database, copies
<1>5. CASE TakeBackup
  <2>1. run' \in Runs /\ Staged'
    BY <1>2, <1>5 DEF TakeBackup, TypeOK, Runs, Staged, Stages
  <2>2. faults' \in 0 .. MaxFaults
    BY <1>5, FaultType DEF TakeBackup
  <2>3. backupTaken' \in BOOLEAN /\ backupNoted' \in BOOLEAN
    BY <1>1, <1>5 DEF TakeBackup, TypeOK
  <2>4. cleanCopy' \in BOOLEAN /\ copiedPairs' \subseteq Pairs
    BY <1>5 DEF TakeBackup, CopyMade, TypeOK
  <2> QED
    BY <1>5, <2>1, <2>2, <2>3, <2>4 DEF TypeOK, TakeBackup, folders
<1>6. CASE BackupFails
  <2>1. run' \in Runs /\ Staged'
    BY <1>2, <1>6 DEF BackupFails, TypeOK, Runs, Staged, Stages
  <2>2. faults' \in 0 .. MaxFaults
    BY <1>6, FaultType DEF BackupFails
  <2> QED
    BY <1>6, <2>1, <2>2 DEF TypeOK, BackupFails, folders, database, copies
<1> QED
  BY <1>3, <1>4, <1>5, <1>6 DEF Safeguard

\* Piece s of the bundle under way: its number, and what it adds.
LEMMA NextPiece ==
  ASSUME TypeOK, Staged, NEW s \in Slots, Applying(s)
  PROVE  /\ s \in run.ready /\ run.listed[s] \in Offers /\ run.listed[s].gen > 0
         /\ NextChunk(s) \in 1 .. Chunks /\ Piece(s, NextChunk(s)) \in Pieces
<1>1. s \in run.ready /\ run.listed[s] \in Offers /\ run.listed[s].gen > 0
  BY RunFields DEF Applying, NextSlot, Staged
<1>2. run.listed[s].gen \in Generations \ {0}
  BY <1>1 DEF Offers, Generations
<1>3. resume[s][run.listed[s].gen] \in 0 .. Chunks - 1
  BY <1>2 DEF TypeOK
<1>4. NextChunk(s) \in 1 .. Chunks
  BY <1>3, RunFields, BoundsAssumption DEF NextChunk
<1> QED
  BY <1>1, <1>2, <1>4 DEF Piece, Pieces, TypeOK, Offers

\* Forgetting the resume index of a bundle, or keeping one, keeps the type.
LEMMA ResumeTypes ==
  ASSUME TypeOK, NEW s \in Slots, NEW c \in 0 .. Chunks - 1,
         resume' = [resume EXCEPT ![s][run.listed[s].gen] = c]
  PROVE  /\ resume' \in [Slots -> [Generations -> 0 .. Chunks - 1]]
         /\ resume'[s][run.listed[s].gen] = c
         /\ \A t \in Slots, g \in Generations :
               t # s \/ g # run.listed[s].gen => resume'[t][g] = resume[t][g]
BY RunFields DEF TypeOK, Offers

LEMMA ApplyTypes ==
  ASSUME TypeOK, Staged, Apply
  PROVE  TypeOK' /\ Staged'
<1>0. 0 \in 0 .. Chunks - 1
  BY BoundsAssumption
<1>1. ASSUME NEW s \in Slots, ApplyChunk(s) PROVE TypeOK' /\ Staged'
  <2> DEFINE c == NextChunk(s)
  <2>1. Applying(s) /\ run.stage = "apply"
    BY <1>1 DEF ApplyChunk, Applying
  <2>2. c \in 1 .. Chunks /\ Piece(s, c) \in Pieces /\ s \in run.ready /\ run.listed[s].gen > 0
    BY <2>1, NextPiece
  <2>3. \/ /\ c = Chunks
           /\ run' = [run EXCEPT !.guard = FALSE, !.chunk = 0, !.ready = @ \ {s},
                                 !.applied = @ \cup {s}]
           /\ resume' = [resume EXCEPT ![s][run.listed[s].gen] = 0]
        \/ /\ c \in 0 .. Chunks - 1
           /\ run' = [run EXCEPT !.guard = FALSE, !.chunk = c]
           /\ resume' = resume
    BY <1>1, <2>2, BoundsAssumption DEF ApplyChunk, Forget
  <2>4. merged' \subseteq Pieces
    BY <1>1, <2>2 DEF ApplyChunk, TypeOK
  <2>5. cleanCopy' \in BOOLEAN /\ copiedPairs' \subseteq Pairs
    BY <1>1 DEF ApplyChunk, TypeOK, copies
  <2> HIDE DEF c
  <2>6. run' \in Runs
    <3>1. CASE run' = [run EXCEPT !.guard = FALSE, !.chunk = 0, !.ready = @ \ {s},
                                  !.applied = @ \cup {s}]
      BY <1>0, <3>1 DEF TypeOK, Runs
    <3>2. CASE c \in 0 .. Chunks - 1 /\ run' = [run EXCEPT !.guard = FALSE, !.chunk = c]
      BY <3>2 DEF TypeOK, Runs
    <3> QED
      BY <2>3, <3>1, <3>2
  <2>8. /\ run'.stage = "apply" /\ run'.toRead = run.toRead /\ run'.listed = run.listed
        /\ run'.ready \subseteq run.ready /\ run'.applied \subseteq run.applied \cup {s}
        /\ run'.ready = {} => run'.chunk = 0
    <3>1. CASE run' = [run EXCEPT !.guard = FALSE, !.chunk = 0, !.ready = @ \ {s},
                                  !.applied = @ \cup {s}]
      BY <2>1, <3>1 DEF TypeOK, Runs
    <3>2. CASE run' = [run EXCEPT !.guard = FALSE, !.chunk = c]
      BY <2>1, <2>2, <3>2 DEF TypeOK, Runs
    <3> QED
      BY <2>3, <3>1, <3>2
  <2>9. Staged'
    BY <2>1, <2>2, <2>8 DEF Staged
  <2>7. resume' \in [Slots -> [Generations -> 0 .. Chunks - 1]]
    BY <1>0, <2>3, ResumeTypes DEF TypeOK
  <2> QED
    BY <1>1, <2>4, <2>5, <2>6, <2>7, <2>9 DEF TypeOK, ApplyChunk, folders
<1>2. ASSUME NEW s \in Slots,
             StopBetweenChunks(s) \/ ChunkFails(s) \/ JoinRefused(s) \/ Halted(s)
      PROVE  TypeOK' /\ Staged'
  <2>1. run.stage = "apply"
    BY <1>2 DEF StopBetweenChunks, ChunkFails, JoinRefused, Halted, Applying
  <2>2. run' = Leave(s) \/ run' = [Leave(s) EXCEPT !.halted = TRUE]
    BY <1>2 DEF StopBetweenChunks, ChunkFails, JoinRefused, Halted
  <2>3. Leave(s) \in Runs /\ TRUE \in BOOLEAN
    BY LeaveFits
  <2>7. run' \in Runs
    BY <2>2, <2>3 DEF Runs
  <2>8. /\ run'.stage = "apply" /\ run'.toRead = run.toRead \ {s} /\ run'.listed = run.listed
        /\ run'.ready = run.ready \ {s} /\ run'.applied = run.applied /\ run'.chunk = 0
    BY <2>1, <2>2, LeaveFits DEF Runs
  <2>9. Staged'
    BY <2>1, <2>8 DEF Staged
  <2>4. \/ resume' = [resume EXCEPT ![s][run.listed[s].gen] = run.chunk]
        \/ resume' = [resume EXCEPT ![s][run.listed[s].gen] = 0]
        \/ resume' = resume
    BY <1>2 DEF StopBetweenChunks, ChunkFails, JoinRefused, Halted, Forget
  <2>5. resume' \in [Slots -> [Generations -> 0 .. Chunks - 1]]
    BY <1>0, <2>4, ResumeTypes, RunFields DEF TypeOK
  <2>6. faults' \in 0 .. MaxFaults
    BY <1>2, FaultType DEF StopBetweenChunks, ChunkFails, JoinRefused, Halted
  <2> QED
    BY <1>2, <2>5, <2>6, <2>7, <2>9 DEF TypeOK, StopBetweenChunks, ChunkFails, JoinRefused, Halted,
         folders, database, copies
<1>3. CASE AllApplied
  <2>1. run' = [run EXCEPT !.stage = "record", !.toRecord = Peers] /\ run.stage = "apply"
        /\ run.ready = {}
    BY <1>3 DEF AllApplied
  <2>2. run' \in Runs
    BY <2>1 DEF TypeOK, Runs, Stages
  <2>3. Staged'
    BY <2>1 DEF TypeOK, Runs, Staged
  <2> QED
    BY <1>3, <2>2, <2>3 DEF TypeOK, AllApplied, folders, database, copies
<1> QED
  BY <1>1, <1>2, <1>3 DEF Apply

LEMMA BookkeepingTypes ==
  ASSUME TypeOK, Staged, Bookkeeping
  PROVE  TypeOK' /\ Staged'
<1>1. ASSUME NEW p \in Peers, RecordPeer(p) \/ SkipPeer(p) PROVE TypeOK' /\ Staged'
  <2>1. run' = [run EXCEPT !.toRecord = @ \ {p}] /\ run.stage = "record"
    BY <1>1 DEF RecordPeer, SkipPeer, NextPeer
  <2>2. run' \in Runs
    BY <2>1 DEF TypeOK, Runs
  <2>3. Staged'
    BY <2>1 DEF TypeOK, Runs, Staged
  <2>4. recorded' \in [Slots -> [gen : Generations, schema : Schemas, local : Schemas]]
        /\ contact' \in [Slots -> Generations]
    <3>1. \A s \in Slots : run.listed[s].gen \in Generations /\ run.listed[s].schema \in Schemas
      BY RunFields DEF Offers
    <3>2. CASE RecordPeer(p)
      BY <3>1, <3>2 DEF RecordPeer, TypeOK
    <3>3. CASE SkipPeer(p)
      BY <3>3 DEF SkipPeer, TypeOK, database
    <3> QED
      BY <1>1, <3>2, <3>3
  <2>5. faults' \in 0 .. MaxFaults
    BY <1>1, FaultType DEF RecordPeer, SkipPeer
  <2> QED
    BY <1>1, <2>2, <2>3, <2>4, <2>5 DEF TypeOK, RecordPeer, SkipPeer, folders, database, copies
<1>2. CASE FinishRun
  <2>1. run' \in Runs /\ Staged'
    BY <1>2, NoRunType DEF FinishRun, Staged, NoRun
  <2>2. enabled' \in BOOLEAN
    BY <1>2, RunFields DEF FinishRun, TypeOK, JoinCompleted
  <2> QED
    BY <1>2, <2>1, <2>2 DEF TypeOK, FinishRun, RunEnds, folders
<1> QED
  BY <1>1, <1>2 DEF Bookkeeping

LEMMA TypesStep ==
  ASSUME TypeOK, Staged, [Next]_vars
  PROVE  TypeOK' /\ Staged'
<1>1. CASE UNCHANGED vars
  BY <1>1 DEF vars, folders, database, copies, TypeOK, Staged
<1>2. CASE Next
  BY <1>2, SurroundingsTypes, StartTypes, DiscoveryTypes, SafeguardTypes, ApplyTypes,
     BookkeepingTypes DEF Next, RunStep
<1> QED
  BY <1>1, <1>2

LEMMA InitTypes ==
  ASSUME Init
  PROVE  TypeOK /\ Staged
<1>1. TypeOK
  <2>1. run \in Runs /\ resume \in [Slots -> [Generations -> 0 .. Chunks - 1]]
    BY NoRunType, FreshResumeType DEF Init
  <2>2. offered \in [Slots -> Offers] /\ contact \in [Slots -> Generations]
    BY BoundsAssumption DEF Init, Offers, Generations, Schemas
  <2>3. recorded \in [Slots -> [gen : Generations, schema : Schemas, local : Schemas]]
    BY BoundsAssumption DEF Init, Generations, Schemas
  <2>4. manifest \in [Peers \X Folders -> Schemas]
    BY BoundsAssumption DEF Init, Schemas
  <2>5. faults \in 0 .. MaxFaults
    BY BoundsAssumption DEF Init
  <2> QED
    BY <2>1, <2>2, <2>3, <2>4, <2>5 DEF Init, TypeOK
<1>2. Staged
  BY DEF Init, Staged, NoRun
<1> QED
  BY <1>1, <1>2

----------------------------------------------------------------------------
(* What is recorded was merged                                             *)

\* Merging never takes a piece back.
LEMMA WholeStays ==
  ASSUME merged \subseteq merged'
  PROVE  \A s, g : PiecesOf(s, g) \subseteq PiecesOf(s, g)' /\ (Whole(s, g) => Whole(s, g)')
<1>1. \A s, g : PiecesOf(s, g) \subseteq PiecesOf(s, g)' /\ PiecesOf(s, g)' \subseteq 1 .. Chunks
  BY DEF PiecesOf
<1> QED
  BY <1>1 DEF Whole

\* The order of the slots is total.
LEMMA OneNext ==
  ASSUME NEW S \in SUBSET Slots, NEW s, NEW t, NextSlot(s, S), NextSlot(t, S)
  PROVE  s = t
<1>1. s \in S /\ t \in S /\ s \in Peers \X Domains /\ t \in Peers \X Domains
  BY DEF NextSlot, Slots
<1>2. s[1] \in Nat /\ s[2] \in Nat /\ t[1] \in Nat /\ t[2] \in Nat
  BY <1>1, OrderAssumption
<1>3. s[2] = t[2] /\ s[1] = t[1]
  BY <1>1, <1>2 DEF NextSlot
<1>4. s = <<s[1], s[2]>> /\ t = <<t[1], t[2]>>
  BY <1>1
<1> QED
  BY <1>3, <1>4

\* Nothing is skipped that was not before.
LEMMA SkippedSame ==
  ASSUME Skipped, merged \subseteq merged', resume' = resume,
         run'.ready = run.ready, run'.chunk = run.chunk, run'.listed = run.listed,
         run'.applied = run.applied, run'.toRead = run.toRead, run'.left = run.left
  PROVE  Skipped'
BY WholeStays DEF Skipped, NextSlot

\* A run that begins or ends has done nothing.
LEMMA SkippedFresh ==
  ASSUME TypeOK, Skipped, merged' = merged, resume' \in {resume, FreshResume},
         run'.ready = {}, run'.applied = {}, \A s \in Slots : run'.listed[s].gen = 0
  PROVE  Skipped'
<1>1. \A s \in Slots, g \in Generations : 1 .. resume'[s][g] \subseteq PiecesOf(s, g)'
  BY WholeStays DEF Skipped, FreshResume
<1> QED
  BY <1>1 DEF Skipped

\* A slot that is left for later is not skipped.
LEMMA SkippedLeft ==
  ASSUME TypeOK, Staged, Skipped, NEW s \in Slots, merged' = merged,
         \/ resume' = resume
         \/ resume' = [resume EXCEPT ![s][run.listed[s].gen] = 0]
         \/ Applying(s) /\ resume' = [resume EXCEPT ![s][run.listed[s].gen] = run.chunk],
         run'.listed = run.listed, run'.toRead = run.toRead \ {s},
         run'.ready = run.ready \ {s}, run'.applied = run.applied,
         run'.left = run.left \cup {s}, run'.chunk = 0
  PROVE  Skipped'
<1>0. 0 \in 0 .. Chunks - 1 /\ run.chunk \in 0 .. Chunks - 1
  BY BoundsAssumption, RunFields
<1>1. \A t \in Slots, g \in Generations : 1 .. resume'[t][g] \subseteq PiecesOf(t, g)'
  <2>1. CASE resume' = resume
    BY <2>1, WholeStays DEF Skipped
  <2>2. CASE resume' = [resume EXCEPT ![s][run.listed[s].gen] = 0]
    BY <1>0, <2>2, WholeStays, ResumeTypes DEF Skipped
  <2>3. CASE Applying(s) /\ resume' = [resume EXCEPT ![s][run.listed[s].gen] = run.chunk]
    <3>1. 1 .. run.chunk \subseteq PiecesOf(s, run.listed[s].gen)
      BY <2>3 DEF Applying, Skipped, NextSlot
    <3> QED
      BY <1>0, <2>3, <3>1, WholeStays, ResumeTypes DEF Skipped
  <2> QED
    BY <2>1, <2>2, <2>3
<1>2. \A t \in run'.ready : 1 .. run'.chunk = {}
  OBVIOUS
<1> QED
  BY <1>1, <1>2, WholeStays DEF Skipped

LEMMA SkippedInRun ==
  ASSUME TypeOK, Staged, MergedInv, Discovery \/ Safeguard \/ Apply
  PROVE  Skipped'
<1>0. Skipped /\ RecordedIsMerged
  BY DEF MergedInv
<1>1. ASSUME NEW f \in Folders, ListFolder(f) PROVE Skipped'
  <2> DEFINE listed == [s \in Slots |-> IF s \in Accepted(f) THEN offered[s] ELSE run.listed[s]]
             toRead == run.toRead \cup {s \in Accepted(f) : Changed(s)}
  <2>1. /\ run'.listed = listed /\ run'.toRead = toRead /\ run'.ready = run.ready
        /\ run'.applied = run.applied /\ run'.left = run.left
    BY <1>1 DEF ListFolder, TypeOK, Runs
  <2>2. run.ready = {} /\ run.applied = {}
    BY <1>1 DEF ListFolder, Staged
  <2>3. resume' = resume /\ merged' = merged
    BY <1>1 DEF ListFolder, database
  <2>4. ASSUME NEW s \in Slots \ (toRead \cup run.ready \cup run.left), listed[s].gen > 0
        PROVE  Whole(s, listed[s].gen)
    <3>1. CASE s \in Accepted(f)
      <4>1. recorded[s].gen = offered[s].gen /\ listed[s] = offered[s]
        BY <2>4, <3>1 DEF Changed
      <4> QED
        BY <1>0, <2>4, <4>1 DEF RecordedIsMerged
    <3>2. CASE s \notin Accepted(f)
      BY <1>0, <2>4, <3>2 DEF Skipped
    <3> QED
      BY <3>1, <3>2
  <2> HIDE DEF listed, toRead
  <2> QED
    BY <1>0, <2>1, <2>2, <2>3, <2>4, WholeStays DEF Skipped
<1>2. ASSUME NEW f \in Folders, SkipFolder(f) PROVE Skipped'
  <2>1. /\ run'.ready = run.ready /\ run'.chunk = run.chunk /\ run'.listed = run.listed
        /\ run'.applied = run.applied /\ run'.toRead = run.toRead /\ run'.left = run.left
    BY <1>2 DEF SkipFolder, TypeOK, Runs
  <2> QED
    BY <1>0, <1>2, <2>1, SkippedSame DEF SkipFolder, database
<1>3. ASSUME NEW s \in Slots, ReadBundle(s) PROVE Skipped'
  <2>1. /\ run'.ready = run.ready \cup {s} /\ run'.chunk = run.chunk
        /\ run'.listed = run.listed /\ run'.applied = run.applied
        /\ run'.toRead = run.toRead \ {s} /\ run'.left = run.left
    BY <1>3 DEF ReadBundle, TypeOK, Runs
  <2>2. run.chunk = 0 /\ resume' = resume /\ merged' = merged
    BY <1>3 DEF ReadBundle, Reading, Staged, database
  <2>3. (\A t \in run.ready : 1 .. run.chunk \subseteq PiecesOf(t, run.listed[t].gen))'
    BY <2>1, <2>2
  <2> QED
    BY <1>0, <2>1, <2>2, <2>3, WholeStays DEF Skipped
<1>4. ASSUME NEW s \in Slots,
             \/ NotRead(s) \/ FolderLost(s)
             \/ StopBetweenChunks(s) \/ ChunkFails(s) \/ JoinRefused(s) \/ Halted(s)
      PROVE  Skipped'
  <2>1. \/ run' = Leave(s) \/ run' = [Leave(s) EXCEPT !.down = @ \cup {FolderOf[s[2]]}]
        \/ run' = [Leave(s) EXCEPT !.halted = TRUE]
    BY <1>4 DEF NotRead, FolderLost, StopBetweenChunks, ChunkFails, JoinRefused, Halted
  <2>2. /\ run'.listed = run.listed /\ run'.toRead = run.toRead \ {s}
        /\ run'.ready = run.ready \ {s} /\ run'.applied = run.applied
        /\ run'.left = run.left \cup {s} /\ run'.chunk = 0
    BY <2>1, LeaveFits DEF Runs
  <2>3. /\ merged' = merged
        /\ \/ resume' = resume
           \/ resume' = [resume EXCEPT ![s][run.listed[s].gen] = 0]
           \/ Applying(s) /\ resume' = [resume EXCEPT ![s][run.listed[s].gen] = run.chunk]
    BY <1>4 DEF NotRead, FolderLost, StopBetweenChunks, ChunkFails, JoinRefused, Halted, Forget,
         database
  <2> QED
    BY <1>0, <2>2, <2>3, SkippedLeft
<1>5. CASE Safeguard \/ AllApplied
  <2>1. /\ run'.ready = run.ready /\ run'.chunk = run.chunk /\ run'.listed = run.listed
        /\ run'.applied = run.applied /\ run'.toRead = run.toRead /\ run'.left = run.left
    BY <1>5 DEF Safeguard, NothingRead, NoBackup, TakeBackup, BackupFails, AllApplied, TypeOK, Runs
  <2>2. merged' = merged /\ resume' = resume
    BY <1>5 DEF Safeguard, NothingRead, NoBackup, TakeBackup, BackupFails, AllApplied, database
  <2> QED
    BY <1>0, <2>1, <2>2, SkippedSame
<1>6. ASSUME NEW s \in Slots, ApplyChunk(s) PROVE Skipped'
  <2>0. PICK c, g : c = NextChunk(s) /\ g = run.listed[s].gen
    OBVIOUS
  <2>1. Applying(s) /\ NextSlot(s, run.ready)
    BY <1>6 DEF ApplyChunk, Applying
  <2>2. /\ c \in 1 .. Chunks /\ Piece(s, c) \in Pieces /\ s \in run.ready
        /\ g > 0 /\ g \in Generations
    BY <2>0, <2>1, NextPiece DEF Offers
  <2>3. merged' = merged \cup {Piece(s, c)}
    BY <1>6, <2>0 DEF ApplyChunk
  <2>4. 1 .. c - 1 \subseteq PiecesOf(s, g)
    <3>1. CASE run.chunk = 0
      BY <1>0, <2>0, <2>2, <3>1 DEF NextChunk, Skipped, TypeOK
    <3>2. CASE run.chunk # 0
      BY <1>0, <2>0, <2>1, <2>2, <3>2, RunFields DEF NextChunk, Skipped
    <3> QED
      BY <3>1, <3>2
  <2>5. c \in PiecesOf(s, g)'
    BY <2>0, <2>2, <2>3 DEF PiecesOf, Piece
  <2>6. 1 .. c \subseteq PiecesOf(s, g)'
    BY <2>2, <2>3, <2>4, <2>5, WholeStays
  <2>7. /\ run'.listed = run.listed /\ run'.toRead = run.toRead /\ run'.left = run.left
        /\ \/ /\ c = Chunks /\ run'.chunk = 0 /\ run'.ready = run.ready \ {s}
              /\ run'.applied = run.applied \cup {s}
           \/ run'.chunk = c /\ run'.ready = run.ready /\ run'.applied = run.applied
    BY <1>6, <2>0 DEF ApplyChunk, TypeOK, Runs
  <2>8. resume' = resume \/ resume' = [resume EXCEPT ![s][run.listed[s].gen] = 0]
    BY <1>6 DEF ApplyChunk, Forget
  <2>9. \A t \in Slots, h \in Generations : 1 .. resume'[t][h] \subseteq PiecesOf(t, h)'
    <3>1. 0 \in 0 .. Chunks - 1
      BY BoundsAssumption
    <3> QED
      BY <1>0, <2>3, <2>8, <3>1, WholeStays, ResumeTypes DEF Skipped
  <2>10. \A t \in run.ready : NextSlot(t, run.ready) => t = s
    BY <2>1, OneNext, RunFields
  <2>11. CASE run'.chunk = c /\ run'.ready = run.ready /\ run'.applied = run.applied
    <3>1. (\A t \in run.ready :
             NextSlot(t, run.ready) => 1 .. run.chunk \subseteq PiecesOf(t, run.listed[t].gen))'
      BY <2>0, <2>6, <2>7, <2>10, <2>11 DEF NextSlot
    <3> QED
      BY <1>0, <2>3, <2>7, <2>9, <2>11, <3>1, WholeStays DEF Skipped, NextSlot
  <2>12. CASE /\ c = Chunks /\ run'.chunk = 0 /\ run'.ready = run.ready \ {s}
              /\ run'.applied = run.applied \cup {s}
    <3>1. Whole(s, g)'
      BY <2>2, <2>6, <2>12 DEF Whole, PiecesOf
    <3>2. (\A t \in run.ready : 1 .. run.chunk \subseteq PiecesOf(t, run.listed[t].gen))'
      BY <2>12
    <3>3. (\A t \in run.applied : Whole(t, run.listed[t].gen))'
      BY <1>0, <2>0, <2>3, <2>7, <2>12, <3>1, WholeStays DEF Skipped
    <3>4. (\A t \in Slots \ (run.toRead \cup run.ready \cup run.left) :
             run.listed[t].gen > 0 => Whole(t, run.listed[t].gen))'
      BY <1>0, <2>0, <2>3, <2>7, <2>12, <3>1, WholeStays DEF Skipped
    <3> QED
      BY <2>9, <3>2, <3>3, <3>4 DEF Skipped
  <2> QED
    BY <2>7, <2>11, <2>12
<1> QED
  BY <1>1, <1>2, <1>3, <1>4, <1>5, <1>6 DEF Discovery, Apply

LEMMA MergedStep ==
  ASSUME TypeOK, Staged, MergedInv, [Next]_vars
  PROVE  MergedInv'
<1>0. RecordedIsMerged /\ ContactIsMerged /\ Skipped
  BY DEF MergedInv
<1>1. CASE UNCHANGED vars
  <2>1. merged' = merged /\ resume' = resume /\ run' = run /\ recorded' = recorded
        /\ contact' = contact
    BY <1>1 DEF vars, database
  <2> QED
    BY <1>0, <2>1, SkippedSame, WholeStays DEF MergedInv, RecordedIsMerged, ContactIsMerged
<1>2. CASE Discovery \/ Safeguard \/ Apply
  <2>1. recorded' = recorded /\ contact' = contact /\ merged \subseteq merged'
    BY <1>2 DEF Discovery, Safeguard, Apply, ListFolder, SkipFolder, ReadBundle, NotRead, FolderLost,
       NothingRead, NoBackup, TakeBackup, BackupFails, ApplyChunk, StopBetweenChunks, ChunkFails,
       JoinRefused, Halted, AllApplied, database
  <2> QED
    BY <1>0, <1>2, <2>1, SkippedInRun, WholeStays DEF MergedInv, RecordedIsMerged, ContactIsMerged
<1>3. CASE Surroundings
  <2>1. recorded' = recorded /\ contact' = contact /\ merged' = merged
    BY <1>3 DEF Surroundings, Publish, Edit, Switch, Restart, database
  <2>2. \/ resume' = resume /\ run' = run
        \/ resume' = FreshResume /\ run' = NoRun
    BY <1>3 DEF Surroundings, Publish, Edit, Switch, Restart
  <2>3. Skipped'
    BY <1>0, <2>1, <2>2, SkippedSame, SkippedFresh DEF NoRun
  <2> QED
    BY <1>0, <2>1, <2>3, WholeStays DEF MergedInv, RecordedIsMerged, ContactIsMerged
<1>4. ASSUME \/ \E budget \in {"none", "left"} : StartPull(budget)
             \/ \E p \in Peers : StartJoin(p)
      PROVE  MergedInv'
  <2>1. recorded' = recorded /\ contact' = contact /\ merged' = merged
        /\ resume' \in {resume, FreshResume}
    BY <1>4 DEF StartPull, StartJoin, database
  <2>2. run'.ready = {} /\ run'.applied = {} /\ \A s \in Slots : run'.listed[s].gen = 0
    <3>1. PICK peers, budget, join, empty : Begin(peers, budget, join, empty)
      BY <1>4 DEF StartPull, StartJoin
    <3>2. run'.ready = NoRun.ready /\ run'.applied = NoRun.applied /\ run'.listed = NoRun.listed
      BY <3>1, NoRunType DEF Begin, Runs
    <3> QED
      BY <3>2 DEF NoRun
  <2> QED
    BY <1>0, <2>1, <2>2, SkippedFresh, WholeStays DEF MergedInv, RecordedIsMerged, ContactIsMerged
<1>5. CASE BudgetEnds
  <2>1. recorded' = recorded /\ contact' = contact /\ merged' = merged /\ resume' = resume
    BY <1>5 DEF BudgetEnds, database
  <2>2. /\ run'.ready = run.ready /\ run'.chunk = run.chunk /\ run'.listed = run.listed
        /\ run'.applied = run.applied /\ run'.toRead = run.toRead /\ run'.left = run.left
    BY <1>5 DEF BudgetEnds, TypeOK, Runs
  <2> QED
    BY <1>0, <2>1, <2>2, SkippedSame, WholeStays DEF MergedInv, RecordedIsMerged, ContactIsMerged
<1>6. ASSUME NEW p \in Peers, RecordPeer(p) \/ SkipPeer(p) PROVE MergedInv'
  <2>1. /\ run'.ready = run.ready /\ run'.chunk = run.chunk /\ run'.listed = run.listed
        /\ run'.applied = run.applied /\ run'.toRead = run.toRead /\ run'.left = run.left
    BY <1>6 DEF RecordPeer, SkipPeer, TypeOK, Runs
  <2>2. merged' = merged /\ resume' = resume
    BY <1>6 DEF RecordPeer, SkipPeer, database
  <2>3. run.toRead = {} /\ run.ready = {}
    BY <1>6 DEF RecordPeer, SkipPeer, NextPeer, Staged
  <2>4. \A s \in AppliedOf(p) : Whole(s, run.listed[s].gen)
    BY <1>0 DEF AppliedOf, Skipped
  <2>5. Complete(p) => \A s \in Listed(p) : Whole(s, run.listed[s].gen)
    BY <1>0, <2>3 DEF Complete, Listed, Skipped
  <2>6. RecordedIsMerged' /\ ContactIsMerged'
    <3>1. CASE RecordPeer(p)
      <4>1. \A s \in Slots : Whole(s, recorded'[s].gen) \/ recorded'[s].gen = recorded[s].gen
        BY <2>4, <3>1 DEF RecordPeer
      <4>2. \A s \in Slots : Whole(s, contact'[s]) \/ contact'[s] = contact[s]
        BY <2>5, <3>1 DEF RecordPeer
      <4> QED
        BY <1>0, <2>2, <4>1, <4>2 DEF RecordedIsMerged, ContactIsMerged, Whole, PiecesOf
    <3>2. CASE SkipPeer(p)
      BY <1>0, <2>2, <3>2, WholeStays DEF SkipPeer, RecordedIsMerged, ContactIsMerged, database
    <3> QED
      BY <1>6, <3>1, <3>2
  <2> QED
    BY <1>0, <2>1, <2>2, <2>6, SkippedSame DEF MergedInv
<1>7. CASE FinishRun
  <2>1. recorded' = recorded /\ contact' = contact /\ merged' = merged /\ resume' = resume
        /\ run' = NoRun
    BY <1>7 DEF FinishRun
  <2>2. Skipped'
    BY <1>0, <2>1, SkippedFresh DEF NoRun
  <2> QED
    BY <1>0, <2>1, <2>2, WholeStays DEF MergedInv, RecordedIsMerged, ContactIsMerged
<1> QED
  BY <1>1, <1>2, <1>3, <1>4, <1>5, <1>6, <1>7 DEF Next, RunStep, Bookkeeping

----------------------------------------------------------------------------
(* What is merged had its copy                                             *)

LEMMA PairsStay ==
  ASSUME merged \subseteq merged'
  PROVE  PairsMerged \subseteq PairsMerged'
BY DEF PairsMerged

\* A bundle of which every piece was merged has merged something.
LEMMA WholeIsSome ==
  ASSUME NEW s, NEW g, Whole(s, g)
  PROVE  merged # {}
<1>1. 1 \in 1 .. Chunks
  BY BoundsAssumption
<1> QED
  BY <1>1 DEF Whole, PiecesOf

LEMMA PairTypes ==
  ASSUME TypeOK
  PROVE  /\ PairsMerged \subseteq Pairs
         /\ \A s \in Slots : PairOf(s) \in Pairs
BY RunFields DEF TypeOK, PairsMerged, Pieces, Pairs, PairOf, Offers

\* Nothing about copies changes.
LEMMA CopySame ==
  ASSUME TypeOK, CopyInv, UNCHANGED <<merged, copies, recorded, backupNoted, backupTaken, localSchema>>,
         run'.applied = run.applied, run'.listed = run.listed,
         \/ run'.stage # "apply"
         \/ /\ run'.stage = run.stage /\ run'.ready \subseteq run.ready
            /\ run'.halted = run.halted \/ run'.halted
            /\ run'.guard = run.guard
  PROVE  CopyInv'
BY DEF CopyInv, Copied, BackupBeforeMerge, PairsMerged, RecordedPair, PairOf, copies

\* A run that ends leaves the copies of what was merged.
LEMMA CopyEnds ==
  ASSUME TypeOK, CopyInv, RunEnds, UNCHANGED <<merged, recorded>>,
         run' = NoRun, backupNoted' = backupNoted, backupTaken' \in {backupTaken, FALSE}
  PROVE  CopyInv'
<1>1. PairsMerged' = PairsMerged /\ copiedPairs' = copiedPairs \cap PairsMerged
      /\ cleanCopy' = cleanCopy
  BY DEF RunEnds, PairsMerged
<1>2. run'.applied = {} /\ run'.stage = "idle"
  BY DEF NoRun
<1>3. BackupBeforeMerge'
  BY <1>1 DEF CopyInv, BackupBeforeMerge
<1>4. Copied'
  <2>1. (backupNoted \/ backupTaken => cleanCopy)'
    BY <1>1 DEF CopyInv, Copied
  <2>2. (\A s \in Slots : recorded[s].gen > 0 => RecordedPair(s) \in PairsMerged)'
    BY <1>1 DEF CopyInv, Copied, RecordedPair
  <2> QED
    BY <1>2, <2>1, <2>2 DEF Copied
<1> QED
  BY <1>3, <1>4 DEF CopyInv

LEMMA CopyFresh ==
  ASSUME TypeOK, CopyInv, UNCHANGED <<merged, copies, recorded, backupNoted>>,
         backupTaken' \in {backupTaken, FALSE}, run'.applied = {}, run'.stage # "apply"
  PROVE  CopyInv'
<1>1. PairsMerged' = PairsMerged /\ copiedPairs' = copiedPairs /\ cleanCopy' = cleanCopy
  BY DEF PairsMerged, copies
<1>2. BackupBeforeMerge'
  BY <1>1 DEF CopyInv, BackupBeforeMerge
<1>3. (backupNoted \/ backupTaken => cleanCopy)'
  BY <1>1 DEF CopyInv, Copied
<1>4. (\A s \in Slots : recorded[s].gen > 0 => RecordedPair(s) \in PairsMerged)'
  BY <1>1 DEF CopyInv, Copied, RecordedPair
<1> QED
  BY <1>2, <1>3, <1>4 DEF CopyInv, Copied

\* The step between the reads and the first piece.
LEMMA CopySafeguard ==
  ASSUME TypeOK, Staged, MergedInv, CopyInv, Safeguard
  PROVE  CopyInv'
<1>0. BackupBeforeMerge /\ Copied /\ RecordedIsMerged
  BY DEF CopyInv, MergedInv
<1>1. UNCHANGED <<merged, recorded, localSchema>> /\ PairsMerged' = PairsMerged
  BY DEF Safeguard, NothingRead, NoBackup, TakeBackup, BackupFails, PairsMerged, database
<1>2. run'.applied = run.applied /\ run'.listed = run.listed /\ run'.ready = run.ready
  BY DEF Safeguard, NothingRead, NoBackup, TakeBackup, BackupFails, TypeOK, Runs
<1>3. CASE NothingRead
  <2>1. run'.stage = "record"
    BY <1>3 DEF NothingRead, TypeOK, Runs
  <2> QED
    BY <1>1, <1>2, <1>3, <2>1, CopySame DEF NothingRead, database
<1>4. CASE BackupFails
  <2>1. run'.stage = "apply" /\ run'.halted
    BY <1>4 DEF BackupFails, TypeOK, Runs
  <2>2. UNCHANGED <<copies, backupNoted, backupTaken>>
    BY <1>4 DEF BackupFails, database
  <2> QED
    BY <1>0, <1>1, <1>2, <2>1, <2>2 DEF CopyInv, Copied, BackupBeforeMerge, RecordedPair, PairOf,
       copies
<1>5. CASE NoBackup
  <2>1. run'.stage = "apply" /\ run'.guard = BackupDue
    BY <1>5 DEF NoBackup, TypeOK, Runs
  <2>2. UNCHANGED <<copies, backupNoted, backupTaken>>
    BY <1>5 DEF NoBackup, database
  <2>3. ~BackupDue => cleanCopy
    <3>1. ~BackupDue => \/ \E s \in Slots : recorded[s].gen > 0
                        \/ backupNoted \/ backupTaken
      BY DEF BackupDue, FirstMerge, TypeOK, Generations
    <3>2. (\E s \in Slots : recorded[s].gen > 0) => merged # {}
      BY <1>0, WholeIsSome DEF RecordedIsMerged
    <3> QED
      BY <1>0, <3>1, <3>2 DEF BackupBeforeMerge, Copied
  <2>4. ASSUME ~BackupDue, NEW s \in run.ready, run.listed[s].schema # localSchema
        PROVE  PairOf(s) \in copiedPairs
    <3>1. s \in Slots /\ ~SchemaSkew(s)
      BY <2>4, RunFields DEF BackupDue
    <3>2. recorded[s].gen > 0 /\ RecordedPair(s) = PairOf(s)
      BY <2>4, <3>1 DEF SchemaSkew, RecordedPair, PairOf, TypeOK, Generations
    <3>3. PairOf(s) \in PairsMerged
      BY <1>0, <3>1, <3>2 DEF Copied
    <3> QED
      BY <1>0, <2>4, <3>3 DEF BackupBeforeMerge, PairOf
  <2>5. (\A s \in run.applied : PairOf(s) \in PairsMerged)'
    BY <1>0, <1>1, <1>2 DEF Copied, PairOf
  <2>6. (run.stage = "apply" /\ ~run.halted /\ ~run.guard =>
          cleanCopy /\ \A s \in run.ready :
                run.listed[s].schema # localSchema => PairOf(s) \in copiedPairs)'
    BY <1>1, <1>2, <2>1, <2>2, <2>3, <2>4 DEF PairOf, copies
  <2>7. (\A s \in Slots : recorded[s].gen > 0 => RecordedPair(s) \in PairsMerged)'
    BY <1>0, <1>1 DEF Copied, RecordedPair
  <2> QED
    BY <1>0, <1>1, <2>2, <2>5, <2>6, <2>7 DEF CopyInv, Copied, BackupBeforeMerge, copies
<1>6. CASE TakeBackup
  <2>1. cleanCopy'
    BY <1>0, <1>6 DEF TakeBackup, CopyMade, BackupBeforeMerge
  <2>2. \A x \in Pairs : x.schema # x.local => x \in copiedPairs'
    BY <1>0, <1>6 DEF TakeBackup, CopyMade, BackupBeforeMerge
  <2>3. BackupBeforeMerge'
    BY <1>1, <2>1, <2>2, PairTypes DEF BackupBeforeMerge
  <2>4. \A s \in Slots : PairOf(s)' = PairOf(s) /\ RecordedPair(s)' = RecordedPair(s)
    BY <1>1, <1>2 DEF PairOf, RecordedPair
  <2>5. (\A s \in run.ready : run.listed[s].schema # localSchema => PairOf(s) \in copiedPairs)'
    <3>1. \A s \in run.ready : s \in Slots /\ PairOf(s) \in Pairs
      BY PairTypes, RunFields
    <3>2. \A s \in run.ready : run.listed[s].schema # localSchema => PairOf(s) \in copiedPairs'
      BY <2>2, <3>1 DEF PairOf
    <3> QED
      BY <1>1, <1>2, <2>4, <3>1, <3>2
  <2>6. (\A s \in run.applied : PairOf(s) \in PairsMerged)'
    BY <1>0, <1>1, <1>2 DEF Copied, PairOf
  <2>7. (\A s \in Slots : recorded[s].gen > 0 => RecordedPair(s) \in PairsMerged)'
    BY <1>0, <1>1 DEF Copied, RecordedPair
  <2> QED
    BY <2>1, <2>3, <2>5, <2>6, <2>7 DEF CopyInv, Copied
<1> QED
  BY <1>3, <1>4, <1>5, <1>6 DEF Safeguard

\* A piece is merged.
LEMMA CopyChunk ==
  ASSUME TypeOK, Staged, CopyInv, NEW s \in Slots, ApplyChunk(s)
  PROVE  CopyInv'
<1>0. BackupBeforeMerge /\ Copied
  BY DEF CopyInv
<1>1. Applying(s) /\ run.stage = "apply" /\ ~run.halted
  BY DEF ApplyChunk, Applying
<1>2. s \in run.ready /\ NextChunk(s) \in 1 .. Chunks
  BY <1>1, NextPiece
<1>3. merged' = merged \cup {Piece(s, NextChunk(s))}
      /\ UNCHANGED <<recorded, localSchema, backupNoted, backupTaken>>
  BY DEF ApplyChunk
<1>4. PairsMerged' = PairsMerged \cup {PairOf(s)}
  <2> DEFINE pair(x) == [slot |-> x.slot, schema |-> x.schema, local |-> x.local]
  <2>1. pair(Piece(s, NextChunk(s))) = PairOf(s)
    BY DEF Piece, PairOf
  <2>2. PairsMerged = {pair(x) : x \in merged} /\ PairsMerged' = {pair(x) : x \in merged'}
    BY DEF PairsMerged
  <2> HIDE DEF pair
  <2> QED
    BY <1>3, <2>1, <2>2
<1>5. /\ run'.stage = "apply" /\ ~run'.halted /\ ~run'.guard /\ run'.listed = run.listed
      /\ run'.ready \subseteq run.ready
      /\ run'.applied \subseteq run.applied \cup {s}
  <2>1. \/ run' = [run EXCEPT !.guard = FALSE, !.chunk = 0, !.ready = @ \ {s},
                              !.applied = @ \cup {s}]
        \/ run' = [run EXCEPT !.guard = FALSE, !.chunk = NextChunk(s)]
    BY DEF ApplyChunk
  <2>2. CASE run' = [run EXCEPT !.guard = FALSE, !.chunk = 0, !.ready = @ \ {s},
                               !.applied = @ \cup {s}]
    BY <1>1, <2>2 DEF TypeOK, Runs
  <2>3. CASE run' = [run EXCEPT !.guard = FALSE, !.chunk = NextChunk(s)]
    BY <1>1, <2>3 DEF TypeOK, Runs
  <2> QED
    BY <2>1, <2>2, <2>3
<1>6. \A t \in Slots : PairOf(t)' = PairOf(t) /\ RecordedPair(t)' = RecordedPair(t)
  BY <1>3, <1>5 DEF PairOf, RecordedPair
<1>7. run.applied \subseteq Slots /\ run.ready \subseteq Slots
  BY RunFields
<1>8. /\ cleanCopy'
      /\ copiedPairs \subseteq copiedPairs'
      /\ \A t \in run.ready : run.listed[t].schema # localSchema => PairOf(t) \in copiedPairs'
  <2>1. CASE run.guard
    BY <1>7, <2>1, PairTypes DEF ApplyChunk, TypeOK
  <2>2. CASE ~run.guard
    <3>1. cleanCopy' = cleanCopy /\ copiedPairs' = copiedPairs
      BY <2>2 DEF ApplyChunk, copies
    <3> QED
      BY <1>0, <1>1, <2>2, <3>1 DEF Copied
  <2> QED
    BY <2>1, <2>2
<1>9. BackupBeforeMerge'
  <2>1. PairOf(s).schema # PairOf(s).local => PairOf(s) \in copiedPairs'
    BY <1>2, <1>8 DEF PairOf
  <2> QED
    BY <1>0, <1>4, <1>8, <2>1 DEF BackupBeforeMerge
<1>10. (\A t \in run.applied : PairOf(t) \in PairsMerged)'
  BY <1>0, <1>4, <1>5, <1>6, <1>7 DEF Copied
<1>11. (\A t \in Slots : recorded[t].gen > 0 => RecordedPair(t) \in PairsMerged)'
  BY <1>0, <1>3, <1>4, <1>6 DEF Copied
<1>12. (\A t \in run.ready : run.listed[t].schema # localSchema => PairOf(t) \in copiedPairs)'
  BY <1>3, <1>5, <1>6, <1>7, <1>8
<1> QED
  BY <1>8, <1>9, <1>10, <1>11, <1>12 DEF CopyInv, Copied

\* A run remembers what it merged with the pair of schemas it merged it under.
LEMMA CopyRecorded ==
  ASSUME TypeOK, Staged, CopyInv, NEW p \in Peers, RecordPeer(p)
  PROVE  CopyInv'
<1>1. UNCHANGED <<merged, localSchema, backupNoted, backupTaken, copies>>
      /\ PairsMerged' = PairsMerged
  BY DEF RecordPeer, PairsMerged
<1>2. run'.stage = "record" /\ run'.applied = run.applied /\ run'.listed = run.listed
  BY DEF RecordPeer, NextPeer, TypeOK, Runs
<1>3. ASSUME NEW s \in Slots, recorded'[s].gen > 0
      PROVE  [slot |-> s, schema |-> recorded'[s].schema, local |-> recorded'[s].local] \in PairsMerged
  <2>1. CASE s \in AppliedOf(p)
    <3>1. recorded'[s].schema = run.listed[s].schema /\ recorded'[s].local = localSchema
      BY <2>1 DEF RecordPeer
    <3>2. PairOf(s) \in PairsMerged
      BY <2>1 DEF AppliedOf, CopyInv, Copied
    <3> QED
      BY <3>1, <3>2 DEF PairOf
  <2>2. CASE s \notin AppliedOf(p)
    <3>1. recorded'[s] = recorded[s]
      BY <2>2 DEF RecordPeer
    <3> QED
      BY <1>3, <3>1 DEF CopyInv, Copied, RecordedPair
  <2> QED
    BY <2>1, <2>2
<1>4. (\A s \in Slots : recorded[s].gen > 0 => RecordedPair(s) \in PairsMerged)'
  BY <1>1, <1>3 DEF RecordedPair
<1>5. (\A s \in run.applied : PairOf(s) \in PairsMerged)'
  BY <1>1, <1>2 DEF CopyInv, Copied, PairOf
<1> QED
  BY <1>1, <1>2, <1>4, <1>5 DEF CopyInv, Copied, BackupBeforeMerge, copies

LEMMA CopyStep ==
  ASSUME TypeOK, Staged, MergedInv, CopyInv, [Next]_vars
  PROVE  CopyInv'
<1>1. CASE UNCHANGED vars
  BY <1>1, CopySame DEF vars, database
<1>2. ASSUME NEW p \in Peers, NEW d \in Domains, NEW schema \in Schemas, Publish(p, d, schema)
      PROVE  CopyInv'
  BY <1>2, CopySame DEF Publish, database
<1>3. CASE Edit \/ Switch
  BY <1>3, CopySame DEF Edit, Switch
<1>4. CASE Restart \/ FinishRun
  BY <1>4, CopyEnds DEF Restart, FinishRun
<1>5. ASSUME \/ \E budget \in {"none", "left"} : StartPull(budget)
             \/ \E p \in Peers : StartJoin(p)
      PROVE  CopyInv'
  <2>1. PICK peers, budget, join, empty : Begin(peers, budget, join, empty)
    BY <1>5 DEF StartPull, StartJoin
  <2>2. run'.stage = "list" /\ run'.applied = NoRun.applied
    BY <2>1, NoRunType DEF Begin, Runs
  <2>3. run'.applied = {}
    BY <2>2 DEF NoRun
  <2>4. UNCHANGED <<merged, copies, recorded, backupNoted>> /\ backupTaken' \in {backupTaken, FALSE}
    BY <1>5 DEF StartPull, StartJoin, database
  <2> QED
    BY <2>2, <2>3, <2>4, CopyFresh
<1>6. CASE BudgetEnds
  <2>1. /\ run'.stage = run.stage /\ run'.ready = run.ready /\ run'.halted = run.halted
        /\ run'.guard = run.guard /\ run'.applied = run.applied /\ run'.listed = run.listed
    BY <1>6 DEF BudgetEnds, TypeOK, Runs
  <2> QED
    BY <1>6, <2>1, CopySame DEF BudgetEnds, database
<1>7. ASSUME NEW f \in Folders, ListFolder(f) \/ SkipFolder(f) PROVE CopyInv'
  <2>1. run'.applied = {} /\ run'.stage # "apply"
    BY <1>7 DEF ListFolder, SkipFolder, TypeOK, Runs, Staged
  <2> QED
    BY <1>7, <2>1, CopyFresh DEF ListFolder, SkipFolder, database
<1>8. ASSUME NEW s \in Slots, ReadBundle(s) PROVE CopyInv'
  <2>1. run'.applied = run.applied /\ run'.listed = run.listed /\ run'.stage = "read"
    BY <1>8 DEF ReadBundle, Reading, TypeOK, Runs
  <2> QED
    BY <1>8, <2>1, CopySame DEF ReadBundle, database
<1>9. ASSUME NEW s \in Slots,
             \/ NotRead(s) \/ FolderLost(s)
             \/ StopBetweenChunks(s) \/ ChunkFails(s) \/ JoinRefused(s) \/ Halted(s)
      PROVE  CopyInv'
  <2>1. \/ run' = Leave(s) \/ run' = [Leave(s) EXCEPT !.down = @ \cup {FolderOf[s[2]]}]
        \/ run' = [Leave(s) EXCEPT !.halted = TRUE]
    BY <1>9 DEF NotRead, FolderLost, StopBetweenChunks, ChunkFails, JoinRefused, Halted
  <2>2. /\ run'.listed = run.listed /\ run'.ready = run.ready \ {s}
        /\ run'.applied = run.applied /\ run'.stage = run.stage /\ run'.guard = run.guard
        /\ run'.halted = run.halted \/ run'.halted
    BY <2>1, LeaveFits DEF Runs
  <2>3. UNCHANGED <<merged, copies, recorded, backupNoted, backupTaken, localSchema>>
    BY <1>9 DEF NotRead, FolderLost, StopBetweenChunks, ChunkFails, JoinRefused, Halted, database
  <2> QED
    BY <2>2, <2>3, CopySame
<1>10. CASE Safeguard
  BY <1>10, CopySafeguard
<1>11. ASSUME NEW s \in Slots, ApplyChunk(s) PROVE CopyInv'
  BY <1>11, CopyChunk
<1>12. CASE AllApplied
  <2>1. run'.applied = run.applied /\ run'.listed = run.listed /\ run'.stage = "record"
    BY <1>12 DEF AllApplied, TypeOK, Runs
  <2> QED
    BY <1>12, <2>1, CopySame DEF AllApplied, database
<1>13. ASSUME NEW p \in Peers, RecordPeer(p) PROVE CopyInv'
  BY <1>13, CopyRecorded
<1>14. ASSUME NEW p \in Peers, SkipPeer(p) PROVE CopyInv'
  <2>1. run'.applied = run.applied /\ run'.listed = run.listed /\ run'.stage = "record"
    BY <1>14 DEF SkipPeer, NextPeer, TypeOK, Runs
  <2> QED
    BY <1>14, <2>1, CopySame DEF SkipPeer, database
<1> QED
  BY <1>1, <1>2, <1>3, <1>4, <1>5, <1>6, <1>7, <1>8, <1>9, <1>10, <1>11, <1>12, <1>13, <1>14
     DEF Next, Surroundings, RunStep, Discovery, Apply, Bookkeeping

----------------------------------------------------------------------------
(* Theorems                                                                *)

\* The inductive invariant: types and stages, what is skipped was merged, and
\* what is merged had its copy.
THEOREM Safety == Spec => []IInv
<1>1. Init => IInv
  <2> SUFFICES ASSUME Init PROVE IInv
    OBVIOUS
  <2>1. TypeOK /\ Staged
    BY InitTypes
  <2>2. MergedInv
    <3>1. RecordedIsMerged /\ ContactIsMerged
      BY DEF Init, RecordedIsMerged, ContactIsMerged
    <3>2. run.applied = {} /\ run.ready = {} /\ \A s \in Slots : run.listed[s].gen = 0
      BY DEF Init, NoRun
    <3>3. \A s \in Slots, g \in Generations : 1 .. resume[s][g] = {}
      BY DEF Init, FreshResume
    <3> QED
      BY <3>1, <3>2, <3>3 DEF MergedInv, Skipped
  <2>3. CopyInv
    <3>1. PairsMerged = {} /\ merged = {}
      BY DEF Init, PairsMerged
    <3>2. run.applied = {} /\ run.stage = "idle"
      BY DEF Init, NoRun
    <3>3. (\A s \in Slots : recorded[s].gen = 0) /\ ~backupNoted /\ ~backupTaken
      BY DEF Init
    <3> QED
      BY <3>1, <3>2, <3>3 DEF CopyInv, Copied, BackupBeforeMerge
  <2> QED
    BY <2>1, <2>2, <2>3 DEF IInv
<1>2. IInv /\ [Next]_vars => IInv'
  BY TypesStep, MergedStep, CopyStep DEF IInv
<1> QED
  BY <1>1, <1>2, PTL DEF Spec

\* A remembered hash stands for a bundle of which every piece was merged
\* (engine-pull.ts, applyStage and record).
THEOREM RecordedMerged == Spec => []RecordedIsMerged
<1>1. IInv => RecordedIsMerged
  BY DEF IInv, MergedInv
<1> QED
  BY <1>1, Safety, PTL

\* last_synced_at claims only what was merged (engine-pull.ts, record).
THEOREM ContactMerged == Spec => []ContactIsMerged
<1>1. IInv => ContactIsMerged
  BY DEF IInv, MergedInv
<1> QED
  BY <1>1, Safety, PTL

\* A copy of the database comes before the first merge, and before the first
\* piece of a pair of different schemas (engine-pull.ts, takeSafetyBackup).
THEOREM BackupFirst == Spec => []BackupBeforeMerge
<1>1. IInv => BackupBeforeMerge
  BY DEF IInv, CopyInv
<1> QED
  BY <1>1, Safety, PTL

\* A join turns sync on only when every domain of the chosen peer was merged
\* (join-service.ts, joinCompleted).
THEOREM JoinComplete == Spec => JoinIsComplete
<1> DEFINE A == enabled' /\ ~enabled /\ run.join =>
                  \A p \in run.peers, d \in Domains :
                     \E g \in 1 .. MaxGeneration : Whole(<<p, d>>, g)
<1>1. IInv /\ [Next]_vars => [A]_vars
  <2> SUFFICES ASSUME IInv, Next, enabled', ~enabled, run.join,
                      NEW p \in run.peers, NEW d \in Domains
               PROVE  \E g \in 1 .. MaxGeneration : Whole(<<p, d>>, g)
    OBVIOUS
  <2>0. TypeOK /\ Staged /\ Skipped
    BY DEF IInv, MergedInv
  <2>1. FinishRun
    <3>0. run # NoRun
      BY DEF NoRun
    <3>1. ~Switch
      BY <3>0 DEF Switch
    <3> QED
      BY <3>1 DEF Next, Surroundings, RunStep, Discovery, Safeguard, Apply, Bookkeeping, Publish, Edit,
         Restart, StartPull, StartJoin, BudgetEnds, ListFolder, SkipFolder, ReadBundle, NotRead,
         FolderLost, NothingRead, NoBackup, TakeBackup, BackupFails, ApplyChunk, StopBetweenChunks,
         ChunkFails, JoinRefused, Halted, AllApplied, RecordPeer, SkipPeer, database
  <2>2. run.left = {} /\ \A s \in run.peers \X Domains : run.listed[s].gen > 0
    BY <2>1 DEF FinishRun, JoinCompleted
  <2>3. run.toRead = {} /\ run.ready = {}
    BY <2>0, <2>1 DEF FinishRun, Staged
  <2>4. <<p, d>> \in Slots /\ run.listed[<<p, d>>].gen > 0
    BY <2>0, <2>2, RunFields DEF Slots
  <2>5. Whole(<<p, d>>, run.listed[<<p, d>>].gen)
    BY <2>0, <2>2, <2>3, <2>4 DEF Skipped
  <2>6. run.listed[<<p, d>>].gen \in 1 .. MaxGeneration
    BY <2>0, <2>4, RunFields, BoundsAssumption DEF Offers, Generations
  <2> QED
    BY <2>5, <2>6
<1> QED
  BY <1>1, Safety, PTL DEF Spec, JoinIsComplete
=============================================================================
