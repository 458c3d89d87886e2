----------------------------- MODULE PullEngine -----------------------------
(***************************************************************************)
(* One device pulling what the others have published: src/lib/sync/        *)
(* engine-pull.ts over engine-gates.ts, apply-chunked.ts and join-service. *)
(*                                                                         *)
(* A bundle is its generation and the schema it was written under; it is   *)
(* cut into Chunks pieces, each merged in a transaction of its own.  What  *)
(* a piece does to the rows is ReplicatedRows' subject: here a merge only  *)
(* adds the piece to the set the database has merged, tagged with the      *)
(* device's own schema at that moment.                                     *)
(*                                                                         *)
(* The run is sequential, but every step below ends at an await: peers     *)
(* publish, the user edits, and the process ends between any two of them.  *)
(***************************************************************************)
EXTENDS Naturals, FiniteSetsExt

CONSTANTS
    Peers,          \* the other devices, as 1..n in the order of their ids
    Domains,        \* as 1..m in registry order
    Folders,        \* the engine's transports, as 1..k in the order given
    FolderOf,       \* the transport that carries a domain
    Chunks,         \* pieces of one bundle under the apply limits
    MaxGeneration,  \* bound: publishes of one domain of one peer
    MaxPublishes,   \* bound: publishes in all
    MaxSchema,      \* bound: database versions
    MaxFaults       \* bound: errors, and ends of the process

Slots == Peers \X Domains
Generations == 0 .. MaxGeneration
Schemas == 1 .. MaxSchema
Pieces == [slot : Slots, gen : Generations \ {0}, chunk : 1 .. Chunks,
           schema : Schemas, local : Schemas]
Pairs == [slot : Slots, schema : Schemas, local : Schemas]

ASSUME OrderAssumption ==
    /\ Peers \subseteq Nat /\ Domains \subseteq Nat /\ Folders \subseteq Nat
    /\ FolderOf \in [Domains -> Folders]
ASSUME BoundsAssumption ==
    /\ Chunks \in Nat \ {0} /\ MaxGeneration \in Nat /\ MaxPublishes \in Nat
    /\ MaxSchema \in Nat \ {0} /\ MaxFaults \in Nat

VARIABLES
    offered,      \* what the peer's manifest, as this device sees it, names
    manifest,     \* the schema each peer's manifest in each folder reports
    \* ---- the database
    localSchema,  \* highest migration applied
    edited,       \* the user has written rows of his own
    merged,       \* pieces merged
    recorded,     \* sync_peers: last applied hash, and its pair of schemas
    contact,      \* sync_peers.last_synced_at: what was on offer then
    backupNoted,  \* first_merge_backup_path is set
    enabled,      \* settings: multiDeviceSyncEnabled
    \* ---- the process
    resume,       \* ctx.chunkResume: pieces of a bundle already merged
    backupTaken,  \* ctx.firstMergeBackupTaken
    run,
    \* ---- observers
    cleanCopy,    \* a copy of the database before anything was merged exists
    copiedPairs,  \* pairs whose first piece had a copy made before it in its run
    faults

database == <<localSchema, edited, merged, recorded, contact, backupNoted, enabled>>
folders == <<offered, manifest>>
copies == <<cleanCopy, copiedPairs>>
vars == <<folders, database, resume, backupTaken, run, copies, faults>>

NoRun == [stage |-> "idle", budget |-> "none", join |-> FALSE, empty |-> FALSE,
          peers |-> {}, folders |-> {}, listed |-> [s \in Slots |-> [gen |-> 0, schema |-> 1]],
          refused |-> FALSE, toRead |-> {}, ready |-> {}, chunk |-> 0,
          applied |-> {}, left |-> {}, down |-> {}, guard |-> FALSE,
          halted |-> FALSE, toRecord |-> {}]

Stages == {"idle", "list", "read", "apply", "record"}
Budgets == {"none", "left", "spent"}
Offers == [gen : Generations, schema : Schemas]
Runs == [stage : Stages, budget : Budgets, join : BOOLEAN, empty : BOOLEAN,
         peers : SUBSET Peers, folders : SUBSET Folders, listed : [Slots -> Offers],
         refused : BOOLEAN, toRead : SUBSET Slots, ready : SUBSET Slots,
         chunk : 0 .. Chunks - 1, applied : SUBSET Slots, left : SUBSET Slots,
         down : SUBSET Folders, guard : BOOLEAN, halted : BOOLEAN,
         toRecord : SUBSET Peers]

TypeOK ==
    /\ offered \in [Slots -> Offers]
    /\ manifest \in [Peers \X Folders -> Schemas]
    /\ localSchema \in Schemas /\ edited \in BOOLEAN /\ enabled \in BOOLEAN
    /\ merged \subseteq Pieces
    /\ recorded \in [Slots -> [gen : Generations, schema : Schemas, local : Schemas]]
    /\ contact \in [Slots -> Generations]
    /\ backupNoted \in BOOLEAN /\ backupTaken \in BOOLEAN
    /\ resume \in [Slots -> [Generations -> 0 .. Chunks - 1]]
    /\ run \in Runs
    /\ cleanCopy \in BOOLEAN /\ copiedPairs \subseteq Pairs
    /\ faults \in 0 .. MaxFaults

\* Nothing is remembered when the process starts.
FreshResume == [s \in Slots |-> [g \in Generations |-> 0]]

Init ==
    /\ offered = [s \in Slots |-> [gen |-> 0, schema |-> 1]]
    /\ manifest = [x \in Peers \X Folders |-> 1]
    /\ localSchema \in Schemas /\ edited \in BOOLEAN
    /\ merged = {}
    /\ recorded = [s \in Slots |-> [gen |-> 0, schema |-> 1, local |-> 1]]
    /\ contact = [s \in Slots |-> 0]
    /\ backupNoted = FALSE /\ enabled = FALSE
    /\ resume = FreshResume /\ backupTaken = FALSE /\ run = NoRun
    /\ cleanCopy = FALSE /\ copiedPairs = {} /\ faults = 0

Fault == faults < MaxFaults /\ faults' = faults + 1

(***************************************************************************)
(* The surroundings                                                        *)
(***************************************************************************)

\* A peer publishes a domain; its manifest of that folder then reports the
\* schema of its app, which never goes back, also for bundles it keeps.
Publish(p, d, schema) ==
    LET s == <<p, d>>  x == <<p, FolderOf[d]>> IN
    /\ offered[s].gen < MaxGeneration
    /\ MapThenSumSet(LAMBDA t : offered[t].gen, Slots) < MaxPublishes
    /\ schema >= manifest[x]
    /\ offered' = [offered EXCEPT ![s] = [gen |-> @.gen + 1, schema |-> schema]]
    /\ manifest' = [manifest EXCEPT ![x] = schema]
    /\ UNCHANGED <<database, resume, backupTaken, run, copies, faults>>

\* The first row the user writes; once something was merged, nothing looks at it.
Edit ==
    /\ ~edited /\ merged = {}
    /\ edited' = TRUE
    /\ UNCHANGED <<folders, localSchema, merged, recorded, contact, backupNoted,
                   enabled, resume, backupTaken, run, copies, faults>>

PairsMerged ==
    {[slot |-> x.slot, schema |-> x.schema, local |-> x.local] : x \in merged}

\* A copy counts for what the run that made it merges.
RunEnds == copiedPairs' = copiedPairs \cap PairsMerged /\ UNCHANGED cleanCopy

\* The process ends and starts again, perhaps as a newer version of the app.
Restart ==
    /\ Fault
    /\ localSchema' \in localSchema .. MaxSchema
    /\ resume' = FreshResume /\ backupTaken' = FALSE /\ run' = NoRun
    /\ RunEnds
    /\ UNCHANGED <<folders, edited, merged, recorded, contact, backupNoted, enabled>>

\* Sync is turned on, without joining anybody, or off.
Switch ==
    /\ run = NoRun
    /\ enabled' = ~enabled
    /\ UNCHANGED <<folders, localSchema, edited, merged, recorded, contact,
                   backupNoted, resume, backupTaken, run, copies, faults>>

(***************************************************************************)
(* A run: discovery                                                        *)
(***************************************************************************)

Begin(peers, budget, join, empty) ==
    run' = [NoRun EXCEPT !.stage = "list", !.folders = Folders, !.peers = peers,
                         !.budget = budget, !.join = join, !.empty = empty]

\* pull() by a trigger or by hand, with a time budget or without.
StartPull(budget) ==
    /\ run = NoRun /\ enabled
    /\ Begin(Peers, budget, FALSE, FALSE)
    /\ UNCHANGED <<folders, database, resume, backupTaken, copies, faults>>

\* Empty as isVerifiedEmptyDatabase sees it: neither the user's rows nor merged ones.
DatabaseEmpty == ~edited /\ merged = {}

\* confirmJoin: an engine of its own, one peer, no backup if the database was seen empty.
StartJoin(p) ==
    /\ run = NoRun /\ ~enabled
    /\ Begin({p}, "none", TRUE, DatabaseEmpty)
    /\ resume' = FreshResume /\ backupTaken' = FALSE
    /\ UNCHANGED <<folders, database, copies, faults>>

\* overBudget(): once true, true for the rest of the run.
BudgetEnds ==
    /\ run.budget = "left"
    /\ run' = [run EXCEPT !.budget = "spent"]
    /\ UNCHANGED <<folders, database, resume, backupTaken, copies, faults>>

\* A slot the run has to come back to: plan.incomplete, and `remaining` or an issue.
Leave(s) == [run EXCEPT !.left = @ \cup {s}, !.toRead = @ \ {s}, !.ready = @ \ {s},
                        !.chunk = 0]

NextFolder(f) == f \in run.folders /\ \A g \in run.folders : f <= g

Carried(f) == {s \in run.peers \X Domains : FolderOf[s[2]] = f /\ offered[s].gen > 0}

\* A bug: the same schema is refused too.
AcceptedOlder(f) == {s \in Carried(f) : manifest[<<s[1], f>>] < localSchema}

\* evaluateManifest: a peer with a newer database is refused as a whole.
Accepted(f) == {s \in Carried(f) : manifest[<<s[1], f>>] <= localSchema}

Changed(s) == recorded[s].gen # offered[s].gen

ListFolder(f) ==
    /\ run.stage = "list" /\ NextFolder(f) /\ run.budget # "spent"
    /\ run' = [run EXCEPT
         !.folders = @ \ {f},
         !.stage = IF run.folders = {f} THEN "read" ELSE "list",
         !.listed = [s \in Slots |-> IF s \in Accepted(f) THEN offered[s] ELSE @[s]],
         !.refused = @ \/ Carried(f) # Accepted(f),
         !.toRead = @ \cup {s \in Accepted(f) : Changed(s)}]
    /\ UNCHANGED <<folders, database, resume, backupTaken, copies, faults>>

\* The folder is gone, its answer is late, or the budget ran out before it.
SkipFolder(f) ==
    /\ run.stage = "list" /\ NextFolder(f)
    /\ \/ Fault
       \/ run.budget = "spent" /\ UNCHANGED faults
    /\ run' = [run EXCEPT !.folders = @ \ {f}, !.down = @ \cup {f},
                          !.stage = IF run.folders = {f} THEN "read" ELSE "list"]
    /\ UNCHANGED <<folders, database, resume, backupTaken, copies>>

(***************************************************************************)
(* Stage 1: read every bundle that changed                                 *)
(***************************************************************************)

\* Domains in registry order, peers by device id.
NextSlot(s, S) ==
    s \in S /\ \A t \in S : s[2] < t[2] \/ (s[2] = t[2] /\ s[1] <= t[1])

Reading(s) == run.stage = "read" /\ NextSlot(s, run.toRead)

ReadBundle(s) ==
    /\ Reading(s)
    /\ FolderOf[s[2]] \notin run.down /\ run.budget # "spent"
    /\ offered[s] = run.listed[s]
    /\ run' = [run EXCEPT !.toRead = @ \ {s}, !.ready = @ \cup {s}]
    /\ UNCHANGED <<folders, database, resume, backupTaken, copies, faults>>

\* Another bundle than the listed one is there, the folder went down before,
\* the budget ran out, or Drive has not brought the file yet.
NotRead(s) ==
    /\ Reading(s)
    /\ \/ /\ \/ offered[s] # run.listed[s]
             \/ FolderOf[s[2]] \in run.down
             \/ run.budget = "spent"
          /\ UNCHANGED faults
       \/ Fault
    /\ run' = Leave(s)
    /\ UNCHANGED <<folders, database, resume, backupTaken, copies>>

\* The folder goes down under a read: nothing else is read from it in this run.
FolderLost(s) ==
    /\ Reading(s) /\ Fault
    /\ run' = [Leave(s) EXCEPT !.down = @ \cup {FolderOf[s[2]]}]
    /\ UNCHANGED <<folders, database, resume, backupTaken, copies>>

(***************************************************************************)
(* The safety backup: once, between the reads and the first apply          *)
(***************************************************************************)

PairOf(s) == [slot |-> s, schema |-> run.listed[s].schema, local |-> localSchema]

\* A bug: the schema of the manifest decides, not the bundle's own.
ManifestSkew(s) ==
    LET schema == manifest[<<s[1], FolderOf[s[2]]>>] IN
    /\ schema # localSchema
    /\ recorded[s].gen = 0 \/ recorded[s].local # localSchema \/ recorded[s].schema # schema

\* needsSchemaBackup
SchemaSkew(s) ==
    /\ run.listed[s].schema # localSchema
    /\ \/ recorded[s].gen = 0
       \/ recorded[s].local # localSchema
       \/ recorded[s].schema # run.listed[s].schema

FirstMerge ==
    /\ \A s \in Slots : recorded[s].gen = 0
    /\ ~backupNoted /\ ~backupTaken

BackupDue == FirstMerge \/ \E s \in run.ready : SchemaSkew(s)

AllRead == run.stage = "read" /\ run.toRead = {}

NothingRead ==
    /\ AllRead /\ run.ready = {}
    /\ run' = [run EXCEPT !.stage = "record", !.toRecord = Peers]
    /\ UNCHANGED <<folders, database, resume, backupTaken, copies, faults>>

NoBackup ==
    /\ AllRead /\ run.ready # {}
    /\ ~BackupDue \/ run.empty
    /\ run' = [run EXCEPT !.stage = "apply", !.guard = BackupDue]
    /\ UNCHANGED <<folders, database, resume, backupTaken, copies, faults>>

\* What a copy made now can bring back: a state before any piece, or before a pair.
CopyMade ==
    /\ cleanCopy' = (cleanCopy \/ merged = {})
    /\ copiedPairs' = copiedPairs \cup (Pairs \ PairsMerged)

\* takeSafetyBackup; remembering a first-merge backup in the database may fail.
TakeBackup ==
    /\ AllRead /\ run.ready # {} /\ BackupDue /\ ~run.empty
    /\ CopyMade
    /\ backupTaken' = (backupTaken \/ FirstMerge)
    /\ \/ backupNoted' = (backupNoted \/ FirstMerge) /\ UNCHANGED faults
       \/ FirstMerge /\ Fault /\ UNCHANGED backupNoted
    /\ run' = [run EXCEPT !.stage = "apply"]
    /\ UNCHANGED <<folders, localSchema, edited, merged, recorded, contact,
                   enabled, resume>>

BackupFails ==
    /\ AllRead /\ run.ready # {} /\ BackupDue /\ ~run.empty /\ Fault
    /\ run' = [run EXCEPT !.stage = "apply", !.halted = TRUE]
    /\ UNCHANGED <<folders, database, resume, backupTaken, copies>>

(***************************************************************************)
(* Stage 2: apply what was read, piece by piece                            *)
(***************************************************************************)

Applying(s) == run.stage = "apply" /\ NextSlot(s, run.ready)

\* A bug: an index that does not know which bundle it was for.
NextChunkOfAny(s) ==
    1 + (IF run.chunk = 0 THEN Max({resume[s][g] : g \in Generations}) ELSE run.chunk)

\* run.chunk is the piece applied last in this call, 0 before the first.
NextChunk(s) ==
    1 + (IF run.chunk = 0 THEN resume[s][run.listed[s].gen] ELSE run.chunk)

Forget(s) == resume' = [resume EXCEPT ![s][run.listed[s].gen] = 0]

Piece(s, c) == [slot |-> s, gen |-> run.listed[s].gen, chunk |-> c,
                schema |-> run.listed[s].schema, local |-> localSchema]

ApplyChunk(s) ==
    LET c == NextChunk(s) IN
    /\ Applying(s) /\ ~run.halted
    /\ run.chunk = 0 \/ run.budget # "spent"
    /\ run.guard => DatabaseEmpty
    /\ merged' = merged \cup {Piece(s, c)}
    /\ IF c = Chunks
       THEN /\ Forget(s)
            /\ run' = [run EXCEPT !.guard = FALSE, !.chunk = 0, !.ready = @ \ {s},
                                  !.applied = @ \cup {s}]
       ELSE /\ UNCHANGED resume
            /\ run' = [run EXCEPT !.guard = FALSE, !.chunk = c]
    /\ IF run.guard THEN cleanCopy' = TRUE /\ copiedPairs' = Pairs ELSE UNCHANGED copies
    /\ UNCHANGED <<folders, localSchema, edited, recorded, contact, backupNoted,
                   enabled, backupTaken, faults>>

\* The budget is asked between two pieces only.
StopBetweenChunks(s) ==
    /\ Applying(s) /\ ~run.halted /\ run.budget = "spent" /\ run.chunk # 0
    /\ resume' = [resume EXCEPT ![s][run.listed[s].gen] = run.chunk]
    /\ run' = Leave(s)
    /\ UNCHANGED <<folders, database, backupTaken, copies, faults>>

\* A piece is refused or fails: the pieces before it stay.
ChunkFails(s) ==
    /\ Applying(s) /\ ~run.halted /\ Fault
    /\ Forget(s)
    /\ run' = Leave(s)
    /\ UNCHANGED <<folders, database, backupTaken, copies>>

\* join_database_not_empty: the user wrote something since the database was seen empty.
JoinRefused(s) ==
    /\ Applying(s) /\ ~run.halted /\ run.guard /\ ~DatabaseEmpty
    /\ Forget(s)
    /\ run' = [Leave(s) EXCEPT !.halted = TRUE]
    /\ UNCHANGED <<folders, database, backupTaken, copies, faults>>

Halted(s) ==
    /\ Applying(s) /\ run.halted
    /\ run' = Leave(s)
    /\ UNCHANGED <<folders, database, resume, backupTaken, copies, faults>>

AllApplied ==
    /\ run.stage = "apply" /\ run.ready = {}
    /\ run' = [run EXCEPT !.stage = "record", !.toRecord = Peers]
    /\ UNCHANGED <<folders, database, resume, backupTaken, copies, faults>>

(***************************************************************************)
(* Bookkeeping                                                             *)
(***************************************************************************)

NextPeer(p) == run.stage = "record" /\ p \in run.toRecord /\ \A q \in run.toRecord : p <= q

Listed(p) == {s \in Slots : s[1] = p /\ run.listed[s].gen > 0}

AppliedOf(p) == run.applied \cap Listed(p)

\* A bug: only bundles that were read count.
CompleteWhenRead(p) == run.ready \cap Listed(p) = {}

Complete(p) == run.left \cap Listed(p) = {}

RecordPeer(p) ==
    /\ NextPeer(p) /\ Listed(p) # {}
    /\ AppliedOf(p) # {} \/ Complete(p)
    /\ recorded' = [s \in Slots |->
         IF s \in AppliedOf(p)
         THEN [gen |-> run.listed[s].gen, schema |-> run.listed[s].schema,
               local |-> localSchema]
         ELSE recorded[s]]
    /\ contact' = [s \in Slots |->
         IF Complete(p) /\ s \in Listed(p) THEN run.listed[s].gen ELSE contact[s]]
    /\ run' = [run EXCEPT !.toRecord = @ \ {p}]
    /\ UNCHANGED <<folders, localSchema, edited, merged, backupNoted, enabled,
                   resume, backupTaken, copies, faults>>

\* Nothing to remember, a contact remembered less than a day ago, or a failed write.
SkipPeer(p) ==
    /\ NextPeer(p)
    /\ \/ AppliedOf(p) = {} /\ UNCHANGED faults
       \/ Fault
    /\ run' = [run EXCEPT !.toRecord = @ \ {p}]
    /\ UNCHANGED <<folders, database, resume, backupTaken, copies>>

\* A bug: a bundle that stayed behind does not matter.
JoinReached == ~run.halted /\ run.down = {} /\ ~run.refused

\* joinCompleted, with one peer chosen: every domain was listed, and applied or known.
JoinCompleted ==
    /\ ~run.halted /\ run.left = {} /\ run.down = {} /\ ~run.refused
    /\ \A s \in run.peers \X Domains : run.listed[s].gen > 0

FinishRun ==
    /\ run.stage = "record" /\ run.toRecord = {}
    /\ enabled' = (enabled \/ (run.join /\ JoinCompleted))
    /\ run' = NoRun
    /\ RunEnds
    /\ UNCHANGED <<folders, localSchema, edited, merged, recorded, contact,
                   backupNoted, resume, backupTaken, faults>>

-----------------------------------------------------------------------------
Surroundings ==
    \/ \E p \in Peers, d \in Domains, schema \in Schemas : Publish(p, d, schema)
    \/ Edit
    \/ Switch
    \/ Restart

Discovery ==
    \/ \E f \in Folders : ListFolder(f) \/ SkipFolder(f)
    \/ \E s \in Slots : ReadBundle(s) \/ NotRead(s) \/ FolderLost(s)

Safeguard == NothingRead \/ NoBackup \/ TakeBackup \/ BackupFails

Apply ==
    \/ \E s \in Slots :
         ApplyChunk(s) \/ StopBetweenChunks(s) \/ ChunkFails(s) \/ JoinRefused(s) \/ Halted(s)
    \/ AllApplied

Bookkeeping ==
    \/ \E p \in Peers : RecordPeer(p) \/ SkipPeer(p)
    \/ FinishRun

RunStep == Discovery \/ Safeguard \/ Apply \/ Bookkeeping

Next ==
    \/ Surroundings
    \/ \E budget \in {"none", "left"} : StartPull(budget)
    \/ \E p \in Peers : StartJoin(p)
    \/ BudgetEnds
    \/ RunStep

Spec == Init /\ [][Next]_vars

\* A run that has started goes on: every await in it ends by itself or by a
\* timeout.  Pulls without a budget come back (at resume, hourly, by hand), and
\* peers that were reached once within a day need not be remembered again.
FairSpec ==
    /\ Spec
    /\ WF_vars(RunStep)
    /\ SF_vars(StartPull("none"))
    /\ \A p \in Peers : SF_vars(RecordPeer(p) /\ AppliedOf(p) # {})

(***************************************************************************)
(* What must hold                                                          *)
(***************************************************************************)

PiecesOf(s, g) ==
    {c \in 1 .. Chunks : \E x \in merged : x.slot = s /\ x.gen = g /\ x.chunk = c}

Whole(s, g) == PiecesOf(s, g) = 1 .. Chunks

\* A hash that is remembered stands for a bundle of which every piece was merged
\* (applyStage, record): budget stops, failing pieces, restarts and a bundle
\* replaced half way never leave a part behind that no later pull reads.
RecordedIsMerged ==
    \A s \in Slots : recorded[s].gen > 0 => Whole(s, recorded[s].gen)

\* Nothing is merged into a database that cannot be brought back.  A copy without
\* any merged piece exists, however many runs, failed notes and restarts a first
\* merge takes; and the run that merges the first piece of a pair of different
\* schemas makes a copy before it, also when the app or the peer was updated in
\* between and when a kept bundle is older than its manifest says.  The one
\* exception is a database that is still empty when the first piece comes.
BackupBeforeMerge ==
    /\ merged # {} => cleanCopy
    /\ \A x \in PairsMerged : x.schema # x.local => x \in copiedPairs

\* last_synced_at is set only by a run that left nothing of the peer behind: all
\* that it listed then was merged.  The 90-day gate trusts it.
ContactIsMerged == \A s \in Slots : contact[s] > 0 => Whole(s, contact[s])

\* A join turns sync on only when every domain of the chosen laptop was merged
\* completely (joinCompleted), whatever went wrong on the way.
JoinIsComplete ==
    [][enabled' /\ ~enabled /\ run.join =>
         \A p \in run.peers, d \in Domains : \E g \in 1 .. MaxGeneration : Whole(<<p, d>>, g)]_vars

\* While sync stays on, what the peers publish is merged and remembered in the
\* end, unless their database is newer than this device's.
CaughtUp(s) ==
    manifest[<<s[1], FolderOf[s[2]]>>] <= localSchema => recorded[s].gen = offered[s].gen
CatchesUp == <>[]enabled => <>[](\A s \in Slots : CaughtUp(s))
=============================================================================
