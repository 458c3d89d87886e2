----------------------------- MODULE Publisher -----------------------------
(***************************************************************************)
(* One device publishing its data to the sync folders.                     *)
(*                                                                         *)
(* Four parts of the application act on the state below:                   *)
(*   - the local database (change counters, tauri-sqlite-repository.ts),   *)
(*   - the sync engine's publish run (engine-publish.ts),                  *)
(*   - the folder transport's queue (transport-folder.ts),                 *)
(*   - the native host, which holds one lock per device directory and      *)
(*     commits a bundle with the manifest rename (sync_folder/publish.rs). *)
(* Every await, writer slot and host call is a point where the others may  *)
(* act.  A bundle is abstracted to the change counter its snapshot covers. *)
(***************************************************************************)
EXTENDS Integers, Sequences

CONSTANTS
  Domains,      \* the bundle domains the device's profile may publish
  Transports,   \* the folders (one per folder role)
  Carrier,      \* Carrier[d] is the folder role that declares domain d
  Engines,      \* engine instances; a second one exists after a rebuild
  None,         \* no run, no awaited domain, no lock holder
  MaxEdits,     \* bound on local changes
  MaxFaults     \* bound on timeouts, failures, crashes and rebuilds

ASSUME ConstantsAssumption ==
  /\ Carrier \in [Domains -> Transports]
  /\ Engines # {}
  /\ None \notin Engines
  /\ None \notin Domains
  /\ MaxEdits \in Nat
  /\ MaxFaults \in Nat

VARIABLES
  \* the sync_identity row (durable)
  changeCounter,  \* raised by every captured change
  lastPublish,    \* last_publish_counter
  changedAt,      \* the counter each domain last changed at
  \* the device's own directory in the folders (durable)
  folder,         \* counter covered by the committed bundle of each domain
  bundled,        \* domains the committed manifests list
  \* engine instances (lost at a restart)
  current,        \* the engine the app uses now
  routed,         \* domains each engine has a transport for
  publishedAt,    \* PublishMemory.publishedAt, 0 when absent
  known,          \* PublishMemory.knownPublished
  run,            \* the publish run that holds the app's exclusive lane
  queue,          \* FolderTransport.tail: operations in call order
  writer,         \* holder of the host's per-directory publish lock
  repairs,        \* queueSyncRepublish calls that have not written yet
  \* observers
  edits,          \* counters at which each domain's data really changed
  editCount, faults

database == <<changeCounter, lastPublish, changedAt, edits, editCount>>
disk     == <<folder, bundled>>
memory   == <<current, routed, publishedAt, known>>
vars     == <<database, disk, memory, run, queue, writer, repairs, faults>>

----------------------------------------------------------------------------
(* Types                                                                   *)

Stages == {"queued", "encoding", "sent", "writing"}

\* One transport.publish call.  superseded: a later publishSeq of the same
\* engine and domain has been requested (publishSeq < fence.latest).
Op == [dom : Domains, cover : Nat, superseded : BOOLEAN,
       abandoned : BOOLEAN, stage : Stages]

\* The publish that holds the lock; owner is None once its caller got a
\* host timeout and left it running underneath.
Writer == [dom : Domains, cover : Nat, owner : Engines \cup {None},
           committed : BOOLEAN]

\* A publish run: the counters it read, the domains left, the domain whose
\* transport call it awaits, and what it has gathered.
Run == [eng : Engines, at : Nat, last : Nat, changedAt : [Domains -> Nat],
        todo : SUBSET Domains, awaiting : Domains \cup {None},
        covered : SUBSET Nat,
        failed : BOOLEAN, superseded : BOOLEAN, unrouted : BOOLEAN]

ASSUME NoneAssumption ==
  /\ None \notin Run
  /\ None \notin Writer

TypeOK ==
  /\ changeCounter \in Nat
  /\ lastPublish \in Nat
  /\ changedAt \in [Domains -> Nat]
  /\ folder \in [Domains -> Nat]
  /\ bundled \in SUBSET Domains
  /\ current \in Engines
  /\ routed \in [Engines -> SUBSET Domains]
  /\ publishedAt \in [Engines -> [Domains -> Nat]]
  /\ known \in [Engines -> SUBSET Domains]
  /\ run \in Run \cup {None}
  /\ queue \in [Engines -> [Transports -> Seq(Op)]]
  /\ writer \in [Transports -> Writer \cup {None}]
  /\ repairs \in Nat
  /\ edits \in [Domains -> SUBSET Nat]
  /\ editCount \in Nat
  /\ faults \in Nat

----------------------------------------------------------------------------
(* Initial state: a device whose capture backfill is done, never published *)

NoMemory == [d \in Domains |-> 0]

EmptyQueue == [t \in Transports |-> << >>]

Init ==
  /\ changeCounter = 0
  /\ lastPublish = 0
  /\ changedAt = [d \in Domains |-> 0]
  /\ folder = [d \in Domains |-> 0]
  /\ bundled = {}
  /\ current \in Engines
  /\ routed \in [Engines -> SUBSET Domains]
  /\ publishedAt = [e \in Engines |-> NoMemory]
  /\ known = [e \in Engines |-> {}]
  /\ run = None
  /\ queue = [e \in Engines |-> EmptyQueue]
  /\ writer = [t \in Transports |-> None]
  /\ repairs = 0
  /\ edits = [d \in Domains |-> {}]
  /\ editCount = 0
  /\ faults = 0

Fault ==
  /\ faults < MaxFaults
  /\ faults' = faults + 1

----------------------------------------------------------------------------
(* The database                                                            *)

\* Bug: the columns get the counter as it was before the statement.
BumpWithOldCounter(touched) ==
  /\ changeCounter' = changeCounter + 1
  /\ changedAt' = [d \in Domains |->
                     IF d \in touched THEN changeCounter ELSE changedAt[d]]

\* bumpChangeCounterSql: the counter and the columns of the touched domains
\* move in one statement, inside the transaction that made the change.
BumpChangeCounter(touched) ==
  /\ changeCounter' = changeCounter + 1
  /\ changedAt' = [d \in Domains |->
                     IF d \in touched THEN changeCounter + 1 ELSE changedAt[d]]

\* A captured local change, or a peer bundle merged by a pull.
Edit(touched) ==
  /\ editCount < MaxEdits
  /\ touched # {}
  /\ BumpChangeCounter(touched)
  /\ editCount' = editCount + 1
  /\ edits' = [d \in Domains |-> IF d \in touched
                                 THEN edits[d] \cup {changeCounter + 1}
                                 ELSE edits[d]]
  /\ UNCHANGED <<lastPublish, disk, memory, run, queue, writer, repairs, faults>>

\* queueSyncRepublish, asked for by an abandoned operation that settled:
\* the whole state is pending again.
Republish ==
  /\ repairs > 0
  /\ repairs' = repairs - 1
  /\ BumpChangeCounter(Domains)
  /\ UNCHANGED <<lastPublish, edits, editCount, disk, memory, run, queue, writer, faults>>

\* The repair is best effort: its transaction may fail and nobody retries it.
RepublishFails ==
  /\ repairs > 0
  /\ repairs' = repairs - 1
  /\ Fault
  /\ UNCHANGED <<database, disk, memory, run, queue, writer>>

----------------------------------------------------------------------------
(* The publish run                                                         *)

Larger(a, b) == IF a > b THEN a ELSE b

\* Read the committed counters through the writer queue.
StartRun ==
  /\ run = None
  /\ run' = [eng |-> current, at |-> changeCounter, last |-> lastPublish,
             changedAt |-> changedAt, todo |-> Domains, awaiting |-> None,
             covered |-> {}, failed |-> FALSE, superseded |-> FALSE,
             unrouted |-> FALSE]
  /\ UNCHANGED <<database, disk, memory, queue, writer, repairs, faults>>

Looping == run # None /\ run.awaiting = None

Dirty == run.at > run.last

\* Per-domain change detection: changed after both the last recorded publish
\* and whatever this engine already wrote.
Changed(d) == Dirty /\ run.changedAt[d] > Larger(run.last, publishedAt[run.eng][d])

\* A domain that did not change is still needed in a folder that never got it.
Needed(d) == Changed(d) \/ (d \notin known[run.eng] /\ d \notin bundled)

NoTransport(d) ==
  /\ Looping
  /\ d \in run.todo \ routed[run.eng]
  /\ run' = [run EXCEPT !.todo = @ \ {d}, !.unrouted = TRUE]
  /\ UNCHANGED <<database, disk, memory, queue, writer, repairs, faults>>

CleanDomain(d) ==
  /\ Looping
  /\ d \in run.todo \cap routed[run.eng]
  /\ ~Needed(d)
  /\ run' = [run EXCEPT !.todo = @ \ {d},
                        !.covered = IF Dirty THEN @ \cup {run.at} ELSE @]
  /\ known' = [known EXCEPT ![run.eng] = @ \cup {d}]
  /\ UNCHANGED <<database, disk, current, routed, publishedAt, queue, writer, repairs, faults>>

\* fence.latest rises at call time, so every queued operation of the same
\* engine and domain is superseded at once.
Supersede(ops, d) ==
  [i \in DOMAIN ops |->
     IF ops[i].dom = d THEN [ops[i] EXCEPT !.superseded = TRUE] ELSE ops[i]]

\* readSyncSnapshot returns the change set with the counter it covers, in one
\* writer slot; the transport call that follows only enqueues.  Beyond the
\* needed domains, options.force and a manifest older than the heartbeat age
\* publish any domain, whatever the counters say.
PublishDomain(d) ==
  LET t  == Carrier[d]
      op == [dom |-> d, cover |-> changeCounter, superseded |-> FALSE,
             abandoned |-> FALSE, stage |-> "queued"]
  IN /\ Looping
     /\ d \in run.todo \cap routed[run.eng]
     /\ queue' = [queue EXCEPT ![run.eng][t] = Append(Supersede(@, d), op)]
     /\ run' = [run EXCEPT !.awaiting = d, !.todo = @ \ {d}]
     /\ UNCHANGED <<database, disk, memory, writer, repairs, faults>>

\* The heartbeat or ownGeneration listing, or readSyncSnapshot, failed or
\* timed out: nothing was handed over.
DomainFails(d) ==
  /\ Looping
  /\ d \in run.todo \cap routed[run.eng]
  /\ Fault
  /\ run' = [run EXCEPT !.todo = @ \ {d}, !.failed = TRUE]
  /\ UNCHANGED <<database, disk, memory, queue, writer, repairs>>

\* Bug: the operation that runs is given up, not the awaited one.
AbandonHead(ops) ==
  [i \in DOMAIN ops |->
     IF i = 1 THEN [ops[i] EXCEPT !.abandoned = TRUE] ELSE ops[i]]

\* The operation a run awaits is the last of its queue.
Abandon(ops) ==
  [i \in DOMAIN ops |->
     IF i = Len(ops) THEN [ops[i] EXCEPT !.abandoned = TRUE] ELSE ops[i]]

\* withTimeout gives up; the operation keeps running in the transport.
EngineTimeout ==
  /\ run # None /\ run.awaiting # None
  /\ Fault
  /\ queue' = [queue EXCEPT ![run.eng][Carrier[run.awaiting]] = Abandon(@)]
  /\ run' = [run EXCEPT !.awaiting = None, !.failed = TRUE]
  /\ UNCHANGED <<database, disk, memory, writer, repairs>>

\* Bug: a domain without a folder does not hold the counter back.
CompleteWithoutFolders == ~run.failed /\ ~run.superseded

Complete == ~run.failed /\ ~run.superseded /\ ~run.unrouted

\* Bug: the counter at the end of the run is recorded.
MarkCounterNow(c) == changeCounter

\* Bug: a counter equal to change_counter is refused.
MarkBelowCounter(c) ==
  IF c > lastPublish /\ c < changeCounter THEN c ELSE lastPublish

\* markSyncPublished: forward only, and never past change_counter.
NextPublishCounter(c) ==
  IF c > lastPublish /\ c <= changeCounter THEN c ELSE lastPublish

\* The run records the smallest counter any domain's snapshot covers.
FinishRun ==
  /\ Looping /\ run.todo = {}
  /\ \/ /\ Complete /\ Dirty
        /\ \E c \in run.covered :
             /\ \A other \in run.covered : c <= other
             /\ lastPublish' = NextPublishCounter(c)
     \/ /\ ~(Complete /\ Dirty /\ run.covered # {})
        /\ UNCHANGED lastPublish
  /\ run' = None
  /\ UNCHANGED <<changeCounter, changedAt, edits, editCount, disk, memory,
                 queue, writer, repairs, faults>>

\* The publish could not be recorded: the next one repeats it.
MarkFails ==
  /\ Looping /\ run.todo = {}
  /\ Complete /\ Dirty /\ run.covered # {}
  /\ Fault
  /\ run' = None
  /\ UNCHANGED <<database, disk, memory, queue, writer, repairs>>

----------------------------------------------------------------------------
(* The transport queue.  Only the head of a queue runs.                    *)

Busy(e, t) == queue[e][t] # << >>

HeadOp(e, t) == Head(queue[e][t])

\* Bug: the engine forgets, but no republish is queued.
ForgetOnly(e, d) ==
  /\ publishedAt' = [publishedAt EXCEPT ![e][d] = 0]
  /\ UNCHANGED <<run, known, repairs>>

\* An abandoned operation settled, whatever the outcome: the engine forgets
\* what it published and asks for a republish of everything.
RepairAfterLatePublish(e, d) ==
  /\ publishedAt' = [publishedAt EXCEPT ![e][d] = 0]
  /\ repairs' = repairs + 1
  /\ UNCHANGED <<run, known>>

\* The awaiting run's publish succeeded.
Published(e, op) ==
  /\ publishedAt' = [publishedAt EXCEPT ![e][op.dom] = op.cover]
  /\ known' = [known EXCEPT ![e] = @ \cup {op.dom}]
  /\ run' = [run EXCEPT !.awaiting = None, !.covered = @ \cup {op.cover}]
  /\ UNCHANGED repairs

\* Bug: the engine remembers a failed publish as written.
RememberedAnyway(e, op, outcome) ==
  /\ run' = [run EXCEPT !.awaiting = None,
                        !.superseded = @ \/ outcome = "stale_publish",
                        !.failed = @ \/ outcome = "failed"]
  /\ publishedAt' = [publishedAt EXCEPT ![e][op.dom] = op.cover]
  /\ UNCHANGED <<known, repairs>>

\* It was refused as stale, or it failed.
NotPublished(e, op, outcome) ==
  /\ run' = [run EXCEPT !.awaiting = None,
                        !.superseded = @ \/ outcome = "stale_publish",
                        !.failed = @ \/ outcome = "failed"]
  /\ UNCHANGED <<publishedAt, known, repairs>>

\* The head operation settles.
Settle(e, t, outcome) ==
  LET op == HeadOp(e, t) IN
  /\ queue' = [queue EXCEPT ![e][t] = Tail(@)]
  /\ \/ op.abandoned /\ RepairAfterLatePublish(e, op.dom)
     \/ ~op.abandoned /\ outcome = "ok" /\ Published(e, op)
     \/ ~op.abandoned /\ outcome # "ok" /\ NotPublished(e, op, outcome)
  /\ UNCHANGED <<current, routed>>

SetStage(e, t, stage) ==
  /\ queue' = [queue EXCEPT ![e][t] = [@ EXCEPT ![1].stage = stage]]
  /\ UNCHANGED <<memory, run, repairs>>

\* assertNotSuperseded, when the operation starts and again after encoding.
Advance(e, t, from, to) ==
  /\ Busy(e, t) /\ HeadOp(e, t).stage = from
  /\ IF HeadOp(e, t).superseded
     THEN Settle(e, t, "stale_publish")
     ELSE SetStage(e, t, to)
  /\ UNCHANGED <<database, disk, writer, faults>>

Begin(e, t) == Advance(e, t, "queued", "encoding")

Send(e, t) == Advance(e, t, "encoding", "sent")

\* The bundle is too large, the folder cannot be opened, or run_blocking times
\* out while the publish waits for the lock (it is cancelled: it never starts).
TransportFails(e, t) ==
  /\ Busy(e, t) /\ HeadOp(e, t).stage \in {"encoding", "sent"}
  /\ Fault
  /\ Settle(e, t, "failed")
  /\ UNCHANGED <<database, disk, writer>>

----------------------------------------------------------------------------
(* The native host                                                         *)

HostLock(e, t) ==
  /\ Busy(e, t) /\ HeadOp(e, t).stage = "sent"
  /\ writer[t] = None
  /\ writer' = [writer EXCEPT ![t] = [dom |-> HeadOp(e, t).dom,
                                      cover |-> HeadOp(e, t).cover,
                                      owner |-> e, committed |-> FALSE]]
  /\ SetStage(e, t, "writing")
  /\ UNCHANGED <<database, disk, faults>>

\* The manifest rename.
HostCommit(t) ==
  /\ writer[t] # None /\ ~writer[t].committed
  /\ folder' = [folder EXCEPT ![writer[t].dom] = writer[t].cover]
  /\ bundled' = bundled \cup {writer[t].dom}
  /\ writer' = [writer EXCEPT ![t].committed = TRUE]
  /\ UNCHANGED <<database, memory, run, queue, repairs, faults>>

HostReturn(t) ==
  /\ writer[t] # None /\ writer[t].committed
  /\ writer' = [writer EXCEPT ![t] = None]
  /\ IF writer[t].owner = None
     THEN UNCHANGED <<memory, run, queue, repairs>>
     ELSE Settle(writer[t].owner, t, "ok")
  /\ UNCHANGED <<database, disk, faults>>

\* An I/O error before the commit point.
HostFails(t) ==
  /\ writer[t] # None /\ ~writer[t].committed
  /\ Fault
  /\ writer' = [writer EXCEPT ![t] = None]
  /\ IF writer[t].owner = None
     THEN UNCHANGED <<memory, run, queue, repairs>>
     ELSE Settle(writer[t].owner, t, "failed")
  /\ UNCHANGED <<database, disk>>

\* committedGeneration compares digests: the manifest names exactly these bytes,
\* committed by this call or by an earlier one of an unchanged domain.
SameBytes(w) ==
  /\ w.dom \in bundled
  /\ \A h \in edits[w.dom] : h <= w.cover <=> h <= folder[w.dom]

\* run_blocking times out while the publish holds the lock: the work finishes
\* underneath.  The transport reads its own manifest back, which may fail too,
\* and reports success when the bundle is there.
HostTimeoutWriting(e, t) ==
  /\ Busy(e, t) /\ HeadOp(e, t).stage = "writing"
  /\ Fault
  /\ \/ SameBytes(writer[t]) /\ Settle(e, t, "ok")
     \/ Settle(e, t, "failed")
  /\ writer' = [writer EXCEPT ![t].owner = None]
  /\ UNCHANGED <<database, disk>>

----------------------------------------------------------------------------
(* The application                                                         *)

\* The process ends, at any point, and starts again with a fresh engine.
Restart ==
  /\ Fault
  /\ queue' = [e \in Engines |-> EmptyQueue]
  /\ writer' = [t \in Transports |-> None]
  /\ run' = None
  /\ repairs' = 0
  /\ publishedAt' = [e \in Engines |-> NoMemory]
  /\ known' = [e \in Engines |-> {}]
  /\ \E carried \in SUBSET Domains : routed' = [routed EXCEPT ![current] = carried]
  /\ UNCHANGED <<database, disk, current>>

\* The settings that key the engine changed, or "check the folders again" or
\* turning sync off and on dropped it: a fresh engine with transports of its
\* own.  The old engine's run and operations go on.
Rebuild(e) ==
  /\ e # current
  /\ queue[e] = EmptyQueue
  /\ run # None => run.eng # e
  /\ Fault
  /\ current' = e
  /\ publishedAt' = [publishedAt EXCEPT ![e] = NoMemory]
  /\ known' = [known EXCEPT ![e] = {}]
  /\ \E carried \in SUBSET Domains : routed' = [routed EXCEPT ![e] = carried]
  /\ UNCHANGED <<database, disk, run, queue, writer, repairs>>

----------------------------------------------------------------------------
(* Specifications                                                          *)

RunStep ==
  \/ \E d \in Domains : NoTransport(d) \/ CleanDomain(d) \/ PublishDomain(d)
  \/ FinishRun

TransportStep(e, t) == Begin(e, t) \/ Send(e, t) \/ HostLock(e, t)

HostStep(t) == HostCommit(t) \/ HostReturn(t)

FaultStep ==
  \/ \E d \in Domains : DomainFails(d)
  \/ EngineTimeout
  \/ MarkFails
  \/ \E e \in Engines, t \in Transports :
       TransportFails(e, t) \/ HostTimeoutWriting(e, t)
  \/ \E t \in Transports : HostFails(t)

\* What happens while the process lives and its repairs can be written.
LiveNext ==
  \/ \E touched \in SUBSET Domains : Edit(touched)
  \/ StartRun
  \/ Republish
  \/ RunStep
  \/ \E e \in Engines, t \in Transports : TransportStep(e, t)
  \/ \E t \in Transports : HostStep(t)
  \/ FaultStep

Next == LiveNext \/ RepublishFails \/ Restart

\* One engine instance for the life of the process.
Spec == Init /\ [][Next]_vars

RebuildNext == LiveNext \/ \E e \in Engines : Rebuild(e)

\* Settings changes replace the engine while its operations are running.
RebuildSpec == Init /\ [][RebuildNext]_vars

\* The pending-changes poll starts a run whenever something is pending, an
\* asked for republish is written, and what was started is carried on.
Fairness ==
  /\ WF_vars(changeCounter > lastPublish /\ StartRun)
  /\ WF_vars(Republish)
  /\ WF_vars(RunStep)
  /\ \A e \in Engines, t \in Transports : WF_vars(TransportStep(e, t))
  /\ \A t \in Transports : WF_vars(HostStep(t))

FairSpec == RebuildSpec /\ Fairness

----------------------------------------------------------------------------
(* Properties                                                              *)

\* The pending badge never lies: whatever last_publish_counter claims as
\* published is in the committed bundle of its domain, through timeouts, late
\* commits, partial failures and restarts (markSyncPublished is given the
\* smallest covered counter, and only by a run in which nothing failed).
ClaimedIsPublished ==
  \A d \in Domains : \A h \in edits[d] : h <= lastPublish => h <= folder[d]

\* No change is stranded: a change that no committed bundle holds makes the
\* next run find its domain changed, after the recorded publish and after
\* everything this engine remembers having written.
Owed(d) == changedAt[d] > Larger(lastPublish, publishedAt[current][d])

NothingStranded ==
  \A d \in Domains : \A h \in edits[d] : h > folder[d] => Owed(d)

\* With a replaced engine an older snapshot may overwrite a newer one, but
\* whenever a change is missing from the folder either its domain is owed or
\* the abandoned operation that can still ask for the republish exists.
RepairInSight ==
  \A d \in Domains : \A h \in edits[d] :
    h > folder[d] =>
      \/ Owed(d)
      \/ repairs > 0
      \/ \E e \in Engines, t \in Transports :
           \E i \in DOMAIN queue[e][t] : queue[e][t][i].abandoned

\* The commits of the device happen in the order its snapshots were taken: a
\* committed bundle is never replaced by an older one (one FIFO queue for the
\* whole operation, and a lock in the host).
CommitsInCallOrder ==
  [][\A d \in Domains : folder'[d] >= folder[d]]_disk

\* Every change of a domain that has a folder eventually gets there, whatever
\* finite number of timeouts, failures and engine rebuilds happens meanwhile.
ChangesReachFolder ==
  \A d \in Domains : \A h \in 1 .. (MaxEdits + MaxFaults) :
    (h \in edits[d]) ~> (folder[d] >= h \/ d \notin routed[current])

\* When every domain keeps a folder, the pending badge eventually clears.
PendingClears ==
  <>[](routed[current] = Domains) => <>[](lastPublish = changeCounter)

\* The folder and the counters keep the promise of PublishLedger.
Ledger == INSTANCE PublishLedger WITH
            counter <- changeCounter, claimed <- lastPublish,
            published <- folder, changes <- edits

ImplementsLedger == Ledger!Spec

----------------------------------------------------------------------------
(* Inductive invariants                                                    *)

\* Queues, the lock and the run agree with each other: only the head of a queue
\* is past "queued", only the last operation may still be awaited, and a head
\* in "writing" is the operation whose publish holds the lock.
OpShape(e, t, i) ==
  LET op == queue[e][t][i] IN
  /\ Carrier[op.dom] = t
  /\ i > 1 => op.stage = "queued"
  /\ ~op.abandoned => /\ run # None /\ run.eng = e /\ run.awaiting = op.dom
                      /\ i = Len(queue[e][t])

Owns(e, t) == writer[t] # None /\ writer[t].owner = e

WriterShape(e, t) ==
  /\ Busy(e, t) /\ queue[e][t][1].stage = "writing" => Owns(e, t)
  /\ Owns(e, t) => /\ Busy(e, t)
                   /\ queue[e][t][1].stage = "writing"
                   /\ queue[e][t][1].dom = writer[t].dom
                   /\ queue[e][t][1].cover = writer[t].cover

OpsShape ==
  \A e \in Engines, t \in Transports :
    \A i \in 1 .. Len(queue[e][t]) : OpShape(e, t, i)

LockShape ==
  /\ \A e \in Engines, t \in Transports : WriterShape(e, t)
  /\ \A t \in Transports : writer[t] # None => Carrier[writer[t].dom] = t

Shape == OpsShape /\ LockShape

\* One engine: nothing is left of any other.
Single ==
  /\ \A e \in Engines \ {current}, t \in Transports : ~Busy(e, t)
  /\ run # None => run.eng = current

\* Whatever d changed up to c, its committed bundle holds.
Covered(d, c) == \A h \in edits[d] : h <= c => h <= folder[d]

DomainInv(d) ==
  /\ folder[d] <= changeCounter
  /\ changedAt[d] <= changeCounter
  /\ \A h \in edits[d] : 0 < h /\ h <= changedAt[d]
  /\ Covered(d, lastPublish)
  /\ publishedAt[current][d] <= changeCounter
  /\ Covered(d, publishedAt[current][d])

CountersInv ==
  /\ lastPublish <= changeCounter
  /\ \A d \in Domains : DomainInv(d)

\* Snapshots reach the folder in the order they were taken.
OpOrder(e, t, i) ==
  LET op == queue[e][t][i] IN
  /\ op.cover <= changeCounter
  /\ folder[op.dom] <= op.cover
  /\ \A j \in i .. Len(queue[e][t]) :
       queue[e][t][j].dom = op.dom => op.cover <= queue[e][t][j].cover
  /\ writer[t] # None /\ ~writer[t].committed /\ writer[t].dom = op.dom
       => writer[t].cover <= op.cover

WriterOrder(t) ==
  writer[t] # None =>
    /\ writer[t].cover <= changeCounter
    /\ ~writer[t].committed => folder[writer[t].dom] <= writer[t].cover
    /\ writer[t].committed => folder[writer[t].dom] = writer[t].cover

OrderInv ==
  /\ \A e \in Engines, t \in Transports :
       \A i \in 1 .. Len(queue[e][t]) : OpOrder(e, t, i)
  /\ \A t \in Transports : WriterOrder(t)

\* The domains a complete, dirty run is done with are covered by what it has
\* gathered.
RunInv ==
  run # None =>
    /\ run.last = lastPublish
    /\ run.at <= changeCounter
    /\ \A c \in run.covered : c <= changeCounter
    /\ \A d \in Domains : \A h \in edits[d] : h <= run.at => h <= run.changedAt[d]
    /\ Dirty /\ Complete =>
         \A d \in Domains \ (run.todo \cup {run.awaiting}) :
           \E c \in run.covered : Covered(d, c)

Safe == Single /\ CountersInv /\ OrderInv /\ RunInv

\* The inductive invariant: what counters, engine memory, queue, lock and folder
\* know of each other between any two steps of any of them.
IInv == TypeOK /\ Shape /\ Safe
=============================================================================
