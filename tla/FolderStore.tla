---------------------------- MODULE FolderStore ----------------------------
(***************************************************************************)
(* One device's directory in a sync folder (sync_folder/publish.rs), and a *)
(* peer that reads it (sync_folder/peers.rs) on another machine.           *)
(*                                                                         *)
(* Publish calls run on the host's blocking threads, one at a time under   *)
(* the directory's lock: plan from the manifest and the file names, bundle *)
(* file, manifest (the commit point), prune.  A call whose caller timed    *)
(* out goes on underneath.  Google Drive copies single files to the peer's *)
(* machine in any order.  The bytes of a bundle and their SHA-256 are one  *)
(* number, the publish that brought them; the partial files of             *)
(* atomic_write, which no reader opens, are left out.                      *)
(***************************************************************************)
EXTENDS Integers

CONSTANTS
  Domains,        \* the domains the folder's role allows
  Calls,          \* host threads a publish may run on
  None,           \* no entry, no call, nothing read
  MaxGeneration,  \* highest generation issued, 2^53 - 1 in the code
  MaxPublishes,   \* bound on publish calls
  MaxFaults       \* bound on timeouts, failures, crashes and damage

ASSUME BoundsAssumption ==
  /\ MaxGeneration \in Nat
  /\ MaxPublishes \in Nat
  /\ MaxFaults \in Nat

VARIABLES
  \* the device's directory
  bundles,    \* bundle files: domain, generation, content
  manifest,   \* manifest.json
  unflushed,  \* bundle files whose name no directory flush has made durable
  durable,    \* the manifest a power loss may fall back to
  \* the host
  call,       \* the publish on each thread
  publishes,  \* how many were asked for; numbers their contents
  \* the peer's copy of the directory, and its reads
  mirrorBundles, mirrorManifest,
  reading,    \* the entry a read_bundle call took from the manifest
  delivered,  \* what the last successful read of each domain returned
  \* observers
  written,    \* every bundle ever renamed into place
  committed,  \* every bundle a manifest ever named
  previous,   \* the entry that the last commit of each domain replaced
  faults

directory == <<bundles, manifest, unflushed, durable>>
host      == <<call, publishes>>
peer      == <<mirrorBundles, mirrorManifest, reading, delivered>>
observers == <<written, committed, previous>>
vars      == <<directory, host, peer, observers, faults>>

----------------------------------------------------------------------------
(* Files                                                                   *)

Data == 1 .. MaxPublishes

\* Part of a file: what a download that is still running shows.
Torn == 0

Generations == 1 .. MaxGeneration

\* One domains.<name> entry of a manifest; its file name is <dom>-<gen>.bundle.
DomainEntry == [dom : Domains, gen : Generations, data : Data]

File == [dom : Domains, gen : Generations, data : Data \cup {Torn}]

Entries == [Domains -> DomainEntry \cup {None}]

NoEntries == [d \in Domains |-> None]

\* A malformed manifest (a conflict copy, a hand edit) has no usable entry.
Manifest == [malformed : BOOLEAN, entries : Entries]

Empty == [malformed |-> FALSE, entries |-> NoEntries]

\* A publish call: what it was asked to write and, once it has planned, its
\* generation, the manifest it will write and the generation prune keeps, if
\* any.
Call == [stage : {"waiting", "planned", "bundled", "committed"},
         dom : Domains, data : Data, cancelled : BOOLEAN,
         gen : Generations \cup {0}, entries : Entries,
         kept : SUBSET Generations]

ASSUME NoneAssumption == None \notin DomainEntry \cup Call

TypeOK ==
  /\ bundles \subseteq DomainEntry
  /\ manifest \in Manifest
  /\ unflushed \subseteq DomainEntry
  /\ durable \in Manifest
  /\ call \in [Calls -> Call \cup {None}]
  /\ publishes \in 0 .. MaxPublishes
  /\ mirrorBundles \subseteq File
  /\ mirrorManifest \in Manifest
  /\ reading \in Entries
  /\ delivered \in Entries
  /\ written \subseteq DomainEntry
  /\ committed \subseteq DomainEntry
  /\ previous \in Entries
  /\ faults \in Nat

\* A prepared folder to which the device has not published yet.
Init ==
  /\ bundles = {} /\ manifest = Empty /\ unflushed = {} /\ durable = Empty
  /\ call = [w \in Calls |-> None]
  /\ publishes = 0
  /\ mirrorBundles = {} /\ mirrorManifest = Empty
  /\ reading = NoEntries /\ delivered = NoEntries
  /\ written = {} /\ committed = {} /\ previous = NoEntries
  /\ faults = 0

Fault ==
  /\ faults < MaxFaults
  /\ faults' = faults + 1

Works(step) == step /\ UNCHANGED faults

Fails(step) == step /\ Fault

----------------------------------------------------------------------------
(* A publish call                                                          *)

At(w, stage) == call[w] # None /\ call[w].stage = stage

Holding(w) == call[w] # None /\ call[w].stage # "waiting"

\* Bug: publishes are not serialized.
NoLock == TRUE

\* publish_lock: the mutex of the device directory.
LockFree == \A w \in Calls : ~Holding(w)

Ends(w) == call' = [call EXCEPT ![w] = None]

\* The publish is asked for with bytes of its own.
Publish(w, d) ==
  /\ call[w] = None
  /\ publishes < MaxPublishes
  /\ publishes' = publishes + 1
  /\ call' = [call EXCEPT ![w] =
                [stage |-> "waiting", dom |-> d, data |-> publishes + 1,
                 cancelled |-> FALSE, gen |-> 0, entries |-> NoEntries,
                 kept |-> {}]]
  /\ UNCHANGED <<directory, peer, observers, faults>>

\* run_blocking gives up: the caller gets its timeout, the work is not stopped.
TimesOut(w) ==
  /\ call[w] # None /\ ~call[w].cancelled
  /\ Fault
  /\ call' = [call EXCEPT ![w].cancelled = TRUE]
  /\ UNCHANGED <<directory, publishes, peer, observers>>

\* It was only queued behind the lock: it never starts.
NeverStarts(w) ==
  /\ At(w, "waiting") /\ call[w].cancelled
  /\ LockFree
  /\ Ends(w)
  /\ UNCHANGED <<directory, publishes, peer, observers, faults>>

Listed(d) == manifest.entries[d] # None

\* Bug: a crashed publish's bundle is not looked at.
UsedByManifest(d, g) == Listed(d) /\ manifest.entries[d].gen = g

\* Generations of d that the manifest or a file name uses.
Used(d, g) ==
  \/ Listed(d) /\ manifest.entries[d].gen = g
  \/ \E f \in bundles : f.dom = d /\ f.gen = g

Newest(d) ==
  {f.gen : f \in {b \in bundles : b.dom = d /\ \A o \in bundles : o.dom = d => o.gen <= b.gen}}

\* Bug: the newest older bundle is kept, whatever the manifest named.
NewestFile(d) == Newest(d)

\* previous_kept: the generation committed before this publish or, without
\* one, the newest older bundle; empty for none.
PreviousKept(d) == IF Listed(d) THEN {manifest.entries[d].gen} ELSE Newest(d)

\* Bug: the manifest is rebuilt from this publish alone.
OwnEntryOnly(entry) == [NoEntries EXCEPT ![entry.dom] = entry]

\* The manifest to write keeps the other domains' entries (a malformed manifest
\* has none to keep).
Merged(entry) == [manifest.entries EXCEPT ![entry.dom] = entry]

\* Under the lock: the generation after the highest used one, and the manifest
\* to write.
Plan(w) ==
  LET d == call[w].dom IN
  /\ At(w, "waiting") /\ ~call[w].cancelled
  /\ LockFree
  /\ \E g \in Generations :
       /\ \A other \in Generations : Used(d, other) => other < g
       /\ g = 1 \/ Used(d, g - 1)
       /\ call' = [call EXCEPT
            ![w].stage = "planned",
            ![w].gen = g,
            ![w].entries = Merged([dom |-> d, gen |-> g, data |-> call[w].data]),
            ![w].kept = PreviousKept(d)]
  /\ UNCHANGED <<directory, publishes, peer, observers, faults>>

\* The generation counter has reached its limit.
NoGeneration(w) ==
  /\ At(w, "waiting") /\ ~call[w].cancelled
  /\ LockFree
  /\ Used(call[w].dom, MaxGeneration)
  /\ Ends(w)
  /\ UNCHANGED <<directory, publishes, peer, observers, faults>>

\* An existing manifest that cannot be read now, too many files, a manifest
\* that would be too large: nothing is written.
PlanFails(w) ==
  /\ At(w, "waiting") /\ ~call[w].cancelled
  /\ LockFree
  /\ Fault
  /\ Ends(w)
  /\ UNCHANGED <<directory, publishes, peer, observers>>

\* A directory flush makes every name in it durable; one that fails is only a
\* warning.
Flushed == unflushed' = {} /\ durable' = manifest'

OwnFile(w) == [dom |-> call[w].dom, gen |-> call[w].gen, data |-> call[w].data]

SameName(f, g) == f.dom = g.dom /\ f.gen = g.gen

\* atomic_write of the bundle: the rename replaces a file of that name.
WriteBundle(w) ==
  LET file == OwnFile(w) IN
  /\ At(w, "planned")
  /\ bundles' = {f \in bundles : ~SameName(f, file)} \cup {file}
  /\ written' = written \cup {file}
  /\ UNCHANGED manifest
  /\ \/ Works(Flushed)
     \/ Fails(unflushed' = unflushed \cup {file} /\ UNCHANGED durable)
  /\ call' = [call EXCEPT ![w].stage = "bundled"]
  /\ UNCHANGED <<publishes, peer, committed, previous>>

\* atomic_write of the manifest: its rename is the commit point.
WriteManifest(w) ==
  /\ At(w, "bundled")
  /\ manifest' = [malformed |-> FALSE, entries |-> call[w].entries]
  /\ committed' = committed \cup {OwnFile(w)}
  /\ previous' = [previous EXCEPT ![call[w].dom] = manifest.entries[call[w].dom]]
  /\ \/ Works(Flushed)
     \/ Fails(UNCHANGED <<unflushed, durable>>)
  /\ call' = [call EXCEPT ![w].stage = "committed"]
  /\ UNCHANGED <<bundles, publishes, peer, written>>

\* Bug: an I/O error of the bundle is swallowed.
WriteFailsSilently(w) ==
  /\ At(w, "planned")
  /\ Fault
  /\ call' = [call EXCEPT ![w].stage = "bundled"]
  /\ UNCHANGED <<directory, publishes, peer, observers>>

\* An I/O error before a rename ends the publish; a bundle in place stays.
WriteFails(w) ==
  /\ At(w, "planned") \/ At(w, "bundled")
  /\ Fault
  /\ Ends(w)
  /\ UNCHANGED <<directory, publishes, peer, observers>>

\* prune_generations: what is neither the new generation nor the kept one goes;
\* a deletion that fails is only a warning.
Prune(w) ==
  LET stale == {f \in bundles : /\ f.dom = call[w].dom
                                /\ f.gen \notin {call[w].gen} \cup call[w].kept}
  IN /\ At(w, "committed")
     /\ \E gone \in SUBSET stale :
          /\ bundles' = bundles \ gone
          /\ unflushed' = unflushed \ gone
          /\ IF gone = stale THEN UNCHANGED faults ELSE Fault
     /\ Ends(w)
     /\ UNCHANGED <<manifest, durable, publishes, peer, observers>>

----------------------------------------------------------------------------
(* What happens to the process and to the directory                        *)

NoCalls == call' = [w \in Calls |-> None]

\* The application ends, at any point of any publish.
Crash ==
  /\ Fault
  /\ NoCalls
  /\ UNCHANGED <<directory, publishes, peer, observers>>

\* The machine stops: any names that were not flushed are lost, in any order.
PowerLoss ==
  /\ Fault
  /\ NoCalls
  /\ \E lost \in SUBSET unflushed : bundles' = bundles \ lost
  /\ manifest' \in {manifest, durable}
  /\ unflushed' = {} /\ durable' = manifest'
  /\ UNCHANGED <<publishes, peer, observers>>

\* Somebody else damages manifest.json.
Damage ==
  /\ Fault
  /\ manifest' = [malformed |-> TRUE, entries |-> NoEntries]
  /\ durable' = manifest'
  /\ previous' = NoEntries
  /\ UNCHANGED <<bundles, unflushed, host, peer, written, committed>>

----------------------------------------------------------------------------
(* The peer                                                                *)

Name(d, g) == {f \in bundles : f.dom = d /\ f.gen = g}

MirrorName(d, g) == {f \in mirrorBundles : f.dom = d /\ f.gen = g}

\* Google Drive brings the peer's copy of one file up to date, or deletes it.
SyncBundle(d, g) ==
  /\ MirrorName(d, g) # Name(d, g)
  /\ mirrorBundles' = (mirrorBundles \ MirrorName(d, g)) \cup Name(d, g)
  /\ UNCHANGED <<directory, host, mirrorManifest, reading, delivered, observers, faults>>

\* Its download has started: part of the file is there.
SyncPartly(d, g) ==
  /\ Name(d, g) # {} /\ MirrorName(d, g) # Name(d, g)
  /\ Fault
  /\ mirrorBundles' = (mirrorBundles \ MirrorName(d, g))
                        \cup {[dom |-> d, gen |-> g, data |-> Torn]}
  /\ UNCHANGED <<directory, host, mirrorManifest, reading, delivered, observers>>

SyncManifest ==
  /\ mirrorManifest # manifest
  /\ mirrorManifest' = manifest
  /\ UNCHANGED <<directory, host, mirrorBundles, reading, delivered, observers, faults>>

\* Bug: an entry is known by its generation.
KnownByGeneration(d) ==
  /\ delivered[d] # None
  /\ delivered[d].gen = mirrorManifest.entries[d].gen

\* The content hash is the identity of what was read.
Known(d) ==
  /\ delivered[d] # None
  /\ delivered[d].data = mirrorManifest.entries[d].data

\* read_bundle takes the entry from the manifest as it is now.
ReadManifest(d) ==
  /\ reading[d] = None
  /\ mirrorManifest.entries[d] # None
  /\ ~Known(d)
  /\ reading' = [reading EXCEPT ![d] = mirrorManifest.entries[d]]
  /\ UNCHANGED <<directory, host, mirrorBundles, mirrorManifest, delivered, observers, faults>>

\* Bug: the size and the hash are not compared.
AnyContent(f, entry) == TRUE

Verified(f, entry) == f.data = entry.data

\* Then it opens the file the entry names: only the bytes the manifest vouches
\* for are returned, anything else is "not ready".
ReadBundle(d) ==
  /\ reading[d] # None
  /\ \/ \E f \in MirrorName(d, reading[d].gen) :
          /\ Verified(f, reading[d])
          /\ delivered' = [delivered EXCEPT ![d] = f]
     \/ /\ \A f \in MirrorName(d, reading[d].gen) : ~Verified(f, reading[d])
        /\ UNCHANGED delivered
  /\ reading' = [reading EXCEPT ![d] = None]
  /\ UNCHANGED <<directory, host, mirrorBundles, mirrorManifest, observers, faults>>

----------------------------------------------------------------------------
(* Specifications                                                          *)

Carry(w) ==
  NeverStarts(w) \/ Plan(w) \/ NoGeneration(w) \/ WriteBundle(w) \/ WriteManifest(w) \/ Prune(w)

Drive ==
  \/ SyncManifest
  \/ \E d \in Domains, g \in Generations : SyncBundle(d, g)

Read(d) == ReadManifest(d) \/ ReadBundle(d)

Next ==
  \/ \E w \in Calls :
       \/ \E d \in Domains : Publish(w, d)
       \/ TimesOut(w) \/ PlanFails(w) \/ WriteFails(w)
       \/ Carry(w)
  \/ Crash \/ Damage
  \/ Drive
  \/ \E d \in Domains, g \in Generations : SyncPartly(d, g)
  \/ \E d \in Domains : Read(d)

\* The process may end at any point; the machine does not.
Spec == Init /\ [][Next]_vars

\* The machine may stop as well, on a volume that may not flush directories.
PowerSpec == Init /\ [][Next \/ PowerLoss]_vars

\* Started publishes go on, Drive brings the peer's copy up to date, and every
\* sync of the peer reads again what it has not got.
FairSpec ==
  /\ PowerSpec
  /\ \A w \in Calls : WF_vars(Carry(w))
  /\ WF_vars(SyncManifest)
  /\ \A d \in Domains, g \in Generations : WF_vars(SyncBundle(d, g))
  /\ \A d \in Domains : WF_vars(ReadManifest(d)) /\ WF_vars(ReadBundle(d))

----------------------------------------------------------------------------
(* Properties                                                              *)

\* Whatever crashes, fails or overlaps, the manifest never names a bundle that
\* is not there with the content it vouches for (bundle first, manifest last).
CommittedOnDisk ==
  \A d \in Domains : Listed(d) => manifest.entries[d] \in bundles

\* A reader that took its entry just before a commit can still open the file:
\* the generation a commit replaced outlives prunes, orphans and crashes.
PreviousOnDisk ==
  \A d \in Domains : previous[d] # None => previous[d] \in bundles

\* A file name stands for one content for ever: a crashed publish's generation
\* is not issued again (a peer may be reading it).
NamesNeverReused ==
  \A f, g \in written : SameName(f, g) => f = g

\* A read returns only bundles that a manifest committed, however Drive reorders
\* and tears files, even when a power loss made two contents share a name.
ReadsAreCommitted ==
  \A d \in Domains : delivered[d] # None => delivered[d] \in committed

\* No lost update: a publish of one domain neither drops another domain's entry
\* nor puts an older one back, unless the manifest itself was damaged.
EntriesAdvance ==
  [][\A d \in Domains :
       Listed(d) /\ ~manifest'.malformed =>
         /\ manifest'.entries[d] # None
         /\ manifest'.entries[d].gen >= manifest.entries[d].gen]_manifest

\* A peer never falls back to an older bundle than the one it has read.
ReadsAdvance ==
  [][\A d \in Domains :
       delivered[d] # None => delivered'[d].gen >= delivered[d].gen]_delivered

\* Once publishing is quiet, the peer gets the bundle that the manifest names,
\* if the machine's power losses have left that bundle there.
ReadersCatchUp ==
  \A d \in Domains :
    <>[](Listed(d) /\ manifest.entries[d] \in bundles
           => delivered[d] # None /\ delivered[d].data = manifest.entries[d].data)

----------------------------------------------------------------------------
(* The inductive invariants behind them (FolderStoreProofs)                *)

OfDomain(entries) == \A d \in Domains : entries[d] # None => entries[d].dom = d

AllCommitted(entries) == \A d \in Domains : entries[d] # None => entries[d] \in committed

Sourced(entries) == OfDomain(entries) /\ AllCommitted(entries)

\* A running publish holds its own entry and committed ones.
SourcedCall(w) ==
  Holding(w) =>
    /\ call[w].gen # 0
    /\ call[w].entries[call[w].dom] = OwnFile(w)
    /\ OfDomain(call[w].entries)
    /\ \A d \in Domains \ {call[w].dom} :
         call[w].entries[d] # None => call[w].entries[d] \in committed

\* Every entry that is in force, about to be or seen by the peer is its own
\* domain's, and some manifest has committed it.
Traceable ==
  /\ Sourced(manifest.entries)
  /\ Sourced(durable.entries)
  /\ Sourced(mirrorManifest.entries)
  /\ Sourced(reading)
  /\ Sourced(delivered)
  /\ Sourced(previous)
  /\ \A w \in Calls : SourcedCall(w)

OneHolder == \A w, v \in Calls : Holding(w) /\ Holding(v) => w = v

\* Files and commits leave a trace on disk that later generations pass.
NewestStays ==
  /\ bundles \subseteq written
  /\ committed \subseteq written
  /\ \A f \in written : \E b \in bundles : b.dom = f.dom /\ b.gen >= f.gen

NoneAfter(entry, limit) == entry # None /\ limit # None => entry.gen <= limit.gen

\* The peer has seen nothing newer than these entries.
PeerBehind(entries) ==
  \A d \in Domains :
    /\ NoneAfter(delivered[d], entries[d])
    /\ NoneAfter(reading[d], entries[d])
    /\ NoneAfter(mirrorManifest.entries[d], entries[d])

PeerInOrder ==
  /\ PeerBehind(manifest.entries)
  /\ \A d \in Domains :
       /\ NoneAfter(delivered[d], reading[d])
       /\ NoneAfter(delivered[d], mirrorManifest.entries[d])
       /\ NoneAfter(reading[d], mirrorManifest.entries[d])

\* Until it commits, a publish holds the manifest's entries, older than its own;
\* damage meanwhile only removes the manifest's.
Uncommitted(w) ==
  /\ \A d \in Domains \ {call[w].dom} :
       /\ call[w].entries[d] # None => call[w].entries[d] \in bundles
       /\ ~manifest.malformed => manifest.entries[d] = call[w].entries[d]
  /\ Listed(call[w].dom) => manifest.entries[call[w].dom].gen \in call[w].kept
  /\ PeerBehind(call[w].entries)

OlderThanOwn(w, f) == f.dom = call[w].dom => f.gen < call[w].gen

PublishFits(w) ==
  /\ At(w, "planned") =>
       /\ Uncommitted(w)
       /\ \A f \in written : OlderThanOwn(w, f)
  /\ At(w, "bundled") =>
       /\ Uncommitted(w)
       /\ OwnFile(w) \in bundles
       /\ \A f \in written : f = OwnFile(w) \/ OlderThanOwn(w, f)
       /\ OwnFile(w) \notin committed
  /\ At(w, "committed") =>
       /\ OwnFile(w) \in bundles
       /\ \A f \in written : f = OwnFile(w) \/ OlderThanOwn(w, f)
       /\ Listed(call[w].dom) => manifest.entries[call[w].dom] = OwnFile(w)
       /\ previous[call[w].dom] # None => previous[call[w].dom].gen \in call[w].kept

IInv ==
  /\ TypeOK
  /\ Traceable
  /\ manifest.malformed => manifest.entries = NoEntries
  /\ OneHolder
  /\ NewestStays
  /\ NamesNeverReused
  /\ CommittedOnDisk
  /\ PreviousOnDisk
  /\ PeerInOrder
  /\ \A w \in Calls : PublishFits(w)
=============================================================================
