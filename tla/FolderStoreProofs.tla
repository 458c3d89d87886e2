------------------------- MODULE FolderStoreProofs -------------------------
(* What FolderStore promises, for any number of domains, threads,          *)
(* generations, publishes and faults.                                      *)
EXTENDS FolderStore, TLAPS

AnyStep == [Next \/ PowerLoss]_vars

----------------------------------------------------------------------------
(* Types                                                                   *)

\* The parts of a publish call and their types.
LEMMA CallFields ==
  ASSUME TypeOK, NEW w \in Calls, call[w] # None
  PROVE  /\ call[w] \in Call
         /\ call[w].stage \in {"waiting", "planned", "bundled", "committed"}
         /\ call[w].dom \in Domains /\ call[w].data \in Data
         /\ call[w].gen \in Generations \cup {0}
         /\ call[w].entries \in Entries
         /\ call[w].kept \subseteq Generations
BY DEF TypeOK, Call

\* A thread's record may be replaced by another one, by none, or be patched.
LEMMA CallReplaced ==
  ASSUME TypeOK, NEW w \in Calls, NEW c \in Call \cup {None},
         call' = [call EXCEPT ![w] = c]
  PROVE  call' \in [Calls -> Call \cup {None}]
BY DEF TypeOK

\* A publish that holds the lock has a generation of its own.
LEMMA HolderGeneration ==
  ASSUME TypeOK, Traceable, NEW w \in Calls, Holding(w)
  PROVE  OwnFile(w) \in DomainEntry /\ call[w].gen \in Generations
BY CallFields DEF Traceable, SourcedCall, Holding, OwnFile, DomainEntry

\* Asking for a publish keeps the types.
LEMMA PublishTypes ==
  ASSUME TypeOK, NEW w \in Calls, NEW d \in Domains, Publish(w, d)
  PROVE  TypeOK'
<1>1. publishes + 1 \in Data /\ publishes' \in 0 .. MaxPublishes
  BY BoundsAssumption DEF TypeOK, Publish, Data
<1>2. [stage |-> "waiting", dom |-> d, data |-> publishes + 1,
       cancelled |-> FALSE, gen |-> 0, entries |-> NoEntries, kept |-> {}] \in Call
  BY <1>1 DEF Call, Entries, NoEntries
<1>3. call' \in [Calls -> Call \cup {None}]
  BY <1>2 DEF Publish, TypeOK
<1> QED
  BY <1>1, <1>3 DEF TypeOK, Publish, directory, peer, observers

\* A publish that ends early keeps the types.
LEMMA EndTypes ==
  ASSUME TypeOK, NEW w \in Calls, call[w] # None,
         NeverStarts(w) \/ NoGeneration(w) \/ PlanFails(w) \/ WriteFails(w) \/ Crash
  PROVE  TypeOK'
<1>1. call' \in [Calls -> Call \cup {None}]
  BY DEF TypeOK, NeverStarts, NoGeneration, PlanFails, WriteFails, Crash, Ends, NoCalls
<1>2. faults' \in Nat
  BY DEF TypeOK, NeverStarts, NoGeneration, PlanFails, WriteFails, Crash, Fault
<1> QED
  BY <1>1, <1>2 DEF TypeOK, NeverStarts, NoGeneration, PlanFails, WriteFails, Crash,
       directory, peer, observers

\* A caller's timeout keeps the types.
LEMMA TimesOutTypes ==
  ASSUME TypeOK, NEW w \in Calls, TimesOut(w)
  PROVE  TypeOK'
<1>1. [call[w] EXCEPT !.cancelled = TRUE] \in Call
  BY CallFields DEF TimesOut, Call
<1>2. call' \in [Calls -> Call \cup {None}]
  BY <1>1 DEF TypeOK, TimesOut
<1> QED
  BY <1>2 DEF TypeOK, TimesOut, Fault, directory, peer, observers

\* What prune will keep is a generation.
LEMMA KeptTypes ==
  ASSUME TypeOK, NEW d \in Domains
  PROVE  PreviousKept(d) \subseteq Generations
BY DEF PreviousKept, Listed, Newest, TypeOK, Manifest, Entries, DomainEntry

\* Planning keeps the types.
LEMMA PlanTypes ==
  ASSUME TypeOK, NEW w \in Calls, Plan(w)
  PROVE  TypeOK'
<1>1. call[w] # None
  BY DEF Plan, At
<1>2. PICK g \in Generations :
        call' = [call EXCEPT
            ![w].stage = "planned",
            ![w].gen = g,
            ![w].entries = Merged([dom |-> call[w].dom, gen |-> g, data |-> call[w].data]),
            ![w].kept = PreviousKept(call[w].dom)]
  BY DEF Plan
<1>3. Merged([dom |-> call[w].dom, gen |-> g, data |-> call[w].data]) \in Entries
  BY <1>1, CallFields DEF Merged, Entries, DomainEntry, TypeOK, Manifest
<1>4. PreviousKept(call[w].dom) \subseteq Generations
  BY <1>1, KeptTypes, CallFields
<1>5. [call[w] EXCEPT !.stage = "planned", !.gen = g,
         !.entries = Merged([dom |-> call[w].dom, gen |-> g, data |-> call[w].data]),
         !.kept = PreviousKept(call[w].dom)] \in Call
  BY <1>1, <1>3, <1>4, CallFields DEF Call
<1>6. call' \in [Calls -> Call \cup {None}]
  BY <1>2, <1>5 DEF TypeOK
<1> QED
  BY <1>6 DEF TypeOK, Plan, directory, peer, observers

\* Moving a call to its next stage keeps the calls' type.
LEMMA StageTypes ==
  ASSUME TypeOK, NEW w \in Calls, call[w] # None,
         NEW s \in {"bundled", "committed"}, call' = [call EXCEPT ![w].stage = s]
  PROVE  call' \in [Calls -> Call \cup {None}]
<1>1. [call[w] EXCEPT !.stage = s] \in Call
  BY CallFields DEF Call
<1> QED
  BY <1>1 DEF TypeOK

\* Writing the bundle keeps the types.
LEMMA WriteBundleTypes ==
  ASSUME TypeOK, Traceable, NEW w \in Calls, WriteBundle(w)
  PROVE  TypeOK'
<1>1. OwnFile(w) \in DomainEntry
  BY HolderGeneration DEF WriteBundle, At, Holding
<1>2. call' \in [Calls -> Call \cup {None}]
  BY StageTypes DEF WriteBundle, At
<1>3. bundles' \subseteq DomainEntry /\ written' \subseteq DomainEntry
  BY <1>1 DEF WriteBundle, TypeOK
<1>4. unflushed' \subseteq DomainEntry /\ durable' \in Manifest /\ faults' \in Nat
  BY <1>1 DEF WriteBundle, TypeOK, Works, Fails, Flushed, Fault
<1> QED
  BY <1>2, <1>3, <1>4 DEF WriteBundle, TypeOK, peer

\* Writing the manifest keeps the types.
LEMMA WriteManifestTypes ==
  ASSUME TypeOK, Traceable, NEW w \in Calls, WriteManifest(w)
  PROVE  TypeOK'
<1>1. OwnFile(w) \in DomainEntry
  BY HolderGeneration DEF WriteManifest, At, Holding
<1>2. call[w].entries \in Entries /\ call[w].dom \in Domains
  BY CallFields DEF WriteManifest, At
<1>3. call' \in [Calls -> Call \cup {None}]
  BY StageTypes DEF WriteManifest, At
<1>4. manifest' \in Manifest
  BY <1>2 DEF WriteManifest, Manifest
<1>5. committed' \subseteq DomainEntry
  BY <1>1 DEF WriteManifest, TypeOK
<1>6. previous' \in Entries
  BY <1>2 DEF WriteManifest, TypeOK, Manifest, Entries
<1>7. unflushed' \subseteq DomainEntry /\ durable' \in Manifest /\ faults' \in Nat
  <2>1. CASE Works(Flushed)
    BY <1>4, <2>1 DEF TypeOK, Works, Flushed
  <2>2. CASE Fails(UNCHANGED <<unflushed, durable>>)
    BY <2>2 DEF TypeOK, Fails, Fault
  <2> QED
    BY <2>1, <2>2 DEF WriteManifest
<1> QED
  BY <1>3, <1>4, <1>5, <1>6, <1>7 DEF WriteManifest, TypeOK, peer

\* Pruning keeps the types.
LEMMA PruneTypes ==
  ASSUME TypeOK, NEW w \in Calls, Prune(w)
  PROVE  TypeOK'
<1>1. call' \in [Calls -> Call \cup {None}]
  BY DEF TypeOK, Prune, Ends
<1>2. bundles' \subseteq DomainEntry /\ unflushed' \subseteq DomainEntry /\ faults' \in Nat
  BY DEF TypeOK, Prune, Fault
<1> QED
  BY <1>1, <1>2 DEF TypeOK, Prune, peer, observers

\* A power loss or a damaged manifest keeps the types.
LEMMA MachineTypes ==
  ASSUME TypeOK, PowerLoss \/ Damage
  PROVE  TypeOK'
<1>1. CASE PowerLoss
  BY <1>1 DEF PowerLoss, TypeOK, Fault, NoCalls, peer, observers
<1>2. CASE Damage
  <2>1. NoEntries \in Entries
    BY DEF NoEntries, Entries
  <2>2. manifest' \in Manifest /\ durable' \in Manifest
    BY <1>2, <2>1 DEF Damage, Manifest
  <2> QED
    BY <1>2, <2>1, <2>2 DEF Damage, TypeOK, Fault, host, peer
<1> QED
  BY <1>1, <1>2

\* The peer's steps and Drive's keep the types.
LEMMA PeerTypes ==
  ASSUME TypeOK, NEW d \in Domains,
         SyncManifest \/ Read(d)
           \/ \E g \in Generations : SyncBundle(d, g) \/ SyncPartly(d, g)
  PROVE  TypeOK'
<1>1. CASE SyncManifest
  BY <1>1 DEF SyncManifest, TypeOK, directory, host, observers
<1>2. CASE ReadManifest(d)
  <2>1. reading' \in Entries
    BY <1>2 DEF ReadManifest, TypeOK, Manifest, Entries
  <2> QED
    BY <1>2, <2>1 DEF ReadManifest, TypeOK, directory, host, observers
<1>3. CASE ReadBundle(d)
  <2>1. reading[d] \in DomainEntry
    BY <1>3 DEF ReadBundle, TypeOK, Entries
  <2>2. reading' \in Entries
    BY <1>3 DEF ReadBundle, TypeOK, Entries
  <2>3. delivered' \in Entries
    <3>1. CASE UNCHANGED delivered
      BY <3>1 DEF TypeOK
    <3>2. CASE ~UNCHANGED delivered
      <4>1. PICK f \in MirrorName(d, reading[d].gen) :
              Verified(f, reading[d]) /\ delivered' = [delivered EXCEPT ![d] = f]
        BY <1>3, <3>2 DEF ReadBundle
      <4>2. f \in File /\ f.data \in Data
        BY <2>1, <4>1 DEF MirrorName, TypeOK, Verified, DomainEntry
      <4>3. f \in DomainEntry
        BY <4>2 DEF File, DomainEntry
      <4> QED
        BY <4>1, <4>3 DEF TypeOK, Entries
    <3> QED
      BY <3>1, <3>2
  <2> QED
    BY <1>3, <2>2, <2>3 DEF ReadBundle, TypeOK, directory, host, observers
<1>4. ASSUME NEW g \in Generations, SyncBundle(d, g) PROVE TypeOK'
  <2>1. mirrorBundles' \subseteq File
    BY <1>4 DEF SyncBundle, Name, MirrorName, TypeOK, File, DomainEntry
  <2> QED
    BY <1>4, <2>1 DEF SyncBundle, TypeOK, directory, host, observers
<1>5. ASSUME NEW g \in Generations, SyncPartly(d, g) PROVE TypeOK'
  <2>1. mirrorBundles' \subseteq File
    BY <1>5 DEF SyncPartly, MirrorName, TypeOK, File
  <2> QED
    BY <1>5, <2>1 DEF SyncPartly, TypeOK, Fault, directory, host, observers
<1> QED
  BY <1>1, <1>2, <1>3, <1>4, <1>5 DEF Read

\* Every step keeps the types.
LEMMA TypeStep ==
  ASSUME TypeOK, Traceable, AnyStep
  PROVE  TypeOK'
<1>1. CASE UNCHANGED vars
  BY <1>1 DEF vars, directory, host, peer, observers, TypeOK
<1>2. CASE PowerLoss \/ Damage
  BY <1>2, MachineTypes
<1>3. CASE Crash
  BY <1>3 DEF TypeOK, Crash, NoCalls, Fault, directory, peer, observers
<1>4. ASSUME NEW w \in Calls, NEW d \in Domains, Publish(w, d) PROVE TypeOK'
  BY <1>4, PublishTypes
<1>5. ASSUME NEW w \in Calls, TimesOut(w) PROVE TypeOK'
  BY <1>5, TimesOutTypes
<1>6. ASSUME NEW w \in Calls,
             NeverStarts(w) \/ NoGeneration(w) \/ PlanFails(w) \/ WriteFails(w)
      PROVE  TypeOK'
  BY <1>6, EndTypes DEF NeverStarts, NoGeneration, PlanFails, WriteFails, At
<1>7. ASSUME NEW w \in Calls, Plan(w) \/ WriteBundle(w) \/ WriteManifest(w) \/ Prune(w)
      PROVE  TypeOK'
  BY <1>7, PlanTypes, WriteBundleTypes, WriteManifestTypes, PruneTypes
<1>8. ASSUME NEW d \in Domains,
             SyncManifest \/ Read(d) \/ \E g \in Generations : SyncBundle(d, g) \/ SyncPartly(d, g)
      PROVE  TypeOK'
  BY <1>8, PeerTypes
<1>9. CASE SyncManifest
  BY <1>9 DEF SyncManifest, TypeOK, directory, host, observers
<1> QED
  BY <1>1, <1>2, <1>3, <1>4, <1>5, <1>6, <1>7, <1>8, <1>9 DEF AnyStep, Next, Carry, Drive

----------------------------------------------------------------------------
(* Steps that leave the directory alone, or all publishes but one          *)

\* A publish that holds the lock after the step held it before, with what it
\* planned.
SameCall(w) ==
  Holding(w)' =>
    /\ Holding(w)
    /\ call'[w].stage = call[w].stage
    /\ call'[w].dom = call[w].dom
    /\ call'[w].data = call[w].data
    /\ call'[w].gen = call[w].gen
    /\ call'[w].entries = call[w].entries
    /\ call'[w].kept = call[w].kept

Quiet ==
  /\ UNCHANGED <<bundles, manifest, durable, mirrorManifest, reading, delivered, observers>>
  /\ \A w \in Calls : SameCall(w)

\* The steps that start, end or time out a publish, and Drive's copying.
QuietStep ==
  \/ UNCHANGED vars
  \/ Crash
  \/ \E w \in Calls :
       \/ \E d \in Domains : Publish(w, d)
       \/ TimesOut(w) \/ NeverStarts(w) \/ NoGeneration(w) \/ PlanFails(w) \/ WriteFails(w)
  \/ \E d \in Domains, g \in Generations : SyncBundle(d, g) \/ SyncPartly(d, g)

\* The steps that write no file and commit nothing are quiet.
LEMMA Quietly ==
  ASSUME TypeOK, QuietStep
  PROVE  Quiet
<1>1. CASE UNCHANGED vars
  BY <1>1 DEF Quiet, SameCall, Holding, vars, directory, host, peer, observers
<1>2. CASE Crash
  BY <1>2 DEF Crash, NoCalls, Quiet, SameCall, Holding, directory, peer, observers
<1>3. ASSUME NEW w \in Calls, NEW d \in Domains, Publish(w, d) PROVE Quiet
  BY <1>3 DEF Publish, TypeOK, Quiet, SameCall, Holding, directory, peer, observers
<1>4. ASSUME NEW w \in Calls, TimesOut(w) PROVE Quiet
  <2>1. UNCHANGED <<bundles, manifest, durable, mirrorManifest, reading, delivered, observers>>
    BY <1>4 DEF TimesOut, directory, peer
  <2>2. ASSUME NEW v \in Calls PROVE SameCall(v)
    <3>1. CASE v = w
      <4>1. call'[w] = [call[w] EXCEPT !.cancelled = TRUE] /\ call[w] \in Call /\ call[w] # None
        BY <1>4 DEF TimesOut, TypeOK
      <4> QED
        BY <3>1, <4>1 DEF SameCall, Holding, Call
    <3>2. CASE v # w
      BY <1>4, <3>2 DEF TimesOut, TypeOK, SameCall, Holding
    <3> QED
      BY <3>1, <3>2
  <2> QED
    BY <2>1, <2>2 DEF Quiet
<1>5. ASSUME NEW w \in Calls,
             NeverStarts(w) \/ NoGeneration(w) \/ PlanFails(w) \/ WriteFails(w)
      PROVE  Quiet
  <2>1. call' = [call EXCEPT ![w] = None] /\ UNCHANGED <<directory, peer, observers>>
    BY <1>5 DEF NeverStarts, NoGeneration, PlanFails, WriteFails, Ends
  <2> QED
    BY <2>1 DEF Quiet, SameCall, Holding, TypeOK, directory, peer
<1>6. ASSUME NEW d \in Domains, NEW g \in Generations, SyncBundle(d, g) \/ SyncPartly(d, g)
      PROVE  Quiet
  BY <1>6 DEF SyncBundle, SyncPartly, Quiet, SameCall, Holding, directory, host
<1> QED
  BY <1>1, <1>2, <1>3, <1>4, <1>5, <1>6 DEF QuietStep

\* What a step that carries one publish leaves of the others.
LEMMA OtherCalls ==
  ASSUME TypeOK, NEW w \in Calls, NEW v \in Calls \ {w}, NEW c,
         call' = [call EXCEPT ![w] = c]
  PROVE  SameCall(v) /\ call'[v] = call[v]
BY DEF TypeOK, SameCall, Holding

----------------------------------------------------------------------------
(* Where entries come from, even when the machine may stop                 *)

\* A call that did not move stays sourced.
LEMMA SameCallSourced ==
  ASSUME NEW w \in Calls, SourcedCall(w), SameCall(w), committed \subseteq committed'
  PROVE  SourcedCall(w)'
<1> SUFFICES ASSUME Holding(w)'
             PROVE  /\ call'[w].gen # 0
                    /\ call'[w].entries[call'[w].dom] = OwnFile(w)'
                    /\ OfDomain(call'[w].entries)
                    /\ \A d \in Domains \ {call'[w].dom} :
                         call'[w].entries[d] # None => call'[w].entries[d] \in committed'
  BY DEF SourcedCall, OfDomain
<1> QED
  BY DEF SourcedCall, SameCall, OwnFile, OfDomain

\* Quiet steps keep every entry traceable.
LEMMA QuietTraceable ==
  ASSUME Traceable, Quiet
  PROVE  Traceable'
<1>1. committed' = committed
  BY DEF Quiet, observers
<1>2. \A w \in Calls : SourcedCall(w)'
  BY <1>1, SameCallSourced DEF Traceable, Quiet
<1> QED
  BY <1>1, <1>2 DEF Traceable, Quiet, observers, Sourced, OfDomain, AllCommitted

\* A step that only carries publish w, whatever it does to the directory.
LEMMA CarryTraceable ==
  ASSUME TypeOK, Traceable, NEW w \in Calls, NEW c, call' = [call EXCEPT ![w] = c],
         committed \subseteq committed', SourcedCall(w)'
  PROVE  \A v \in Calls : SourcedCall(v)'
BY OtherCalls, SameCallSourced DEF Traceable

\* Planning keeps every entry traceable.
LEMMA PlanTraceable ==
  ASSUME TypeOK, Traceable, NEW w \in Calls, Plan(w)
  PROVE  Traceable'
<1>1. call[w] # None /\ call[w] \in Call
  BY DEF Plan, At, TypeOK
<1> DEFINE own(g) == [dom |-> call[w].dom, gen |-> g, data |-> call[w].data]
<1>2. PICK g \in Generations :
        call' = [call EXCEPT ![w] = [call[w] EXCEPT !.stage = "planned", !.gen = g,
                   !.entries = Merged(own(g)), !.kept = PreviousKept(call[w].dom)]]
  BY DEF Plan, TypeOK
<1>3. UNCHANGED <<manifest, durable, mirrorManifest, reading, delivered, previous, committed>>
  BY DEF Plan, directory, peer, observers
<1>4. call'[w] = [call[w] EXCEPT !.stage = "planned", !.gen = g,
                   !.entries = Merged(own(g)), !.kept = PreviousKept(call[w].dom)]
  BY <1>2 DEF TypeOK
<1>5. /\ call'[w].gen = g /\ call'[w].dom = call[w].dom /\ call'[w].data = call[w].data
      /\ call'[w].entries = Merged(own(g))
  BY <1>1, <1>4 DEF Call
<1>6. call[w].dom \in Domains /\ manifest.entries \in Entries
  BY <1>1 DEF Call, TypeOK, Manifest
<1>7. SourcedCall(w)'
  <2>1. Merged(own(g))[call[w].dom] = own(g)
    BY <1>6 DEF Merged, Entries
  <2>2. \A d \in Domains \ {call[w].dom} : Merged(own(g))[d] = manifest.entries[d]
    BY <1>6 DEF Merged, Entries
  <2>3. OfDomain(Merged(own(g)))
    BY <2>1, <2>2 DEF OfDomain, Traceable, Sourced
  <2>4. \A d \in Domains \ {call[w].dom} :
          Merged(own(g))[d] # None => Merged(own(g))[d] \in committed
    BY <2>2 DEF Traceable, Sourced, AllCommitted
  <2>5. g # 0
    BY DEF Generations
  <2>6. OwnFile(w)' = own(g)
    BY <1>5 DEF OwnFile
  <2> HIDE DEF own
  <2> QED
    BY <1>3, <1>5, <2>1, <2>3, <2>4, <2>5, <2>6 DEF SourcedCall, OfDomain
<1>8. \A v \in Calls : SourcedCall(v)'
  BY <1>2, <1>3, <1>7, CarryTraceable
<1> QED
  BY <1>3, <1>8 DEF Traceable, Sourced, OfDomain, AllCommitted

\* A stage change leaves the rest of the call alone.
LEMMA StageChange ==
  ASSUME TypeOK, NEW w \in Calls, call[w] # None, NEW s,
         call' = [call EXCEPT ![w].stage = s]
  PROVE  /\ call' = [call EXCEPT ![w] = [call[w] EXCEPT !.stage = s]]
         /\ call'[w].stage = s
         /\ call'[w].dom = call[w].dom
         /\ call'[w].data = call[w].data
         /\ call'[w].gen = call[w].gen
         /\ call'[w].entries = call[w].entries
         /\ call'[w].kept = call[w].kept
BY DEF TypeOK, Call

\* Moving a call to its next stage keeps all calls sourced.
LEMMA StageTraceable ==
  ASSUME TypeOK, Traceable, NEW w \in Calls, Holding(w), NEW s,
         call' = [call EXCEPT ![w].stage = s], committed \subseteq committed'
  PROVE  \A v \in Calls : SourcedCall(v)'
<1>1. SourcedCall(w)'
  BY StageChange DEF Traceable, SourcedCall, Holding, OwnFile, OfDomain
<1> QED
  BY <1>1, StageChange, CarryTraceable DEF Holding

\* Writing the bundle keeps every entry traceable.
LEMMA WriteBundleTraceable ==
  ASSUME TypeOK, Traceable, NEW w \in Calls, WriteBundle(w)
  PROVE  Traceable'
<1>1. Holding(w) /\ call' = [call EXCEPT ![w].stage = "bundled"]
  BY DEF WriteBundle, Holding, At
<1>2. UNCHANGED <<manifest, mirrorManifest, reading, delivered, previous, committed>>
  BY DEF WriteBundle, peer
<1>3. durable' \in {durable, manifest}
  BY <1>2 DEF WriteBundle, Works, Fails, Flushed
<1>4. \A v \in Calls : SourcedCall(v)'
  BY <1>1, <1>2, StageTraceable
<1> QED
  BY <1>2, <1>3, <1>4 DEF Traceable, Sourced, OfDomain, AllCommitted

\* The commit keeps every entry traceable.
LEMMA WriteManifestTraceable ==
  ASSUME TypeOK, Traceable, NEW w \in Calls, WriteManifest(w)
  PROVE  Traceable'
<1>1. Holding(w) /\ call' = [call EXCEPT ![w].stage = "committed"]
  BY DEF WriteManifest, Holding, At
<1>2. UNCHANGED <<mirrorManifest, reading, delivered>> /\ committed' = committed \cup {OwnFile(w)}
  BY DEF WriteManifest, peer
<1>3. manifest'.entries = call[w].entries /\ durable' \in {durable, manifest'}
  BY DEF WriteManifest, Works, Fails, Flushed
<1>4. Sourced(manifest.entries)'
  <2>1. SourcedCall(w)
    BY DEF Traceable
  <2>2. OfDomain(call[w].entries)
    BY <1>1, <2>1 DEF SourcedCall
  <2>3. \A d \in Domains : call[w].entries[d] # None => call[w].entries[d] \in committed'
    BY <1>1, <1>2, <2>1 DEF SourcedCall
  <2> QED
    BY <1>3, <2>2, <2>3 DEF Sourced, OfDomain, AllCommitted
<1>5. Sourced(previous)'
  <2>1. previous' = [previous EXCEPT ![call[w].dom] = manifest.entries[call[w].dom]]
    BY DEF WriteManifest
  <2>2. Sourced(manifest.entries) /\ Sourced(previous) /\ previous \in Entries
    BY DEF Traceable, TypeOK
  <2> QED
    BY <1>2, <2>1, <2>2 DEF Sourced, OfDomain, AllCommitted, Entries
<1>6. \A v \in Calls : SourcedCall(v)'
  BY <1>1, <1>2, StageTraceable
<1> QED
  <2>1. Sourced(durable.entries)'
    BY <1>2, <1>3, <1>4 DEF Traceable, Sourced, OfDomain, AllCommitted
  <2>2. Sourced(mirrorManifest.entries)' /\ Sourced(reading)' /\ Sourced(delivered)'
    BY <1>2 DEF Traceable, Sourced, OfDomain, AllCommitted
  <2> QED
    BY <1>4, <1>5, <1>6, <2>1, <2>2 DEF Traceable

\* Pruning keeps every entry traceable.
LEMMA PruneTraceable ==
  ASSUME TypeOK, Traceable, NEW w \in Calls, Prune(w)
  PROVE  Traceable'
<1>1. UNCHANGED <<manifest, durable, mirrorManifest, reading, delivered, previous, committed>>
  BY DEF Prune, peer, observers
<1>2. call' = [call EXCEPT ![w] = None]
  BY DEF Prune, Ends
<1>3. SourcedCall(w)'
  BY <1>2 DEF TypeOK, SourcedCall, Holding
<1>4. \A v \in Calls : SourcedCall(v)'
  BY <1>1, <1>2, <1>3, CarryTraceable
<1> QED
  BY <1>1, <1>4 DEF Traceable, Sourced, OfDomain, AllCommitted

\* A power loss or a damaged manifest keeps every entry traceable.
LEMMA MachineTraceable ==
  ASSUME TypeOK, Traceable, PowerLoss \/ Damage
  PROVE  Traceable'
<1>1. CASE PowerLoss
  <2>1. UNCHANGED <<mirrorManifest, reading, delivered, previous, committed>>
    BY <1>1 DEF PowerLoss, peer, observers
  <2>2. manifest' \in {manifest, durable} /\ durable' = manifest'
    BY <1>1 DEF PowerLoss
  <2>3. \A w \in Calls : SourcedCall(w)'
    BY <1>1 DEF PowerLoss, NoCalls, SourcedCall, Holding
  <2> QED
    BY <2>1, <2>2, <2>3 DEF Traceable, Sourced, OfDomain, AllCommitted
<1>2. CASE Damage
  <2>1. UNCHANGED <<mirrorManifest, reading, delivered, committed, call>>
    BY <1>2 DEF Damage, peer, host
  <2>2. manifest'.entries = NoEntries /\ durable'.entries = NoEntries /\ previous' = NoEntries
    BY <1>2 DEF Damage
  <2>3. \A d \in Domains : NoEntries[d] = None
    BY DEF NoEntries
  <2>4. \A w \in Calls : SourcedCall(w)'
    BY <2>1, SameCallSourced DEF Traceable, SameCall, Holding
  <2> QED
    BY <2>1, <2>2, <2>3, <2>4 DEF Traceable, Sourced, OfDomain, AllCommitted
<1> QED
  BY <1>1, <1>2

\* The peer only ever sees traceable entries.
LEMMA PeerTraceable ==
  ASSUME TypeOK, Traceable,
         SyncManifest \/ \E d \in Domains : Read(d)
  PROVE  Traceable' /\ UNCHANGED <<directory, host, observers>>
<1>1. UNCHANGED <<directory, host, observers>>
  BY DEF SyncManifest, Read, ReadManifest, ReadBundle
<1>2. \A w \in Calls : SourcedCall(w)'
  BY <1>1, SameCallSourced DEF Traceable, SameCall, Holding, host, observers
<1>3. Sourced(mirrorManifest.entries)' /\ Sourced(reading)' /\ Sourced(delivered)'
  <2>1. CASE SyncManifest
    BY <1>1, <2>1 DEF SyncManifest, Traceable, Sourced, OfDomain, AllCommitted, observers
  <2>2. ASSUME NEW d \in Domains, ReadManifest(d)
        PROVE  Sourced(mirrorManifest.entries)' /\ Sourced(reading)' /\ Sourced(delivered)'
    BY <1>1, <2>2 DEF ReadManifest, Traceable, Sourced, OfDomain, AllCommitted, observers,
         TypeOK, Entries
  <2>3. ASSUME NEW d \in Domains, ReadBundle(d)
        PROVE  Sourced(mirrorManifest.entries)' /\ Sourced(reading)' /\ Sourced(delivered)'
    <3>1. reading[d] \in DomainEntry /\ reading[d].dom = d /\ reading[d] \in committed
      BY <2>3 DEF ReadBundle, TypeOK, Entries, Traceable, Sourced, OfDomain, AllCommitted
    <3>2. Sourced(reading)' /\ Sourced(mirrorManifest.entries)'
      BY <1>1, <2>3 DEF ReadBundle, Traceable, Sourced, OfDomain, AllCommitted, observers,
           TypeOK, Entries
    <3>3. CASE UNCHANGED delivered
      BY <1>1, <3>2, <3>3 DEF Traceable, Sourced, OfDomain, AllCommitted, observers
    <3>4. ASSUME NEW f \in MirrorName(d, reading[d].gen), Verified(f, reading[d]),
                 delivered' = [delivered EXCEPT ![d] = f]
          PROVE  Sourced(delivered)'
      <4>1. f = reading[d]
        BY <3>1, <3>4 DEF MirrorName, Verified, TypeOK, File, DomainEntry
      <4> QED
        BY <1>1, <3>1, <3>4, <4>1 DEF Traceable, Sourced, OfDomain, AllCommitted, observers,
             TypeOK, Entries
    <3> QED
      BY <2>3, <3>2, <3>3, <3>4 DEF ReadBundle
  <2> QED
    BY <2>1, <2>2, <2>3 DEF Read
<1> QED
  BY <1>1, <1>2, <1>3 DEF Traceable, directory, observers, Sourced, OfDomain, AllCommitted

\* Every step keeps every entry traceable.
LEMMA TraceableStep ==
  ASSUME TypeOK, Traceable, AnyStep
  PROVE  Traceable'
<1>1. CASE QuietStep
  BY <1>1, Quietly, QuietTraceable
<1>2. CASE PowerLoss \/ Damage
  BY <1>2, MachineTraceable
<1>3. ASSUME NEW w \in Calls, Plan(w) \/ WriteBundle(w) \/ WriteManifest(w) \/ Prune(w)
      PROVE  Traceable'
  BY <1>3, PlanTraceable, WriteBundleTraceable, WriteManifestTraceable, PruneTraceable
<1>4. CASE SyncManifest \/ \E d \in Domains : Read(d)
  BY <1>4, PeerTraceable
<1> QED
  BY <1>1, <1>2, <1>3, <1>4 DEF AnyStep, Next, Carry, Drive, QuietStep

\* The initial state is typed and traceable.
LEMMA InitSound == Init => TypeOK /\ Traceable
<1> SUFFICES ASSUME Init PROVE TypeOK /\ Traceable
  OBVIOUS
<1>1. NoEntries \in Entries /\ Empty \in Manifest
  BY DEF NoEntries, Entries, Empty, Manifest
<1>2. 0 \in 0 .. MaxPublishes
  BY BoundsAssumption
<1>3. TypeOK
  BY <1>1, <1>2 DEF Init, TypeOK
<1>4. Sourced(NoEntries)
  BY DEF Sourced, OfDomain, AllCommitted, NoEntries
<1> QED
  BY <1>3, <1>4 DEF Init, Traceable, Empty, SourcedCall, Holding

\* What is read was verified against an entry that a manifest committed.
LEMMA SourcedReads == Traceable => ReadsAreCommitted
BY DEF Traceable, Sourced, AllCommitted, ReadsAreCommitted

\* The type invariant holds even when the machine may stop on a volume whose
\* directory flushes fail (publish.rs, peers.rs).
THEOREM TypesWithPowerLoss == PowerSpec => []TypeOK
<1>1. Init => TypeOK /\ Traceable
  BY InitSound
<1>2. TypeOK /\ Traceable /\ [Next \/ PowerLoss]_vars => TypeOK' /\ Traceable'
  BY TypeStep, TraceableStep DEF AnyStep
<1> QED
  BY <1>1, <1>2, PTL DEF PowerSpec

\* Every entry in force, planned or seen by the peer was committed, also across
\* power losses (load_manifest and the merge of entries in publish_with_hook).
THEOREM EntriesTraceable == PowerSpec => []Traceable
<1>1. Init => TypeOK /\ Traceable
  BY InitSound
<1>2. TypeOK /\ Traceable /\ [Next \/ PowerLoss]_vars => TypeOK' /\ Traceable'
  BY TypeStep, TraceableStep DEF AnyStep
<1> QED
  BY <1>1, <1>2, PTL DEF PowerSpec

\* read_bundle returns committed bundles only, however Drive reorders and tears
\* files, also when a power loss lets two contents share a file name.
THEOREM ReadsSound == PowerSpec => []ReadsAreCommitted
BY EntriesTraceable, SourcedReads, PTL

----------------------------------------------------------------------------
(* The lock: one publish between its plan and its end                      *)

\* The part of IInv that Traceable does not cover.
Rest ==
  /\ manifest.malformed => manifest.entries = NoEntries
  /\ OneHolder
  /\ NewestStays
  /\ NamesNeverReused
  /\ CommittedOnDisk
  /\ PreviousOnDisk
  /\ PeerInOrder
  /\ \A w \in Calls : PublishFits(w)

\* A call that did not move still fits an unchanged directory.
LEMMA SameCallFits ==
  ASSUME NEW w \in Calls, PublishFits(w), SameCall(w),
         UNCHANGED <<bundles, manifest, mirrorManifest, reading, delivered, observers>>
  PROVE  PublishFits(w)'
<1> SUFFICES ASSUME Holding(w)' PROVE PublishFits(w)'
  BY DEF PublishFits, At, Holding
<1>1. /\ Holding(w)
      /\ call'[w].stage = call[w].stage
      /\ call'[w].dom = call[w].dom
      /\ call'[w].data = call[w].data
      /\ call'[w].gen = call[w].gen
      /\ call'[w].entries = call[w].entries
      /\ call'[w].kept = call[w].kept
  BY DEF SameCall
<1>2. OwnFile(w)' = OwnFile(w)
  BY <1>1 DEF OwnFile
<1>3. \A s : At(w, s)' <=> At(w, s)
  BY <1>1 DEF At, Holding
<1>4. Uncommitted(w)' <=> Uncommitted(w)
  BY <1>1 DEF Uncommitted, PeerBehind, NoneAfter, Listed
<1>5. \A f : OlderThanOwn(w, f)' <=> OlderThanOwn(w, f)
  BY <1>1 DEF OlderThanOwn
<1> QED
  BY <1>1, <1>2, <1>3, <1>4, <1>5 DEF PublishFits, Listed, observers

\* Quiet steps keep the rest of the invariant.
LEMMA QuietRest ==
  ASSUME Rest, Quiet
  PROVE  Rest'
<1>1. \A w \in Calls : PublishFits(w)'
  BY SameCallFits DEF Rest, Quiet
<1>2. OneHolder'
  BY DEF Rest, Quiet, OneHolder, SameCall
<1>3. /\ bundles' = bundles /\ manifest' = manifest /\ written' = written
      /\ committed' = committed /\ previous' = previous
      /\ mirrorManifest' = mirrorManifest /\ reading' = reading /\ delivered' = delivered
  BY DEF Quiet, observers
<1> QED
  BY <1>1, <1>2, <1>3 DEF Rest, NewestStays, NamesNeverReused, SameName, CommittedOnDisk,
       Listed, PreviousOnDisk, PeerInOrder, PeerBehind, NoneAfter

\* While w runs, no other thread is past the lock.
LEMMA Alone ==
  ASSUME TypeOK, OneHolder, NEW w \in Calls, LockFree \/ Holding(w), NEW c,
         call' = [call EXCEPT ![w] = c]
  PROVE  OneHolder' /\ \A v \in Calls \ {w} : PublishFits(v)'
<1>1. ASSUME NEW v \in Calls \ {w} PROVE ~Holding(v)'
  BY OtherCalls DEF OneHolder, LockFree, SameCall
<1> QED
  BY <1>1 DEF OneHolder, PublishFits, At, Holding

----------------------------------------------------------------------------
(* A publish, step by step                                                 *)

\* The peer has only seen files that were written, so a generation that passes
\* every file of the domain passes all it has seen.
LEMMA PeerBehindNewest ==
  ASSUME TypeOK, Traceable, NewestStays, NEW d \in Domains, NEW g \in Generations,
         NEW entry, entry.gen = g,
         \A f \in written : f.dom = d => f.gen < g
  PROVE  /\ NoneAfter(delivered[d], entry)
         /\ NoneAfter(reading[d], entry)
         /\ NoneAfter(mirrorManifest.entries[d], entry)
<1>1. \A e \in DomainEntry : e \in committed /\ e.dom = d => e.gen <= g
  BY DEF NewestStays, DomainEntry, Generations
<1>2. ASSUME NEW entries \in Entries, Sourced(entries)
      PROVE  NoneAfter(entries[d], entry)
  BY <1>1, <1>2 DEF Sourced, OfDomain, AllCommitted, NoneAfter, Entries
<1> QED
  BY <1>2 DEF Traceable, TypeOK, Manifest

\* Planning keeps the rest of the invariant.
LEMMA PlanRest ==
  ASSUME TypeOK, Traceable, Rest, NEW w \in Calls, Plan(w)
  PROVE  Rest'
<1>1. call[w] # None /\ call[w] \in Call /\ LockFree
  BY DEF Plan, At, TypeOK
<1> DEFINE own(g) == [dom |-> call[w].dom, gen |-> g, data |-> call[w].data]
<1>2. PICK g \in Generations :
        /\ \A other \in Generations : Used(call[w].dom, other) => other < g
        /\ call' = [call EXCEPT ![w] = [call[w] EXCEPT !.stage = "planned", !.gen = g,
                      !.entries = Merged(own(g)), !.kept = PreviousKept(call[w].dom)]]
  BY DEF Plan, TypeOK
<1>3. /\ bundles' = bundles /\ manifest' = manifest /\ written' = written
      /\ committed' = committed /\ previous' = previous
      /\ mirrorManifest' = mirrorManifest /\ reading' = reading /\ delivered' = delivered
  BY DEF Plan, directory, peer, observers
<1>4. call'[w] = [call[w] EXCEPT !.stage = "planned", !.gen = g,
                    !.entries = Merged(own(g)), !.kept = PreviousKept(call[w].dom)]
  BY <1>2 DEF TypeOK
<1>5. /\ call'[w].stage = "planned"
      /\ call'[w].gen = g /\ call'[w].dom = call[w].dom /\ call'[w].data = call[w].data
      /\ call'[w].entries = Merged(own(g)) /\ call'[w].kept = PreviousKept(call[w].dom)
  BY <1>1, <1>4 DEF Call
<1>6. call[w].dom \in Domains /\ manifest.entries \in Entries
  BY <1>1 DEF Call, TypeOK, Manifest
<1>7. Merged(own(g))[call[w].dom] = own(g)
  BY <1>6 DEF Merged, Entries
<1>8. \A d \in Domains \ {call[w].dom} : Merged(own(g))[d] = manifest.entries[d]
  BY <1>6 DEF Merged, Entries
<1>9. own(g).gen = g
  OBVIOUS
<1> HIDE DEF own
<1>10. \A f \in written : f.dom = call[w].dom => f.gen < g
  <2> SUFFICES ASSUME NEW f \in written, f.dom = call[w].dom PROVE f.gen < g
    OBVIOUS
  <2>1. PICK b \in bundles : b.dom = f.dom /\ b.gen >= f.gen
    BY DEF Rest, NewestStays
  <2>2. b.gen \in Generations /\ f.gen \in Generations
    BY <2>1 DEF TypeOK, DomainEntry
  <2>3. b.gen < g
    BY <1>2, <2>1, <2>2 DEF Used
  <2> QED
    BY <2>1, <2>2, <2>3 DEF Generations
<1>11. PeerBehind(Merged(own(g)))
  <2> SUFFICES ASSUME NEW d \in Domains
               PROVE  /\ NoneAfter(delivered[d], Merged(own(g))[d])
                      /\ NoneAfter(reading[d], Merged(own(g))[d])
                      /\ NoneAfter(mirrorManifest.entries[d], Merged(own(g))[d])
    BY DEF PeerBehind
  <2>1. CASE d = call[w].dom
    BY <1>7, <1>9, <1>10, <2>1, PeerBehindNewest DEF Rest
  <2>2. CASE d # call[w].dom
    BY <1>8, <2>2 DEF Rest, PeerInOrder, PeerBehind
  <2> QED
    BY <2>1, <2>2
<1>12. Uncommitted(w)'
  <2>1. ASSUME NEW d \in Domains \ {call[w].dom}
        PROVE  /\ Merged(own(g))[d] # None => Merged(own(g))[d] \in bundles
               /\ manifest.entries[d] = Merged(own(g))[d]
    BY <1>8 DEF Rest, CommittedOnDisk, Listed
  <2>2. Listed(call[w].dom) => manifest.entries[call[w].dom].gen \in PreviousKept(call[w].dom)
    BY DEF PreviousKept
  <2>3. PeerBehind(call[w].entries)'
    BY <1>3, <1>5, <1>11 DEF PeerBehind, NoneAfter
  <2> QED
    BY <1>3, <1>5, <2>1, <2>2, <2>3 DEF Uncommitted, Listed
<1>13. PublishFits(w)'
  BY <1>3, <1>5, <1>10, <1>12 DEF PublishFits, At, OlderThanOwn
<1>14. OneHolder' /\ \A v \in Calls \ {w} : PublishFits(v)'
  BY <1>1, <1>2, Alone DEF Rest
<1> QED
  BY <1>3, <1>13, <1>14 DEF Rest, NewestStays, NamesNeverReused, SameName, CommittedOnDisk,
       Listed, PreviousOnDisk, PeerInOrder, PeerBehind, NoneAfter

\* Writing the bundle keeps the rest of the invariant.
LEMMA WriteBundleRest ==
  ASSUME TypeOK, Traceable, Rest, NEW w \in Calls, WriteBundle(w)
  PROVE  Rest'
<1> DEFINE own == OwnFile(w)
<1>1. /\ Holding(w) /\ At(w, "planned") /\ call[w] # None
      /\ call' = [call EXCEPT ![w].stage = "bundled"]
      /\ bundles' = {f \in bundles : ~SameName(f, own)} \cup {own}
      /\ written' = written \cup {own}
      /\ manifest' = manifest /\ committed' = committed /\ previous' = previous
      /\ mirrorManifest' = mirrorManifest /\ reading' = reading /\ delivered' = delivered
  BY DEF WriteBundle, Holding, At, peer
<1>2. /\ Uncommitted(w) /\ \A f \in written : OlderThanOwn(w, f)
  BY <1>1 DEF Rest, PublishFits
<1>3. own \in DomainEntry /\ own.dom = call[w].dom /\ own.gen = call[w].gen
  BY <1>1, HolderGeneration DEF OwnFile
<1>4. \A f \in written : ~SameName(f, own)
  BY <1>2, <1>3 DEF OlderThanOwn, SameName, TypeOK, DomainEntry, Generations
<1>5. bundles' = bundles \cup {own}
  BY <1>1, <1>4 DEF Rest, NewestStays
<1>6. /\ call'[w].stage = "bundled" /\ call'[w].dom = call[w].dom
      /\ call'[w].data = call[w].data /\ call'[w].gen = call[w].gen
      /\ call'[w].entries = call[w].entries /\ call'[w].kept = call[w].kept
  BY <1>1, StageChange
<1>7. OwnFile(w)' = own
  BY <1>6 DEF OwnFile
<1>8. own \notin committed
  BY <1>4 DEF Rest, NewestStays, SameName
<1> HIDE DEF own
<1>9. Uncommitted(w)'
  BY <1>1, <1>2, <1>5, <1>6 DEF Uncommitted, Listed, PeerBehind, NoneAfter
<1>10. PublishFits(w)'
  BY <1>1, <1>2, <1>5, <1>6, <1>7, <1>8, <1>9 DEF PublishFits, At, OlderThanOwn
<1>11. OneHolder' /\ \A v \in Calls \ {w} : PublishFits(v)'
  BY <1>1, StageChange, Alone DEF Rest
<1>12. NewestStays'
  <2>1. bundles' \subseteq written' /\ committed' \subseteq written'
    BY <1>1, <1>5 DEF Rest, NewestStays
  <2>2. own.gen >= own.gen
    BY <1>3 DEF DomainEntry, Generations
  <2> QED
    BY <1>1, <1>5, <2>1, <2>2 DEF Rest, NewestStays
<1>13. NamesNeverReused'
  BY <1>1, <1>4 DEF Rest, NamesNeverReused, SameName
<1> QED
  BY <1>1, <1>5, <1>10, <1>11, <1>12, <1>13 DEF Rest, CommittedOnDisk,
       Listed, PreviousOnDisk, PeerInOrder, PeerBehind, NoneAfter

\* The commit keeps the rest of the invariant.
LEMMA WriteManifestRest ==
  ASSUME TypeOK, Traceable, Rest, NEW w \in Calls, WriteManifest(w)
  PROVE  Rest'
<1> DEFINE own == OwnFile(w)
           entries == call[w].entries
           dom == call[w].dom
<1>1. /\ Holding(w) /\ At(w, "bundled") /\ call[w] # None
      /\ call' = [call EXCEPT ![w].stage = "committed"]
      /\ manifest' = [malformed |-> FALSE, entries |-> entries]
      /\ committed' = committed \cup {own}
      /\ previous' = [previous EXCEPT ![dom] = manifest.entries[dom]]
      /\ bundles' = bundles /\ written' = written
      /\ mirrorManifest' = mirrorManifest /\ reading' = reading /\ delivered' = delivered
  BY DEF WriteManifest, Holding, At, peer
<1>2. /\ Uncommitted(w) /\ own \in bundles
      /\ \A f \in written : f = own \/ OlderThanOwn(w, f)
  BY <1>1 DEF Rest, PublishFits
<1>3. own \in DomainEntry /\ dom \in Domains /\ entries[dom] = own
  BY <1>1, HolderGeneration, CallFields DEF Traceable, SourcedCall
<1>4. /\ call'[w].stage = "committed" /\ call'[w].dom = dom
      /\ call'[w].gen = call[w].gen /\ call'[w].kept = call[w].kept
      /\ OwnFile(w)' = own
  BY <1>1, StageChange DEF OwnFile
<1>5. manifest'.entries = entries /\ ~manifest'.malformed
  BY <1>1
<1>6. previous'[dom] = manifest.entries[dom] /\ \A d \in Domains \ {dom} : previous'[d] = previous[d]
  BY <1>1, <1>3 DEF TypeOK, Entries
<1> HIDE DEF own, entries, dom
<1>7. CommittedOnDisk'
  BY <1>1, <1>2, <1>3, <1>5 DEF CommittedOnDisk, Listed, Uncommitted, entries, dom
<1>8. PreviousOnDisk'
  <2>1. manifest.entries[dom] # None => manifest.entries[dom] \in bundles
    BY <1>3 DEF Rest, CommittedOnDisk, Listed
  <2> QED
    BY <1>1, <1>6, <2>1 DEF Rest, PreviousOnDisk
<1>9. PeerInOrder'
  BY <1>1, <1>2, <1>5 DEF Rest, PeerInOrder, PeerBehind, NoneAfter, Uncommitted, entries
<1>10. PublishFits(w)'
  <2>1. previous'[dom] # None => previous'[dom].gen \in call[w].kept
    BY <1>2, <1>6 DEF Uncommitted, Listed, dom
  <2>2. \A f \in written : f = own \/ (f.dom = dom => f.gen < call[w].gen)
    BY <1>2 DEF OlderThanOwn, dom
  <2> QED
    BY <1>1, <1>2, <1>3, <1>4, <1>5, <2>1, <2>2 DEF PublishFits, At, OlderThanOwn, Listed
<1>11. OneHolder' /\ \A v \in Calls \ {w} : PublishFits(v)'
  BY <1>1, StageChange, Alone DEF Rest
<1>12. NewestStays' /\ NamesNeverReused'
  BY <1>1, <1>2 DEF Rest, NewestStays, NamesNeverReused, SameName
<1> QED
  BY <1>5, <1>7, <1>8, <1>9, <1>10, <1>11, <1>12 DEF Rest

\* Pruning keeps the rest of the invariant.
LEMMA PruneRest ==
  ASSUME TypeOK, Traceable, Rest, NEW w \in Calls, Prune(w)
  PROVE  Rest'
<1> DEFINE dom == call[w].dom
           stays(f) == f.dom = dom => f.gen \in {call[w].gen} \cup call[w].kept
<1>1. /\ Holding(w) /\ At(w, "committed")
      /\ call' = [call EXCEPT ![w] = None]
      /\ bundles' \subseteq bundles
      /\ \A f \in bundles : stays(f) => f \in bundles'
      /\ manifest' = manifest /\ committed' = committed /\ previous' = previous
      /\ written' = written
      /\ mirrorManifest' = mirrorManifest /\ reading' = reading /\ delivered' = delivered
  BY DEF Prune, Holding, At, Ends, peer, observers
<1>2. /\ OwnFile(w) \in bundles
      /\ \A f \in written : f = OwnFile(w) \/ OlderThanOwn(w, f)
      /\ Listed(dom) => manifest.entries[dom] = OwnFile(w)
      /\ previous[dom] # None => previous[dom].gen \in call[w].kept
  BY <1>1 DEF Rest, PublishFits
<1>3. /\ OwnFile(w) \in DomainEntry /\ dom \in Domains
      /\ OwnFile(w).dom = dom /\ OwnFile(w).gen = call[w].gen
  BY <1>1, HolderGeneration, CallFields DEF OwnFile, Holding
<1>4. OwnFile(w) \in bundles'
  BY <1>1, <1>2, <1>3
<1>5. CommittedOnDisk'
  <2> SUFFICES ASSUME NEW d \in Domains, manifest.entries[d] # None
               PROVE  manifest.entries[d] \in bundles'
    BY <1>1 DEF CommittedOnDisk, Listed
  <2>1. manifest.entries[d] \in bundles /\ manifest.entries[d].dom = d
    BY DEF Rest, CommittedOnDisk, Listed, Traceable, Sourced, OfDomain
  <2>2. CASE d = dom
    BY <1>2, <1>4, <2>2 DEF Listed
  <2>3. CASE d # dom
    BY <1>1, <2>1, <2>3
  <2> QED
    BY <2>2, <2>3
<1>6. PreviousOnDisk'
  <2> SUFFICES ASSUME NEW d \in Domains, previous[d] # None
               PROVE  previous[d] \in bundles'
    BY <1>1 DEF PreviousOnDisk
  <2>1. previous[d] \in bundles /\ previous[d].dom = d
    BY DEF Rest, PreviousOnDisk, Traceable, Sourced, OfDomain
  <2>2. stays(previous[d])
    BY <1>2, <2>1
  <2> QED
    BY <1>1, <2>1, <2>2
<1>7. NewestStays'
  <2>1. ASSUME NEW f \in written
        PROVE  \E b \in bundles' : b.dom = f.dom /\ b.gen >= f.gen
    <3>1. f \in DomainEntry
      BY DEF TypeOK
    <3>2. CASE f.dom = dom
      <4>1. OwnFile(w).gen >= f.gen
        BY <1>2, <1>3, <3>1, <3>2 DEF OlderThanOwn, DomainEntry, Generations
      <4> QED
        BY <1>3, <1>4, <3>2, <4>1
    <3>3. CASE f.dom # dom
      <4>1. PICK b \in bundles : b.dom = f.dom /\ b.gen >= f.gen
        BY DEF Rest, NewestStays
      <4>2. b \in bundles'
        BY <1>1, <3>3, <4>1
      <4> QED
        BY <4>1, <4>2
    <3> QED
      BY <3>2, <3>3
  <2> QED
    BY <1>1, <2>1 DEF Rest, NewestStays
<1>8. OneHolder' /\ \A v \in Calls \ {w} : PublishFits(v)'
  BY <1>1, Alone DEF Rest
<1>9. PublishFits(w)'
  BY <1>1 DEF PublishFits, At, TypeOK
<1> HIDE DEF dom, stays
<1> QED
  BY <1>1, <1>5, <1>6, <1>7, <1>8, <1>9 DEF Rest, NamesNeverReused, SameName,
       PeerInOrder, PeerBehind, NoneAfter

----------------------------------------------------------------------------
(* Damage, and the peer's reads                                            *)

\* A damaged manifest keeps the rest of the invariant.
LEMMA DamageRest ==
  ASSUME TypeOK, Rest, Damage
  PROVE  Rest'
<1>1. /\ manifest'.entries = NoEntries /\ manifest'.malformed /\ previous' = NoEntries
      /\ bundles' = bundles /\ call' = call /\ written' = written /\ committed' = committed
      /\ mirrorManifest' = mirrorManifest /\ reading' = reading /\ delivered' = delivered
  BY DEF Damage, host, peer
<1>2. \A d \in Domains : NoEntries[d] = None
  BY DEF NoEntries
<1>3. \A w \in Calls : Holding(w) => call[w].dom \in Domains
  BY CallFields DEF Holding
<1>4. ASSUME NEW w \in Calls PROVE PublishFits(w)'
  <2>1. PublishFits(w) /\ (\A s : At(w, s)' <=> At(w, s)) /\ OwnFile(w)' = OwnFile(w)
    BY <1>1 DEF Rest, At, OwnFile
  <2>2. Holding(w) => ~Listed(call[w].dom)' /\ previous'[call[w].dom] = None
    BY <1>1, <1>2, <1>3 DEF Listed
  <2>3. Holding(w) /\ Uncommitted(w) => Uncommitted(w)'
    BY <1>1, <2>2 DEF Uncommitted, PeerBehind, NoneAfter, Listed
  <2>4. \A f : OlderThanOwn(w, f)' <=> OlderThanOwn(w, f)
    BY <1>1 DEF OlderThanOwn
  <2>5. \A s \in {"planned", "bundled", "committed"} : At(w, s) => Holding(w)
    BY DEF At, Holding
  <2> QED
    BY <1>1, <2>1, <2>2, <2>3, <2>4, <2>5 DEF PublishFits
<1>5. OneHolder' /\ NewestStays' /\ NamesNeverReused'
  BY <1>1 DEF Rest, OneHolder, Holding, NewestStays, NamesNeverReused, SameName
<1>6. CommittedOnDisk' /\ PreviousOnDisk'
  BY <1>1, <1>2 DEF CommittedOnDisk, PreviousOnDisk, Listed
<1>7. PeerInOrder'
  BY <1>1, <1>2 DEF Rest, PeerInOrder, PeerBehind, NoneAfter
<1> QED
  BY <1>1, <1>4, <1>5, <1>6, <1>7 DEF Rest

\* The peer's reads keep the rest of the invariant.
LEMMA PeerRest ==
  ASSUME TypeOK, Traceable, Rest, SyncManifest \/ \E d \in Domains : Read(d)
  PROVE  Rest'
<1>1. /\ bundles' = bundles /\ manifest' = manifest /\ call' = call /\ written' = written
      /\ committed' = committed /\ previous' = previous
  BY DEF SyncManifest, Read, ReadManifest, ReadBundle, directory, host, observers
<1>2. \A entries : PeerBehind(entries) /\ (\A d \in Domains : NoneAfter(manifest.entries[d], entries[d]))
        => /\ \A d \in Domains : /\ NoneAfter(delivered'[d], entries[d])
                                 /\ NoneAfter(reading'[d], entries[d])
                                 /\ NoneAfter(mirrorManifest'.entries[d], entries[d])
  <2> SUFFICES ASSUME NEW entries, PeerBehind(entries), NEW d \in Domains,
                      NoneAfter(manifest.entries[d], entries[d])
               PROVE  /\ NoneAfter(delivered'[d], entries[d])
                      /\ NoneAfter(reading'[d], entries[d])
                      /\ NoneAfter(mirrorManifest'.entries[d], entries[d])
    OBVIOUS
  <2>1. CASE SyncManifest
    BY <2>1 DEF SyncManifest, PeerBehind
  <2>2. ASSUME NEW e \in Domains, ReadManifest(e)
        PROVE  /\ NoneAfter(delivered'[d], entries[d])
               /\ NoneAfter(reading'[d], entries[d])
               /\ NoneAfter(mirrorManifest'.entries[d], entries[d])
    BY <2>2 DEF ReadManifest, PeerBehind, TypeOK, Entries
  <2>3. ASSUME NEW e \in Domains, ReadBundle(e)
        PROVE  /\ NoneAfter(delivered'[d], entries[d])
               /\ NoneAfter(reading'[d], entries[d])
               /\ NoneAfter(mirrorManifest'.entries[d], entries[d])
    <3>1. mirrorManifest' = mirrorManifest /\ reading' = [reading EXCEPT ![e] = None]
      BY <2>3 DEF ReadBundle
    <3>2. reading'[d] \in {None, reading[d]}
      BY <3>1 DEF TypeOK, Entries
    <3>3. delivered'[d] = delivered[d] \/ (delivered'[d].gen = reading[d].gen /\ reading[d] # None)
      BY <2>3 DEF ReadBundle, MirrorName, TypeOK, Entries
    <3> QED
      BY <3>1, <3>2, <3>3 DEF PeerBehind, NoneAfter
  <2> QED
    BY <2>1, <2>2, <2>3 DEF Read
<1>3. \A d \in Domains : NoneAfter(manifest.entries[d], manifest.entries[d])
  BY DEF TypeOK, Manifest, Entries, DomainEntry, Generations, NoneAfter
<1>4. PeerBehind(manifest.entries)'
  BY <1>1, <1>2, <1>3 DEF Rest, PeerInOrder, PeerBehind
<1>5. ASSUME NEW d \in Domains
      PROVE  /\ NoneAfter(delivered'[d], reading'[d])
             /\ NoneAfter(delivered'[d], mirrorManifest'.entries[d])
             /\ NoneAfter(reading'[d], mirrorManifest'.entries[d])
  <2>1. CASE SyncManifest
    BY <2>1 DEF SyncManifest, Rest, PeerInOrder, PeerBehind
  <2>2. ASSUME NEW e \in Domains, ReadManifest(e)
        PROVE  /\ NoneAfter(delivered'[d], reading'[d])
               /\ NoneAfter(delivered'[d], mirrorManifest'.entries[d])
               /\ NoneAfter(reading'[d], mirrorManifest'.entries[d])
    <3>1. /\ delivered' = delivered /\ mirrorManifest' = mirrorManifest
          /\ reading' = [reading EXCEPT ![e] = mirrorManifest.entries[e]]
      BY <2>2 DEF ReadManifest
    <3>2. NoneAfter(mirrorManifest.entries[d], mirrorManifest.entries[d])
      BY DEF TypeOK, Manifest, Entries, DomainEntry, Generations, NoneAfter
    <3>3. reading'[d] = reading[d] \/ reading'[d] = mirrorManifest.entries[d]
      BY <3>1 DEF TypeOK, Entries
    <3> QED
      BY <3>1, <3>2, <3>3 DEF Rest, PeerInOrder
  <2>3. ASSUME NEW e \in Domains, ReadBundle(e)
        PROVE  /\ NoneAfter(delivered'[d], reading'[d])
               /\ NoneAfter(delivered'[d], mirrorManifest'.entries[d])
               /\ NoneAfter(reading'[d], mirrorManifest'.entries[d])
    <3>1. /\ mirrorManifest' = mirrorManifest
          /\ reading' = [reading EXCEPT ![e] = None]
          /\ \/ delivered' = delivered
             \/ \E f \in MirrorName(e, reading[e].gen) : delivered' = [delivered EXCEPT ![e] = f]
          /\ reading[e] # None
      BY <2>3 DEF ReadBundle
    <3>2. CASE d = e
      <4>1. reading'[d] = None
        BY <3>1, <3>2 DEF TypeOK, Entries
      <4>2. delivered'[d] = delivered[d] \/ delivered'[d].gen = reading[d].gen
        BY <3>1, <3>2 DEF TypeOK, Entries, MirrorName
      <4> QED
        BY <3>1, <3>2, <4>1, <4>2 DEF Rest, PeerInOrder, NoneAfter
    <3>3. CASE d # e
      <4>1. reading'[d] = reading[d] /\ delivered'[d] = delivered[d]
        BY <3>1, <3>3 DEF TypeOK, Entries
      <4> QED
        BY <3>1, <4>1 DEF Rest, PeerInOrder
    <3> QED
      BY <3>2, <3>3
  <2> QED
    BY <2>1, <2>2, <2>3 DEF Read
<1>6. PeerInOrder'
  BY <1>4, <1>5 DEF PeerInOrder
<1>7. ASSUME NEW w \in Calls PROVE PublishFits(w)'
  <2>1. PublishFits(w) /\ (\A s : At(w, s)' <=> At(w, s)) /\ OwnFile(w)' = OwnFile(w)
    BY <1>1 DEF Rest, At, OwnFile
  <2>2. \A f : OlderThanOwn(w, f)' <=> OlderThanOwn(w, f)
    BY <1>1 DEF OlderThanOwn
  <2>3. ASSUME At(w, "planned") \/ At(w, "bundled"), Uncommitted(w),
               \A f \in written : f = OwnFile(w) \/ OlderThanOwn(w, f)
        PROVE  Uncommitted(w)'
    <3>1. ASSUME NEW d \in Domains
          PROVE  NoneAfter(manifest.entries[d], call[w].entries[d])
      <4>1. CASE d = call[w].dom
        <5>1. /\ call[w].entries[d] = OwnFile(w) /\ OwnFile(w).gen = call[w].gen
              /\ OwnFile(w) \in DomainEntry
          BY <2>3, <4>1, HolderGeneration DEF Traceable, SourcedCall, Holding, At, OwnFile
        <5>2. ASSUME manifest.entries[d] # None
              PROVE  /\ manifest.entries[d] \in written /\ manifest.entries[d].dom = d
                     /\ manifest.entries[d].gen \in Nat
          BY <5>2 DEF Traceable, Sourced, OfDomain, AllCommitted, Rest, NewestStays, TypeOK,
               DomainEntry, Generations
        <5>3. call[w].gen \in Nat
          BY <5>1 DEF DomainEntry, Generations
        <5> QED
          BY <2>3, <4>1, <5>1, <5>2, <5>3 DEF NoneAfter, OlderThanOwn
      <4>2. CASE d # call[w].dom
        <5>1. CASE manifest.malformed
          BY <5>1 DEF Rest, NoEntries, NoneAfter
        <5>2. CASE ~manifest.malformed
          BY <1>3, <2>3, <4>2, <5>2 DEF Uncommitted
        <5> QED
          BY <5>1, <5>2
      <4> QED
        BY <4>1, <4>2
    <3>2. PeerBehind(call[w].entries)'
      BY <1>1, <1>2, <2>3, <3>1 DEF Uncommitted, PeerBehind
    <3> QED
      BY <1>1, <2>3, <3>2 DEF Uncommitted, Listed
  <2> QED
    BY <1>1, <2>1, <2>2, <2>3 DEF PublishFits, Listed
<1> QED
  BY <1>1, <1>6, <1>7 DEF Rest, OneHolder, Holding, NewestStays, NamesNeverReused, SameName,
       CommittedOnDisk, PreviousOnDisk, Listed

----------------------------------------------------------------------------
(* The invariants of a folder whose machine keeps running                  *)

\* The inductive invariant is types, traceability and the rest.
LEMMA RestParts == IInv <=> TypeOK /\ Traceable /\ Rest
BY DEF IInv, Rest

\* The initial state satisfies the rest of the invariant.
LEMMA InitRest == Init => Rest
<1> SUFFICES ASSUME Init PROVE Rest
  OBVIOUS
<1>1. \A d \in Domains : NoEntries[d] = None
  BY DEF NoEntries
<1> QED
  BY <1>1 DEF Init, Empty, Rest, OneHolder, Holding, NewestStays, NamesNeverReused,
       CommittedOnDisk, PreviousOnDisk, Listed, PeerInOrder, PeerBehind, NoneAfter,
       PublishFits, At

\* Every step of a machine that does not stop keeps the rest.
LEMMA RestStep ==
  ASSUME TypeOK, Traceable, Rest, [Next]_vars
  PROVE  Rest'
<1>1. CASE QuietStep
  BY <1>1, Quietly, QuietRest
<1>2. CASE Damage
  BY <1>2, DamageRest
<1>3. ASSUME NEW w \in Calls, Plan(w) \/ WriteBundle(w) \/ WriteManifest(w) \/ Prune(w)
      PROVE  Rest'
  BY <1>3, PlanRest, WriteBundleRest, WriteManifestRest, PruneRest
<1>4. CASE SyncManifest \/ \E d \in Domains : Read(d)
  BY <1>4, PeerRest
<1> QED
  BY <1>1, <1>2, <1>3, <1>4 DEF Next, Carry, Drive, QuietStep

\* The inductive invariant of the folder: lock, traces on disk and order of what
\* the peer sees (publish_with_hook, prune_generations, read_bundle).
THEOREM FolderInvariant == Spec => []IInv
<1>1. Init => IInv
  BY InitSound, InitRest, RestParts
<1>2. IInv /\ [Next]_vars => IInv'
  <2> SUFFICES ASSUME IInv, [Next]_vars PROVE IInv'
    OBVIOUS
  <2>1. TypeOK /\ Traceable /\ Rest /\ AnyStep
    BY RestParts DEF AnyStep
  <2>2. TypeOK' /\ Traceable' /\ Rest'
    BY <2>1, TypeStep, TraceableStep, RestStep
  <2> QED
    BY <2>2 DEF IInv, Rest
<1> QED
  BY <1>1, <1>2, PTL DEF Spec

\* The manifest never names a bundle that is not there (bundle first, manifest
\* last, prune keeps what is named).
THEOREM ManifestSound == Spec => []CommittedOnDisk
<1>1. IInv => CommittedOnDisk
  BY DEF IInv
<1> QED
  BY <1>1, FolderInvariant, PTL

\* The generation before the committed one is never pruned under a reader.
THEOREM PreviousSurvives == Spec => []PreviousOnDisk
<1>1. IInv => PreviousOnDisk
  BY DEF IInv
<1> QED
  BY <1>1, FolderInvariant, PTL

\* Across crashes and failed writes, a bundle file name never gets a second
\* content.
THEOREM NamesUnique == Spec => []NamesNeverReused
<1>1. IInv => NamesNeverReused
  BY DEF IInv
<1> QED
  BY <1>1, FolderInvariant, PTL

\* No step takes an entry back, unless the manifest is damaged.
LEMMA EntriesStep ==
  ASSUME IInv, [Next]_vars, NEW d \in Domains, Listed(d), ~manifest'.malformed
  PROVE  manifest'.entries[d] # None /\ manifest'.entries[d].gen >= manifest.entries[d].gen
<1>1. manifest.entries[d] # None /\ manifest.entries[d].gen \in Nat
  BY DEF Listed, IInv, TypeOK, Manifest, Entries, DomainEntry, Generations
<1>2. CASE manifest' = manifest
  BY <1>1, <1>2
<1>3. ASSUME NEW w \in Calls, WriteManifest(w)
      PROVE  manifest'.entries[d] # None /\ manifest'.entries[d].gen >= manifest.entries[d].gen
  <2>1. /\ manifest'.entries = call[w].entries /\ Holding(w) /\ At(w, "bundled")
    BY <1>3 DEF WriteManifest, At, Holding
  <2>2. /\ Uncommitted(w) /\ OwnFile(w) \notin committed
        /\ \A f \in written : f = OwnFile(w) \/ OlderThanOwn(w, f)
    BY <2>1 DEF IInv, PublishFits
  <2>3. ~manifest.malformed
    BY <1>1 DEF IInv, NoEntries
  <2>4. CASE d # call[w].dom
    BY <1>1, <2>1, <2>2, <2>3, <2>4 DEF Uncommitted
  <2>5. CASE d = call[w].dom
    <3>1. /\ manifest.entries[d] \in committed /\ manifest.entries[d] \in written
          /\ manifest.entries[d].dom = d
      BY <1>1 DEF IInv, Traceable, Sourced, OfDomain, AllCommitted, NewestStays
    <3>2. manifest.entries[d].gen < call[w].gen
      BY <2>2, <2>5, <3>1 DEF OlderThanOwn
    <3>3. /\ call[w].entries[d] = OwnFile(w) /\ OwnFile(w).gen = call[w].gen
          /\ OwnFile(w) \in DomainEntry
      BY <2>1, <2>5, HolderGeneration DEF IInv, Traceable, SourcedCall, OwnFile
    <3>4. OwnFile(w) # None /\ call[w].gen \in Nat
      BY <3>3, NoneAssumption DEF DomainEntry, Generations
    <3> QED
      BY <1>1, <2>1, <3>2, <3>3, <3>4
  <2> QED
    BY <2>4, <2>5
<1>4. CASE Damage
  BY <1>4 DEF Damage
<1> QED
  BY <1>2, <1>3, <1>4 DEF Next, Carry, Drive, Read, Publish, TimesOut, NeverStarts, Plan,
       NoGeneration, PlanFails, WriteBundle, WriteFails, Prune, Crash, SyncBundle, SyncPartly,
       SyncManifest, ReadManifest, ReadBundle, directory, vars

\* A publish of one domain never drops or rolls back another one's entry.
THEOREM EntriesNeverFallBack == Spec => EntriesAdvance
<1>1. IInv /\ [Next]_vars
        => [\A d \in Domains : Listed(d) /\ ~manifest'.malformed =>
              /\ manifest'.entries[d] # None
              /\ manifest'.entries[d].gen >= manifest.entries[d].gen]_manifest
  BY EntriesStep
<1> QED
  BY <1>1, FolderInvariant, PTL DEF Spec, EntriesAdvance

\* No step makes the peer's newest read older.
LEMMA ReadsStep ==
  ASSUME IInv, [Next]_vars, NEW d \in Domains, delivered[d] # None
  PROVE  delivered'[d].gen >= delivered[d].gen
<1>1. delivered[d].gen \in Nat
  BY DEF IInv, TypeOK, Entries, DomainEntry, Generations
<1>2. CASE delivered' = delivered
  BY <1>1, <1>2
<1>3. ASSUME NEW e \in Domains, ReadBundle(e)
      PROVE  delivered'[d].gen >= delivered[d].gen
  <2>1. delivered'[d] = delivered[d] \/ (delivered'[d].gen = reading[d].gen /\ reading[d] # None)
    BY <1>3 DEF ReadBundle, MirrorName, IInv, TypeOK, Entries
  <2>2. reading[d] # None => reading[d].gen \in Nat /\ delivered[d].gen <= reading[d].gen
    BY DEF IInv, TypeOK, Entries, DomainEntry, Generations, PeerInOrder, NoneAfter
  <2> QED
    BY <1>1, <2>1, <2>2
<1> QED
  BY <1>2, <1>3 DEF Next, Carry, Drive, Read, Publish, TimesOut, NeverStarts, Plan,
       NoGeneration, PlanFails, WriteBundle, WriteManifest, WriteFails, Prune, Crash, Damage,
       SyncBundle, SyncPartly, SyncManifest, ReadManifest, peer, vars

\* A peer never goes back to an older bundle than it has read.
THEOREM ReadsNeverFallBack == Spec => ReadsAdvance
<1>1. IInv /\ [Next]_vars
        => [\A d \in Domains :
              delivered[d] # None => delivered'[d].gen >= delivered[d].gen]_delivered
  BY ReadsStep
<1> QED
  BY <1>1, FolderInvariant, PTL DEF Spec, ReadsAdvance
=============================================================================
