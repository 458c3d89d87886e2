-------------------------- MODULE PublisherProofs --------------------------
(***************************************************************************)
(* Proofs about Publisher: types and the shape of the queues for any       *)
(* number of engine instances, then what one engine instance guarantees.   *)
(***************************************************************************)
EXTENDS Publisher, SequenceTheorems, TLAPS

----------------------------------------------------------------------------
(* Operations on a queue                                                   *)

\* fence.latest marks operations without touching anything else of them.
LEMMA SupersedeOps ==
  ASSUME NEW ops \in Seq(Op), NEW d \in Domains
  PROVE  /\ Supersede(ops, d) \in Seq(Op)
         /\ Len(Supersede(ops, d)) = Len(ops)
         /\ \A i \in 1 .. Len(ops) :
              LET op == Supersede(ops, d)[i] IN
              /\ op.dom = ops[i].dom
              /\ op.cover = ops[i].cover
              /\ op.abandoned = ops[i].abandoned
              /\ op.stage = ops[i].stage
<1> DEFINE mark(i) == IF ops[i].dom = d THEN [ops[i] EXCEPT !.superseded = TRUE]
                                        ELSE ops[i]
           marked == [i \in 1 .. Len(ops) |-> mark(i)]
<1>1. Supersede(ops, d) = marked
  BY LenProperties DEF Supersede
<1>2. \A i \in 1 .. Len(ops) :
        /\ mark(i) \in Op
        /\ mark(i).dom = ops[i].dom
        /\ mark(i).cover = ops[i].cover
        /\ mark(i).abandoned = ops[i].abandoned
        /\ mark(i).stage = ops[i].stage
  <2> SUFFICES ASSUME NEW i \in 1 .. Len(ops)
               PROVE  /\ mark(i) \in Op
                      /\ mark(i).dom = ops[i].dom
                      /\ mark(i).cover = ops[i].cover
                      /\ mark(i).abandoned = ops[i].abandoned
                      /\ mark(i).stage = ops[i].stage
    OBVIOUS
  <2>1. ops[i] \in Op
    BY ElementOfSeq
  <2> QED
    BY <2>1 DEF Op
<1>3. marked \in [1 .. Len(ops) -> Op]
  BY <1>2
<1>4. Len(ops) \in Nat
  BY LenProperties
<1>5. /\ marked \in Seq(Op)
      /\ Len(marked) = Len(ops)
  BY <1>3, <1>4
<1>6. \A i \in 1 .. Len(ops) : marked[i] = mark(i)
  OBVIOUS
<1> QED
  BY <1>1, <1>2, <1>5, <1>6

\* The engine gives up on the last operation, which goes on.
LEMMA AbandonOps ==
  ASSUME NEW ops \in Seq(Op)
  PROVE  /\ Abandon(ops) \in Seq(Op)
         /\ Len(Abandon(ops)) = Len(ops)
         /\ \A i \in 1 .. Len(ops) :
              LET op == Abandon(ops)[i] IN
              /\ op.dom = ops[i].dom
              /\ op.cover = ops[i].cover
              /\ op.stage = ops[i].stage
              /\ ~op.abandoned => i # Len(ops) /\ ~ops[i].abandoned
<1> DEFINE drop(i) == IF i = Len(ops) THEN [ops[i] EXCEPT !.abandoned = TRUE]
                                      ELSE ops[i]
           dropped == [i \in 1 .. Len(ops) |-> drop(i)]
<1>1. Abandon(ops) = dropped
  BY LenProperties DEF Abandon
<1>2. \A i \in 1 .. Len(ops) :
        /\ drop(i) \in Op
        /\ drop(i).dom = ops[i].dom
        /\ drop(i).cover = ops[i].cover
        /\ drop(i).stage = ops[i].stage
        /\ ~drop(i).abandoned => i # Len(ops) /\ ~ops[i].abandoned
  <2> SUFFICES ASSUME NEW i \in 1 .. Len(ops)
               PROVE  /\ drop(i) \in Op
                      /\ drop(i).dom = ops[i].dom
                      /\ drop(i).cover = ops[i].cover
                      /\ drop(i).stage = ops[i].stage
                      /\ ~drop(i).abandoned => i # Len(ops) /\ ~ops[i].abandoned
    OBVIOUS
  <2>1. ops[i] \in Op
    BY ElementOfSeq
  <2> QED
    BY <2>1 DEF Op
<1>3. dropped \in [1 .. Len(ops) -> Op]
  BY <1>2
<1>4. Len(ops) \in Nat
  BY LenProperties
<1>5. /\ dropped \in Seq(Op)
      /\ Len(dropped) = Len(ops)
  BY <1>3, <1>4
<1>6. \A i \in 1 .. Len(ops) : dropped[i] = drop(i)
  OBVIOUS
<1> QED
  BY <1>1, <1>2, <1>5, <1>6

\* The head operation goes on to another stage.
LEMMA StageOps ==
  ASSUME NEW ops \in Seq(Op), ops # << >>, NEW stage \in Stages
  PROVE  LET staged == [ops EXCEPT ![1].stage = stage] IN
         /\ staged \in Seq(Op)
         /\ Len(staged) = Len(ops)
         /\ \A i \in 1 .. Len(ops) :
              /\ staged[i].dom = ops[i].dom
              /\ staged[i].cover = ops[i].cover
              /\ staged[i].abandoned = ops[i].abandoned
              /\ staged[i].stage = IF i = 1 THEN stage ELSE ops[i].stage
<1> DEFINE head == [ops[1] EXCEPT !.stage = stage]
           staged == [ops EXCEPT ![1].stage = stage]
<1>1. 1 \in 1 .. Len(ops)
  BY EmptySeq
<1>2. ops[1] \in Op
  BY <1>1, ElementOfSeq
<1>3. /\ head \in Op
      /\ head.dom = ops[1].dom
      /\ head.cover = ops[1].cover
      /\ head.abandoned = ops[1].abandoned
      /\ head.stage = stage
  BY <1>2 DEF Op
<1>4. staged = [ops EXCEPT ![1] = head]
  OBVIOUS
<1>5. /\ staged \in Seq(Op)
      /\ Len(staged) = Len(ops)
      /\ \A i \in 1 .. Len(ops) : staged[i] = IF i = 1 THEN head ELSE ops[i]
  BY <1>1, <1>3, <1>4, ExceptSeq
<1> QED
  BY <1>3, <1>5

\* The first operation leaves.
LEMMA TailOps ==
  ASSUME NEW ops \in Seq(Op), ops # << >>
  PROVE  /\ Head(ops) = ops[1]
         /\ ops[1] \in Op
         /\ Tail(ops) \in Seq(Op)
         /\ Len(Tail(ops)) = Len(ops) - 1
         /\ \A i \in 1 .. Len(Tail(ops)) :
              /\ i + 1 \in 1 .. Len(ops)
              /\ Tail(ops)[i] = ops[i + 1]
<1>1. Len(ops) \in Nat \ {0}
  BY EmptySeq
<1>2. Head(ops) = ops[1]
  BY <1>1
<1> QED
  BY <1>1, <1>2, HeadTailProperties

\* A queue that changes leaves the others alone.
LEMMA QueueUpdate ==
  ASSUME NEW queues \in [Engines -> [Transports -> Seq(Op)]],
         NEW e \in Engines, NEW t \in Transports, NEW ops \in Seq(Op)
  PROVE  LET new == [queues EXCEPT ![e][t] = ops] IN
         /\ new \in [Engines -> [Transports -> Seq(Op)]]
         /\ new[e][t] = ops
         /\ \A e2 \in Engines, t2 \in Transports :
              ~(e2 = e /\ t2 = t) => new[e2][t2] = queues[e2][t2]
OBVIOUS

----------------------------------------------------------------------------
(* The shape of queues, lock and run                                       *)

QueueType == [Engines -> [Transports -> Seq(Op)]]

\* While no run awaits, every operation left in a queue is an abandoned one.
LEMMA NothingAwaited ==
  ASSUME TypeOK, OpsShape, run = None \/ run.awaiting = None
  PROVE  \A e \in Engines, t \in Transports :
           \A i \in 1 .. Len(queue[e][t]) : queue[e][t][i].abandoned
<1> SUFFICES ASSUME NEW e \in Engines, NEW t \in Transports,
                    NEW i \in 1 .. Len(queue[e][t])
             PROVE  queue[e][t][i].abandoned
  OBVIOUS
<1>1. queue[e][t][i] \in Op
  BY ElementOfSeq DEF TypeOK
<1>2. queue[e][t][i].dom # None
  BY <1>1, ConstantsAssumption DEF Op
<1>3. OpShape(e, t, i)
  BY DEF OpsShape
<1> QED
  BY <1>2, <1>3 DEF OpShape

\* Steps of the run between two transport calls leave queues and lock alone.
LEMMA RunOnlyShape ==
  ASSUME TypeOK, Shape, run = None \/ run.awaiting = None,
         UNCHANGED <<queue, writer>>
  PROVE  Shape'
<1>1. OpsShape'
  BY NothingAwaited DEF Shape, OpsShape, OpShape
<1>2. LockShape'
  BY DEF Shape, LockShape, WriterShape, Owns, Busy
<1> QED
  BY <1>1, <1>2 DEF Shape

\* When the head of a queue settles, the operations behind it move up, and the
\* run is done waiting exactly when the head was the awaited one.
LEMMA SettleShape ==
  ASSUME TypeOK, OpsShape, NEW e \in Engines, NEW t \in Transports, NEW outcome,
         Busy(e, t), Settle(e, t, outcome)
  PROVE  /\ queue' \in QueueType
         /\ queue'[e][t] = Tail(queue[e][t])
         /\ \A e2 \in Engines, t2 \in Transports :
              ~(e2 = e /\ t2 = t) => queue'[e2][t2] = queue[e2][t2]
         /\ Busy(e, t)' => queue'[e][t][1].stage = "queued"
         /\ publishedAt' \in [Engines -> [Domains -> Nat]]
         /\ known' \in [Engines -> SUBSET Domains]
         /\ run' \in Run \cup {None}
         /\ repairs' \in Nat
         /\ UNCHANGED <<current, routed>>
         /\ OpsShape'
<1> DEFINE ops == queue[e][t]
           op == ops[1]
<1>1. /\ ops \in Seq(Op) /\ ops # << >>
      /\ queue \in QueueType
  BY DEF TypeOK, Busy, QueueType
<1>2. /\ HeadOp(e, t) = op
      /\ op \in Op
      /\ Tail(ops) \in Seq(Op)
      /\ Len(Tail(ops)) = Len(ops) - 1
      /\ \A i \in 1 .. Len(Tail(ops)) :
           i + 1 \in 1 .. Len(ops) /\ Tail(ops)[i] = ops[i + 1]
      /\ Len(ops) \in Nat \ {0}
  BY <1>1, TailOps, EmptySeq DEF HeadOp
<1>3. queue' = [queue EXCEPT ![e][t] = Tail(ops)]
  BY DEF Settle
<1>4. /\ queue' \in QueueType
      /\ queue'[e][t] = Tail(ops)
      /\ \A e2 \in Engines, t2 \in Transports :
           ~(e2 = e /\ t2 = t) => queue'[e2][t2] = queue[e2][t2]
  BY <1>1, <1>2, <1>3, QueueUpdate DEF QueueType
<1>5. Busy(e, t)' => queue'[e][t][1].stage = "queued"
  <2> HAVE Busy(e, t)'
  <2>1. 1 \in 1 .. Len(Tail(ops))
    BY <1>2, <1>4, EmptySeq DEF Busy
  <2>2. 2 \in 1 .. Len(ops) /\ Tail(ops)[1] = ops[2]
    BY <1>2, <2>1
  <2>3. OpShape(e, t, 2)
    BY <2>2 DEF OpsShape
  <2> QED
    BY <1>4, <2>2, <2>3 DEF OpShape
<1>6. CASE op.abandoned
  <2>1. RepairAfterLatePublish(e, op.dom)
    BY <1>2, <1>6 DEF Settle
  <2>2. OpsShape'
    <3> SUFFICES ASSUME NEW e2 \in Engines, NEW t2 \in Transports,
                        NEW i \in 1 .. Len(queue'[e2][t2])
                 PROVE  OpShape(e2, t2, i)'
      BY DEF OpsShape
    <3>1. run' = run
      BY <2>1 DEF RepairAfterLatePublish
    <3>2. CASE e2 = e /\ t2 = t
      <4>1. /\ i + 1 \in 1 .. Len(ops)
            /\ queue'[e2][t2][i] = ops[i + 1]
            /\ Len(queue'[e2][t2]) = Len(ops) - 1
        BY <1>2, <1>4, <3>2
      <4>2. OpShape(e, t, i + 1)
        BY <4>1 DEF OpsShape
      <4> QED
        BY <3>1, <3>2, <4>1, <4>2 DEF OpShape
    <3>3. CASE ~(e2 = e /\ t2 = t)
      <4>1. queue'[e2][t2] = queue[e2][t2]
        BY <1>4, <3>3
      <4>2. OpShape(e2, t2, i)
        BY <4>1 DEF OpsShape
      <4> QED
        BY <3>1, <4>1, <4>2 DEF OpShape
    <3> QED
      BY <3>2, <3>3
  <2>3. /\ publishedAt' \in [Engines -> [Domains -> Nat]]
        /\ known' \in [Engines -> SUBSET Domains]
        /\ run' \in Run \cup {None}
        /\ repairs' \in Nat
    BY <1>2, <2>1 DEF RepairAfterLatePublish, TypeOK, Op
  <2> QED
    BY <1>4, <1>5, <2>2, <2>3 DEF Settle
<1>7. CASE ~op.abandoned
  <2>1. OpShape(e, t, 1)
    BY <1>2 DEF OpsShape
  <2>2. /\ run \in Run /\ run.eng = e /\ run.awaiting = op.dom
        /\ Len(ops) = 1
        /\ Carrier[op.dom] = t
    BY <1>7, <2>1 DEF OpShape, TypeOK
  <2>3. \A e2 \in Engines, t2 \in Transports :
          \A i \in 1 .. Len(queue'[e2][t2]) :
            /\ ~(e2 = e /\ t2 = t)
            /\ OpShape(e2, t2, i)
            /\ queue[e2][t2][i].abandoned
    <3> SUFFICES ASSUME NEW e2 \in Engines, NEW t2 \in Transports,
                        NEW i \in 1 .. Len(queue'[e2][t2])
                 PROVE  /\ ~(e2 = e /\ t2 = t)
                        /\ OpShape(e2, t2, i)
                        /\ queue[e2][t2][i].abandoned
      OBVIOUS
    <3>1. ~(e2 = e /\ t2 = t)
      <4>1. Len(Tail(ops)) = 0
        BY <1>2, <2>2
      <4>2. Len(queue'[e2][t2]) # 0
        OBVIOUS
      <4> QED
        BY <1>4, <4>1, <4>2
    <3>2. queue'[e2][t2] = queue[e2][t2]
      BY <1>4, <3>1
    <3>3. OpShape(e2, t2, i)
      BY <3>2 DEF OpsShape
    <3> QED
      BY <2>2, <3>1, <3>3 DEF OpShape
  <2>4. OpsShape'
    BY <1>4, <2>3 DEF OpsShape, OpShape
  <2>5. Published(e, op) \/ NotPublished(e, op, outcome)
    BY <1>2, <1>7 DEF Settle
  <2>6. CASE Published(e, op)
    <3>1. run' \in Run
      BY <1>2, <2>2, <2>6 DEF Published, Run, Op
    <3>2. op.dom \in Domains /\ op.cover \in Nat
      BY <1>2 DEF Op
    <3>3. publishedAt' \in [Engines -> [Domains -> Nat]]
      BY <2>6, <3>2 DEF Published, TypeOK
    <3>4. known' \in [Engines -> SUBSET Domains]
      BY <2>6, <3>2 DEF Published, TypeOK
    <3>5. repairs' \in Nat
      BY <2>6 DEF Published, TypeOK
    <3> QED
      BY <1>4, <1>5, <2>4, <3>1, <3>3, <3>4, <3>5 DEF Settle
  <2>7. CASE NotPublished(e, op, outcome)
    <3> DEFINE stale  == run.superseded \/ outcome = "stale_publish"
               failing == run.failed \/ outcome = "failed"
    <3>a. /\ stale \in BOOLEAN
          /\ failing \in BOOLEAN
      OBVIOUS
    <3>b. run' = [run EXCEPT !.awaiting = None, !.superseded = stale, !.failed = failing]
      BY <2>7 DEF NotPublished
    <3> HIDE DEF stale, failing
    <3>1. run' \in Run
      BY <2>2, <3>a, <3>b DEF Run
    <3> QED
      BY <1>4, <1>5, <2>4, <2>7, <3>1 DEF NotPublished, Settle, TypeOK
  <2> QED
    BY <2>5, <2>6, <2>7
<1> QED
  BY <1>6, <1>7

\* Changing or republishing in the database keeps types and shape.
LEMMA DatabaseTypes ==
  ASSUME TypeOK, Shape,
         \/ \E touched \in SUBSET Domains : Edit(touched)
         \/ Republish
         \/ RepublishFails
  PROVE  TypeOK' /\ Shape'
<1>1. UNCHANGED <<disk, memory, run, queue, writer>>
  BY DEF Edit, Republish, RepublishFails, memory
<1>2. Shape'
  BY <1>1 DEF Shape, OpsShape, LockShape, OpShape, WriterShape, Owns, Busy, memory
<1>3. /\ changeCounter' \in Nat
      /\ changedAt' \in [Domains -> Nat]
      /\ edits' \in [Domains -> SUBSET Nat]
      /\ lastPublish' \in Nat
      /\ editCount' \in Nat
      /\ repairs' \in Nat
      /\ faults' \in Nat
  <2>1. ASSUME NEW touched \in SUBSET Domains, Edit(touched)
        PROVE  <1>3!:
    BY <2>1 DEF Edit, BumpChangeCounter, TypeOK
  <2>2. CASE Republish
    BY <2>2 DEF Republish, BumpChangeCounter, TypeOK
  <2>3. CASE RepublishFails
    BY <2>3 DEF RepublishFails, Fault, TypeOK, database
  <2> QED
    BY <2>1, <2>2, <2>3
<1> QED
  BY <1>1, <1>2, <1>3 DEF TypeOK, disk, memory

\* Counting a fault keeps the fault counter a number.
LEMMA FaultTypes ==
  ASSUME TypeOK, Fault
  PROVE  faults' \in Nat
BY DEF Fault, TypeOK

\* The run's own steps that touch no queue keep types and shape.
LEMMA RunTypes ==
  ASSUME TypeOK, Shape,
         \/ StartRun
         \/ \E d \in Domains : NoTransport(d) \/ CleanDomain(d) \/ DomainFails(d)
         \/ FinishRun
         \/ MarkFails
  PROVE  TypeOK' /\ Shape'
<1>1. /\ run = None \/ run.awaiting = None
      /\ UNCHANGED <<queue, writer>>
  BY DEF StartRun, NoTransport, CleanDomain, DomainFails, FinishRun, MarkFails, Looping
<1>2. Shape'
  BY <1>1, RunOnlyShape
<1>3. CASE StartRun
  <2>1. run' \in Run
    BY <1>3 DEF StartRun, Run, TypeOK
  <2> QED
    BY <1>2, <1>3, <2>1 DEF StartRun, TypeOK, database, disk, memory
<1>4. ASSUME NEW d \in Domains, NoTransport(d)
      PROVE  TypeOK'
  <2>1. run \in Run
    BY <1>4 DEF NoTransport, Looping, TypeOK
  <2>2. run' \in Run
    BY <1>4, <2>1 DEF NoTransport, Run
  <2> QED
    BY <1>4, <2>2 DEF NoTransport, TypeOK, database, disk, memory
<1>5. ASSUME NEW d \in Domains, CleanDomain(d)
      PROVE  TypeOK'
  <2>1. run \in Run
    BY <1>5 DEF CleanDomain, Looping, TypeOK
  <2>2. run' \in Run
    BY <1>5, <2>1 DEF CleanDomain, Run
  <2>3. known' \in [Engines -> SUBSET Domains]
    BY <1>5 DEF CleanDomain, TypeOK
  <2> QED
    BY <1>5, <2>2, <2>3 DEF CleanDomain, TypeOK, database, disk
<1>6. ASSUME NEW d \in Domains, DomainFails(d)
      PROVE  TypeOK'
  <2>1. run \in Run
    BY <1>6 DEF DomainFails, Looping, TypeOK
  <2>2. run' \in Run
    BY <1>6, <2>1 DEF DomainFails, Run
  <2>3. faults' \in Nat
    BY <1>6, FaultTypes DEF DomainFails
  <2> QED
    BY <1>6, <2>2, <2>3 DEF DomainFails, TypeOK, database, disk, memory
<1>7. CASE FinishRun
  <2>1. run \in Run
    BY <1>7 DEF FinishRun, Looping, TypeOK
  <2>2. lastPublish' \in Nat
    BY <1>7, <2>1 DEF FinishRun, NextPublishCounter, TypeOK, Run
  <2> QED
    BY <1>2, <1>7, <2>2 DEF FinishRun, TypeOK, disk, memory
<1>8. CASE MarkFails
  BY <1>2, <1>8 DEF MarkFails, Fault, TypeOK, database, disk, memory
<1> QED
  BY <1>2, <1>3, <1>4, <1>5, <1>6, <1>7, <1>8

\* The queue after a publish call: one more operation, the others marked at most.
Enqueued(e, t, d) ==
  /\ queue' \in QueueType
  /\ Len(queue[e][t]) \in Nat
  /\ Len(queue'[e][t]) = Len(queue[e][t]) + 1
  /\ queue'[e][t] # << >>
  /\ \A i \in 1 .. Len(queue[e][t]) :
       /\ queue[e][t][i] \in Op
       /\ queue'[e][t][i].dom = queue[e][t][i].dom
       /\ queue'[e][t][i].cover = queue[e][t][i].cover
       /\ queue'[e][t][i].abandoned = queue[e][t][i].abandoned
       /\ queue'[e][t][i].stage = queue[e][t][i].stage
  /\ queue'[e][t][Len(queue[e][t]) + 1] =
       [dom |-> d, cover |-> changeCounter, superseded |-> FALSE,
        abandoned |-> FALSE, stage |-> "queued"]
  /\ \A e2 \in Engines, t2 \in Transports :
       ~(e2 = e /\ t2 = t) => queue'[e2][t2] = queue[e2][t2]

\* Handing a bundle over appends one operation and supersedes the older ones.
LEMMA PublishQueue ==
  ASSUME TypeOK, NEW d \in Domains, PublishDomain(d),
         NEW e \in Engines, e = run.eng, NEW t \in Transports, t = Carrier[d]
  PROVE  Enqueued(e, t, d)
<1> DEFINE old == Supersede(queue[e][t], d)
           op  == [dom |-> d, cover |-> changeCounter, superseded |-> FALSE,
                   abandoned |-> FALSE, stage |-> "queued"]
<1>1. op \in Op
  BY DEF TypeOK, Op, Stages
<1>2. /\ queue \in QueueType
      /\ queue[e][t] \in Seq(Op)
      /\ Len(queue[e][t]) \in Nat
      /\ \A i \in 1 .. Len(queue[e][t]) : queue[e][t][i] \in Op
  <2>1. queue \in QueueType /\ queue[e][t] \in Seq(Op)
    BY DEF TypeOK, QueueType
  <2>2. Len(queue[e][t]) \in Nat
    BY <2>1, LenProperties
  <2>3. ASSUME NEW i \in 1 .. Len(queue[e][t])
        PROVE  queue[e][t][i] \in Op
    BY <2>1, <2>3, ElementOfSeq
  <2> QED
    BY <2>1, <2>2, <2>3
<1>3. /\ old \in Seq(Op)
      /\ Len(old) = Len(queue[e][t])
      /\ \A i \in 1 .. Len(old) :
           /\ old[i].dom = queue[e][t][i].dom
           /\ old[i].cover = queue[e][t][i].cover
           /\ old[i].abandoned = queue[e][t][i].abandoned
           /\ old[i].stage = queue[e][t][i].stage
  BY <1>2, SupersedeOps
<1>4. queue' = [queue EXCEPT ![e][t] = Append(old, op)]
  BY DEF PublishDomain
<1> HIDE DEF old, op
<1>5. /\ Append(old, op) \in Seq(Op)
      /\ Append(old, op) # << >>
      /\ Len(Append(old, op)) = Len(old) + 1
      /\ \A i \in 1 .. Len(old) : Append(old, op)[i] = old[i]
      /\ Append(old, op)[Len(old) + 1] = op
  BY <1>1, <1>3, AppendProperties
<1>6. /\ queue' \in QueueType
      /\ queue'[e][t] = Append(old, op)
      /\ \A e2 \in Engines, t2 \in Transports :
           ~(e2 = e /\ t2 = t) => queue'[e2][t2] = queue[e2][t2]
  BY <1>2, <1>4, <1>5, QueueUpdate DEF QueueType
<1>7. queue'[e][t][Len(queue[e][t]) + 1] = op
  BY <1>3, <1>5, <1>6
<1>8. /\ Len(queue'[e][t]) = Len(queue[e][t]) + 1
      /\ queue'[e][t] # << >>
  BY <1>3, <1>5, <1>6 
<1>9. ASSUME NEW i \in 1 .. Len(queue[e][t])
      PROVE  /\ queue'[e][t][i].dom = queue[e][t][i].dom
             /\ queue'[e][t][i].cover = queue[e][t][i].cover
             /\ queue'[e][t][i].abandoned = queue[e][t][i].abandoned
             /\ queue'[e][t][i].stage = queue[e][t][i].stage
  <2>1. queue'[e][t][i] = old[i] /\ i \in 1 .. Len(old)
    BY <1>3, <1>5, <1>6, <1>9
  <2> QED
    BY <1>3, <2>1
<1> QED
  BY <1>2, <1>6, <1>7, <1>8, <1>9 DEF op, Enqueued

\* Handing a bundle over keeps types and shape.
LEMMA PublishTypes ==
  ASSUME TypeOK, Shape, NEW d \in Domains, PublishDomain(d)
  PROVE  TypeOK' /\ Shape'
<1>1. run \in Run /\ run.awaiting = None
  BY DEF PublishDomain, Looping, TypeOK
<1>2. PICK e \in Engines : e = run.eng
  BY <1>1 DEF Run
<1>3. PICK t \in Transports : t = Carrier[d]
  BY ConstantsAssumption
<1> DEFINE n == Len(queue[e][t])
<1>4. /\ queue' \in QueueType
      /\ n \in Nat
      /\ Len(queue'[e][t]) = n + 1
      /\ queue'[e][t] # << >>
      /\ \A i \in 1 .. Len(queue[e][t]) :
           /\ queue[e][t][i] \in Op
           /\ queue'[e][t][i].dom = queue[e][t][i].dom
           /\ queue'[e][t][i].cover = queue[e][t][i].cover
           /\ queue'[e][t][i].abandoned = queue[e][t][i].abandoned
           /\ queue'[e][t][i].stage = queue[e][t][i].stage
      /\ queue'[e][t][n + 1] =
           [dom |-> d, cover |-> changeCounter, superseded |-> FALSE,
            abandoned |-> FALSE, stage |-> "queued"]
      /\ queue'[e][t][n + 1].dom = d
      /\ queue'[e][t][n + 1].stage = "queued"
      /\ \A e2 \in Engines, t2 \in Transports :
           ~(e2 = e /\ t2 = t) => queue'[e2][t2] = queue[e2][t2]
  <2>1. Enqueued(e, t, d)
    BY <1>2, <1>3, PublishQueue
  <2>2. queue'[e][t][n + 1].dom = d /\ queue'[e][t][n + 1].stage = "queued"
    BY <2>1 DEF Enqueued
  <2> QED
    BY <2>1, <2>2 DEF Enqueued
<1>5. /\ run' \in Run /\ run' # None
      /\ run'.awaiting = d
      /\ run'.eng = e
  <2>1. run' = [run EXCEPT !.awaiting = d, !.todo = @ \ {d}]
    BY DEF PublishDomain
  <2>2. run' \in Run /\ run'.awaiting = d /\ run'.eng = e
    BY <1>1, <1>2, <2>1 DEF Run
  <2> QED
    BY <2>2, NoneAssumption
<1>6. OpsShape'
  <2> SUFFICES ASSUME NEW e2 \in Engines, NEW t2 \in Transports,
                      NEW i \in 1 .. Len(queue'[e2][t2])
               PROVE  OpShape(e2, t2, i)'
    BY DEF OpsShape
  <2>1. \A e3 \in Engines, t3 \in Transports :
          \A j \in 1 .. Len(queue[e3][t3]) : queue[e3][t3][j].abandoned
    BY <1>1, NothingAwaited DEF Shape
  <2>2. CASE ~(e2 = e /\ t2 = t)
    <3>1. queue'[e2][t2] = queue[e2][t2]
      BY <1>4, <2>2
    <3>2. OpShape(e2, t2, i) /\ queue[e2][t2][i].abandoned
      BY <2>1, <3>1 DEF Shape, OpsShape
    <3> QED
      BY <3>1, <3>2 DEF OpShape
  <2>3. CASE e2 = e /\ t2 = t /\ i \in 1 .. n
    <3>1. OpShape(e, t, i) /\ queue[e][t][i].abandoned
      BY <2>1, <2>3 DEF Shape, OpsShape
    <3> QED
      BY <1>4, <2>3, <3>1 DEF OpShape
  <2>4. CASE e2 = e /\ t2 = t /\ i = n + 1
    BY <1>3, <1>4, <1>5, <2>4 DEF OpShape
  <2> QED
    BY <1>4, <2>2, <2>3, <2>4
<1>7. LockShape'
  <2>1. UNCHANGED writer
    BY DEF PublishDomain
  <2> SUFFICES ASSUME NEW e2 \in Engines, NEW t2 \in Transports
               PROVE  WriterShape(e2, t2)'
    BY <2>1 DEF Shape, LockShape
  <2>2. WriterShape(e2, t2)
    BY DEF Shape, LockShape
  <2>3. CASE ~(e2 = e /\ t2 = t)
    BY <1>4, <2>1, <2>2, <2>3 DEF WriterShape, Owns, Busy
  <2>4. CASE e2 = e /\ t2 = t /\ ~Busy(e, t)
    <3>1. n = 0
      BY <2>4, EmptySeq DEF Busy
    <3>2. queue'[e][t][1].stage # "writing"
      BY <1>4, <3>1
    <3> QED
      BY <2>1, <2>2, <2>4, <3>2 DEF WriterShape, Owns
  <2>5. CASE e2 = e /\ t2 = t /\ Busy(e, t)
    <3>1. 1 \in 1 .. n
      BY <2>5, EmptySeq DEF Busy, TypeOK
    <3>2. /\ queue'[e][t][1].dom = queue[e][t][1].dom
          /\ queue'[e][t][1].cover = queue[e][t][1].cover
          /\ queue'[e][t][1].stage = queue[e][t][1].stage
      BY <1>4, <3>1
    <3>3. Busy(e2, t2)' /\ Busy(e2, t2)
      BY <1>4, <2>5 DEF Busy
    <3> QED
      BY <2>1, <2>2, <2>5, <3>2, <3>3 DEF WriterShape, Owns
  <2> QED
    BY <2>3, <2>4, <2>5
<1> QED
  BY <1>4, <1>5, <1>6, <1>7
     DEF PublishDomain, Shape, QueueType, TypeOK, database, disk, memory

\* Giving an operation up keeps types and shape.
LEMMA EngineTimeoutTypes ==
  ASSUME TypeOK, Shape, EngineTimeout
  PROVE  TypeOK' /\ Shape'
<1>1. run \in Run /\ run.awaiting \in Domains
  BY DEF EngineTimeout, TypeOK, Run
<1>2. PICK e \in Engines : e = run.eng
  BY <1>1 DEF Run
<1>3. PICK t \in Transports : t = Carrier[run.awaiting]
  BY <1>1, ConstantsAssumption
<1> DEFINE left == Abandon(queue[e][t])
<1>4. /\ queue \in QueueType
      /\ queue[e][t] \in Seq(Op)
  BY DEF TypeOK, QueueType
<1>5. /\ left \in Seq(Op)
      /\ Len(left) = Len(queue[e][t])
      /\ \A i \in 1 .. Len(left) :
           /\ left[i].dom = queue[e][t][i].dom
           /\ left[i].cover = queue[e][t][i].cover
           /\ left[i].stage = queue[e][t][i].stage
           /\ ~left[i].abandoned => i # Len(left) /\ ~queue[e][t][i].abandoned
  BY <1>4, AbandonOps
<1>6. queue' = [queue EXCEPT ![e][t] = left]
  BY <1>2, <1>3 DEF EngineTimeout
<1> HIDE DEF left
<1>7. /\ queue' \in QueueType
      /\ queue'[e][t] = left
      /\ \A e2 \in Engines, t2 \in Transports :
           ~(e2 = e /\ t2 = t) => queue'[e2][t2] = queue[e2][t2]
  BY <1>4, <1>5, <1>6, QueueUpdate DEF QueueType
<1>8. run' \in Run
  BY <1>1 DEF EngineTimeout, Run
<1>9. OpsShape'
  <2> SUFFICES ASSUME NEW e2 \in Engines, NEW t2 \in Transports,
                      NEW i \in 1 .. Len(queue'[e2][t2])
               PROVE  OpShape(e2, t2, i)'
    BY DEF OpsShape
  <2>1. CASE ~(e2 = e /\ t2 = t)
    <3>1. queue'[e2][t2] = queue[e2][t2]
      BY <1>7, <2>1
    <3>2. OpShape(e2, t2, i)
      BY <3>1 DEF Shape, OpsShape
    <3>3. queue[e2][t2][i].abandoned
      BY <1>2, <1>3, <2>1, <3>2 DEF OpShape
    <3> QED
      BY <3>1, <3>2, <3>3 DEF OpShape
  <2>2. CASE e2 = e /\ t2 = t
    <3>1. OpShape(e, t, i) /\ i \in 1 .. Len(left)
      BY <1>5, <1>7, <2>2 DEF Shape, OpsShape
    <3>2. left[i].abandoned
      BY <1>5, <3>1 DEF OpShape
    <3>3. /\ queue'[e2][t2][i].dom = queue[e][t][i].dom
          /\ queue'[e2][t2][i].abandoned
          /\ queue'[e2][t2][i].stage = queue[e][t][i].stage
      BY <1>5, <1>7, <2>2, <3>1, <3>2
    <3> QED
      BY <2>2, <3>1, <3>3 DEF OpShape
  <2> QED
    BY <2>1, <2>2
<1>10. LockShape'
  <2>1. UNCHANGED writer
    BY DEF EngineTimeout
  <2> SUFFICES ASSUME NEW e2 \in Engines, NEW t2 \in Transports
               PROVE  WriterShape(e2, t2)'
    BY <2>1 DEF Shape, LockShape
  <2>2. WriterShape(e2, t2)
    BY DEF Shape, LockShape
  <2>3. CASE ~(e2 = e /\ t2 = t)
    BY <1>7, <2>1, <2>2, <2>3 DEF WriterShape, Owns, Busy
  <2>4. CASE e2 = e /\ t2 = t
    <3>1. Busy(e, t)' <=> Busy(e, t)
      BY <1>4, <1>5, <1>7, EmptySeq DEF Busy
    <3>2. ASSUME Busy(e, t)
          PROVE  /\ queue'[e][t][1].dom = queue[e][t][1].dom
                 /\ queue'[e][t][1].cover = queue[e][t][1].cover
                 /\ queue'[e][t][1].stage = queue[e][t][1].stage
      BY <1>4, <1>5, <1>7, <3>2, EmptySeq DEF Busy
    <3> QED
      BY <2>1, <2>2, <2>4, <3>1, <3>2 DEF WriterShape, Owns
  <2> QED
    BY <2>3, <2>4
<1>11. faults' \in Nat
  BY FaultTypes DEF EngineTimeout
<1> QED
  BY <1>7, <1>8, <1>9, <1>10, <1>11
     DEF EngineTimeout, Shape, QueueType, TypeOK, database, disk, memory

\* What a head that goes on to another stage keeps.
LEMMA StageShape ==
  ASSUME TypeOK, OpsShape, NEW e \in Engines, NEW t \in Transports,
         NEW stage \in Stages, Busy(e, t), SetStage(e, t, stage)
  PROVE  /\ queue' \in QueueType
         /\ Len(queue'[e][t]) = Len(queue[e][t])
         /\ Busy(e, t)'
         /\ \A i \in 1 .. Len(queue[e][t]) :
              /\ queue'[e][t][i].dom = queue[e][t][i].dom
              /\ queue'[e][t][i].cover = queue[e][t][i].cover
              /\ queue'[e][t][i].abandoned = queue[e][t][i].abandoned
              /\ queue'[e][t][i].stage =
                   IF i = 1 THEN stage ELSE queue[e][t][i].stage
         /\ \A e2 \in Engines, t2 \in Transports :
              ~(e2 = e /\ t2 = t) => queue'[e2][t2] = queue[e2][t2]
         /\ 1 \in 1 .. Len(queue[e][t])
         /\ OpsShape'
<1> DEFINE ops    == queue[e][t]
           staged == [ops EXCEPT ![1].stage = stage]
<1>1. /\ queue \in QueueType
      /\ ops \in Seq(Op)
      /\ ops # << >>
      /\ 1 \in 1 .. Len(ops)
  BY EmptySeq DEF TypeOK, QueueType, Busy
<1>2. /\ staged \in Seq(Op)
      /\ Len(staged) = Len(ops)
      /\ \A i \in 1 .. Len(ops) :
           /\ staged[i].dom = ops[i].dom
           /\ staged[i].cover = ops[i].cover
           /\ staged[i].abandoned = ops[i].abandoned
           /\ staged[i].stage = IF i = 1 THEN stage ELSE ops[i].stage
  BY <1>1, StageOps
<1>3. queue' = [queue EXCEPT ![e][t] = staged]
  BY DEF SetStage
<1> HIDE DEF staged
<1>4. /\ queue' \in QueueType
      /\ queue'[e][t] = staged
      /\ \A e2 \in Engines, t2 \in Transports :
           ~(e2 = e /\ t2 = t) => queue'[e2][t2] = queue[e2][t2]
  BY <1>1, <1>2, <1>3, QueueUpdate DEF QueueType
<1>5. Busy(e, t)'
  BY <1>1, <1>2, <1>4, EmptySeq DEF Busy
<1>6. OpsShape'
  <2> SUFFICES ASSUME NEW e2 \in Engines, NEW t2 \in Transports,
                      NEW i \in 1 .. Len(queue'[e2][t2])
               PROVE  OpShape(e2, t2, i)'
    BY DEF OpsShape
  <2>1. UNCHANGED run
    BY DEF SetStage
  <2>2. CASE ~(e2 = e /\ t2 = t)
    <3>1. queue'[e2][t2] = queue[e2][t2]
      BY <1>4, <2>2
    <3>2. OpShape(e2, t2, i)
      BY <3>1 DEF OpsShape
    <3> QED
      BY <2>1, <3>1, <3>2 DEF OpShape
  <2>3. CASE e2 = e /\ t2 = t
    <3>1. OpShape(e, t, i) /\ i \in 1 .. Len(ops)
      BY <1>2, <1>4, <2>3 DEF OpsShape
    <3>2. /\ queue'[e2][t2][i].dom = ops[i].dom
          /\ queue'[e2][t2][i].abandoned = ops[i].abandoned
          /\ i > 1 => queue'[e2][t2][i].stage = ops[i].stage
          /\ Len(queue'[e2][t2]) = Len(ops)
      BY <1>2, <1>4, <2>3, <3>1
    <3> QED
      BY <2>1, <2>3, <3>1, <3>2 DEF OpShape
  <2> QED
    BY <2>2, <2>3
<1> QED
  BY <1>1, <1>2, <1>4, <1>5, <1>6

\* The operation that settles did not hold the lock, or it lets go of it.
LEMMA SettleLock ==
  ASSUME TypeOK, Shape, NEW e \in Engines, NEW t \in Transports, NEW outcome,
         Busy(e, t), Settle(e, t, outcome),
         \A t2 \in Transports : t2 # t => writer'[t2] = writer[t2],
         \/ writer' = writer /\ queue[e][t][1].stage # "writing"
         \/ /\ Owns(e, t)
            /\ \A e2 \in Engines : ~Owns(e2, t)'
            /\ writer'[t] # None => writer'[t].dom = writer[t].dom
  PROVE  LockShape'
<1>1. /\ \A e2 \in Engines, t2 \in Transports :
           ~(e2 = e /\ t2 = t) => queue'[e2][t2] = queue[e2][t2]
      /\ Busy(e, t)' => queue'[e][t][1].stage = "queued"
  BY SettleShape DEF Shape
<1>2. \A e2 \in Engines, t2 \in Transports : WriterShape(e2, t2)
  BY DEF Shape, LockShape
<1>3. \A t2 \in Transports : writer'[t2] # None => Carrier[writer'[t2].dom] = t2
  BY DEF Shape, LockShape, Owns
<1>4. ~Owns(e, t)'
  BY <1>2 DEF WriterShape, Owns
<1>5. ASSUME NEW e2 \in Engines, NEW t2 \in Transports
      PROVE  WriterShape(e2, t2)'
  <2>1. CASE e2 = e /\ t2 = t
    BY <1>1, <1>4, <2>1 DEF WriterShape
  <2>2. CASE t2 # t
    <3>1. queue'[e2][t2] = queue[e2][t2] /\ writer'[t2] = writer[t2]
      BY <1>1, <2>2
    <3> QED
      BY <1>2, <3>1 DEF WriterShape, Owns, Busy
  <2>3. CASE e2 # e /\ t2 = t
    <3>1. queue'[e2][t] = queue[e2][t]
      BY <1>1, <2>3
    <3>2. CASE writer' = writer
      BY <1>2, <2>3, <3>1, <3>2 DEF WriterShape, Owns, Busy
    <3>3. CASE Owns(e, t) /\ \A e3 \in Engines : ~Owns(e3, t)'
      <4>1. ~Owns(e2, t)
        BY <2>3, <3>3 DEF Owns
      <4>2. ~(Busy(e2, t) /\ queue[e2][t][1].stage = "writing")
        BY <1>2, <4>1 DEF WriterShape
      <4> QED
        BY <2>3, <3>1, <3>3, <4>2 DEF WriterShape, Busy
    <3> QED
      BY <3>2, <3>3
  <2> QED
    BY <2>1, <2>2, <2>3
<1> QED
  BY <1>3, <1>5 DEF LockShape

\* Starting or sending an operation, or finding it superseded, keeps them.
LEMMA AdvanceTypes ==
  ASSUME TypeOK, Shape, NEW e \in Engines, NEW t \in Transports,
         Begin(e, t) \/ Send(e, t)
  PROVE  TypeOK' /\ Shape'
<1>1. /\ Busy(e, t)
      /\ HeadOp(e, t) = queue[e][t][1]
      /\ queue[e][t][1].stage # "writing"
  <2>1. Busy(e, t) /\ HeadOp(e, t).stage \in {"queued", "encoding"}
    BY DEF Begin, Send, Advance
  <2>2. HeadOp(e, t) = queue[e][t][1]
    BY <2>1, TailOps DEF HeadOp, Busy, TypeOK
  <2> QED
    BY <2>1, <2>2
<1>2. UNCHANGED <<database, disk, writer, faults>>
  BY DEF Begin, Send, Advance
<1>3. CASE Settle(e, t, "stale_publish")
  <2>1. LockShape'
    BY <1>1, <1>2, <1>3, SettleLock
  <2> QED
    BY <1>1, <1>2, <1>3, <2>1, SettleShape
       DEF Shape, TypeOK, QueueType, database, disk
<1>4. ASSUME NEW stage \in Stages \ {"writing"}, SetStage(e, t, stage)
      PROVE  TypeOK' /\ Shape'
  <2>1. /\ queue' \in QueueType
        /\ queue'[e][t][1].stage = stage
        /\ \A e2 \in Engines, t2 \in Transports :
             ~(e2 = e /\ t2 = t) => queue'[e2][t2] = queue[e2][t2]
        /\ OpsShape'
    BY <1>1, <1>4, StageShape DEF Shape
  <2>2. \A e2 \in Engines, t2 \in Transports : WriterShape(e2, t2)
    BY DEF Shape, LockShape
  <2>3. ASSUME NEW e2 \in Engines, NEW t2 \in Transports
        PROVE  WriterShape(e2, t2)'
    BY <1>1, <1>2, <1>4, <2>1, <2>2 DEF WriterShape, Owns, Busy
  <2>4. LockShape'
    BY <1>2, <2>3 DEF Shape, LockShape
  <2> QED
    BY <1>2, <1>4, <2>1, <2>4
       DEF SetStage, Shape, TypeOK, QueueType, database, disk, memory
<1>5. \/ Settle(e, t, "stale_publish")
      \/ SetStage(e, t, "encoding")
      \/ SetStage(e, t, "sent")
  BY DEF Begin, Send, Advance
<1> QED
  BY <1>3, <1>4, <1>5 DEF Stages

\* A failure of the transport keeps types and shape.
LEMMA TransportFailsTypes ==
  ASSUME TypeOK, Shape, NEW e \in Engines, NEW t \in Transports,
         TransportFails(e, t)
  PROVE  TypeOK' /\ Shape'
<1>1. /\ Busy(e, t)
      /\ Settle(e, t, "failed")
      /\ queue[e][t][1].stage # "writing"
  <2>1. Busy(e, t) /\ HeadOp(e, t).stage \in {"encoding", "sent"}
    BY DEF TransportFails
  <2>2. HeadOp(e, t) = queue[e][t][1]
    BY <2>1, TailOps DEF HeadOp, Busy, TypeOK
  <2> QED
    BY <2>1, <2>2 DEF TransportFails
<1>2. /\ UNCHANGED <<database, disk, writer>>
      /\ faults' \in Nat
  BY FaultTypes DEF TransportFails
<1>3. LockShape'
  BY <1>1, <1>2, SettleLock
<1> QED
  BY <1>1, <1>2, <1>3, SettleShape DEF Shape, TypeOK, QueueType, database, disk

\* Taking the directory's lock keeps types and shape.
LEMMA HostLockTypes ==
  ASSUME TypeOK, Shape, NEW e \in Engines, NEW t \in Transports, HostLock(e, t)
  PROVE  TypeOK' /\ Shape'
<1> DEFINE op  == queue[e][t][1]
           new == [dom |-> op.dom, cover |-> op.cover, owner |-> e, committed |-> FALSE]
<1>1. /\ Busy(e, t) /\ writer[t] = None
      /\ HeadOp(e, t) = op
      /\ op \in Op /\ op.stage = "sent"
  <2>1. Busy(e, t) /\ writer[t] = None /\ HeadOp(e, t).stage = "sent"
    BY DEF HostLock
  <2>2. HeadOp(e, t) = op /\ op \in Op
    BY <2>1, TailOps DEF HeadOp, Busy, TypeOK
  <2> QED
    BY <2>1, <2>2
<1>2. /\ SetStage(e, t, "writing")
      /\ "writing" \in Stages
      /\ writer' = [writer EXCEPT ![t] = new]
      /\ UNCHANGED <<database, disk, faults>>
  <2>1. writer' = [writer EXCEPT ![t] = [dom |-> HeadOp(e, t).dom,
                                         cover |-> HeadOp(e, t).cover,
                                         owner |-> e, committed |-> FALSE]]
    BY DEF HostLock
  <2>2. writer' = [writer EXCEPT ![t] = new]
    BY <1>1, <2>1
  <2> QED
    BY <2>2 DEF HostLock, Stages
<1>3. new \in Writer /\ new # None
  <2>1. op.dom \in Domains /\ op.cover \in Nat
    BY <1>1 DEF Op
  <2>2. new \in Writer
    BY <2>1 DEF Writer
  <2> QED
    BY <2>2, NoneAssumption
<1>4. /\ writer'[t] = new
      /\ \A t2 \in Transports : t2 # t => writer'[t2] = writer[t2]
      /\ writer' \in [Transports -> Writer \cup {None}]
  BY <1>2, <1>3 DEF TypeOK
<1>5. /\ queue' \in QueueType
      /\ Busy(e, t)'
      /\ queue'[e][t][1].dom = op.dom
      /\ queue'[e][t][1].cover = op.cover
      /\ queue'[e][t][1].stage = "writing"
      /\ \A e2 \in Engines, t2 \in Transports :
           ~(e2 = e /\ t2 = t) => queue'[e2][t2] = queue[e2][t2]
      /\ OpsShape'
  BY <1>1, <1>2, StageShape DEF Shape
<1>6. Carrier[op.dom] = t
  <2>1. 1 \in 1 .. Len(queue[e][t])
    BY <1>1, <1>2, StageShape DEF Shape
  <2> QED
    BY <2>1 DEF Shape, OpsShape, OpShape
<1>7. \A e2 \in Engines, t2 \in Transports : WriterShape(e2, t2)
  BY DEF Shape, LockShape
<1>8. ASSUME NEW e2 \in Engines, NEW t2 \in Transports
      PROVE  WriterShape(e2, t2)'
  <2>1. CASE e2 = e /\ t2 = t
    BY <1>3, <1>4, <1>5, <2>1 DEF WriterShape, Owns
  <2>2. CASE t2 # t
    <3>1. queue'[e2][t2] = queue[e2][t2] /\ writer'[t2] = writer[t2]
      BY <1>4, <1>5, <2>2
    <3> QED
      BY <1>7, <3>1 DEF WriterShape, Owns, Busy
  <2>3. CASE e2 # e /\ t2 = t
    <3>1. ~Owns(e2, t2)' /\ ~Owns(e2, t2)
      BY <1>1, <1>4, <2>3 DEF Owns
    <3>2. queue'[e2][t2] = queue[e2][t2]
      BY <1>5, <2>3
    <3> QED
      BY <1>7, <3>1, <3>2 DEF WriterShape, Busy
  <2> QED
    BY <2>1, <2>2, <2>3
<1>9. LockShape'
  BY <1>4, <1>6, <1>8 DEF Shape, LockShape
<1> QED
  BY <1>2, <1>4, <1>5, <1>9
     DEF SetStage, Shape, TypeOK, QueueType, database, disk, memory

\* The manifest rename keeps types and shape.
LEMMA HostCommitTypes ==
  ASSUME TypeOK, Shape, NEW t \in Transports, HostCommit(t)
  PROVE  TypeOK' /\ Shape'
<1>1. writer[t] \in Writer
  BY DEF HostCommit, TypeOK
<1>2. /\ writer'[t] = [writer[t] EXCEPT !.committed = TRUE]
      /\ writer'[t] \in Writer /\ writer'[t] # None
      /\ writer'[t].dom = writer[t].dom
      /\ writer'[t].cover = writer[t].cover
      /\ writer'[t].owner = writer[t].owner
      /\ \A t2 \in Transports : t2 # t => writer'[t2] = writer[t2]
      /\ writer' \in [Transports -> Writer \cup {None}]
  <2> DEFINE done == [writer[t] EXCEPT !.committed = TRUE]
  <2>1. /\ done \in Writer /\ done # None
        /\ done.dom = writer[t].dom
        /\ done.cover = writer[t].cover
        /\ done.owner = writer[t].owner
    BY <1>1, NoneAssumption DEF Writer
  <2>2. writer' = [writer EXCEPT ![t] = done]
    BY DEF HostCommit
  <2> HIDE DEF done
  <2>3. writer'[t] = done
    BY <2>2 DEF TypeOK
  <2>4. done = [writer[t] EXCEPT !.committed = TRUE]
    BY DEF done
  <2> QED
    BY <2>1, <2>2, <2>3, <2>4 DEF TypeOK
<1>3. /\ folder' \in [Domains -> Nat]
      /\ bundled' \in SUBSET Domains
  BY <1>1 DEF HostCommit, TypeOK, Writer
<1>4. UNCHANGED <<database, memory, run, queue, repairs, faults>>
  BY DEF HostCommit
<1>5. OpsShape'
  BY <1>4 DEF Shape, OpsShape, OpShape
<1>6. LockShape'
  <2>1. ASSUME NEW e2 \in Engines, NEW t2 \in Transports
        PROVE  WriterShape(e2, t2)'
    <3>1. WriterShape(e2, t2)
      BY DEF Shape, LockShape
    <3>2. CASE t2 # t
      BY <1>2, <1>4, <3>1, <3>2 DEF WriterShape, Owns, Busy
    <3>3. CASE t2 = t
      <4>1. Owns(e2, t2)' <=> Owns(e2, t2)
        BY <1>2, <3>3 DEF Owns, HostCommit
      <4> QED
        BY <1>2, <1>4, <3>1, <3>3, <4>1 DEF WriterShape, Busy
    <3> QED
      BY <3>2, <3>3
  <2>2. \A t2 \in Transports : writer'[t2] # None => Carrier[writer'[t2].dom] = t2
    BY <1>2 DEF Shape, LockShape, HostCommit
  <2> QED
    BY <2>1, <2>2 DEF LockShape
<1> QED
  BY <1>2, <1>3, <1>4, <1>5, <1>6 DEF Shape, TypeOK, database, memory

\* The publish that held the lock ends, and its caller is told.
LEMMA HostEndTypes ==
  ASSUME TypeOK, Shape, NEW t \in Transports, HostReturn(t) \/ HostFails(t)
  PROVE  TypeOK' /\ Shape'
<1>1. /\ writer[t] \in Writer /\ writer[t] # None
      /\ writer' = [writer EXCEPT ![t] = None]
      /\ UNCHANGED <<database, disk>>
      /\ faults' \in Nat
  BY FaultTypes DEF HostReturn, HostFails, TypeOK
<1>2. /\ writer' \in [Transports -> Writer \cup {None}]
      /\ writer'[t] = None
      /\ \A t2 \in Transports : t2 # t => writer'[t2] = writer[t2]
  BY <1>1 DEF TypeOK
<1>3. CASE writer[t].owner = None
  <2>1. UNCHANGED <<memory, run, queue, repairs>>
    BY <1>3 DEF HostReturn, HostFails
  <2>2. OpsShape'
    BY <2>1 DEF Shape, OpsShape, OpShape
  <2>3. ASSUME NEW e2 \in Engines, NEW t2 \in Transports
        PROVE  WriterShape(e2, t2)'
    <3>1. WriterShape(e2, t2) /\ e2 # None
      BY ConstantsAssumption DEF Shape, LockShape
    <3>2. Owns(e2, t2)' <=> Owns(e2, t2)
      BY <1>2, <1>3, <3>1 DEF Owns
    <3>3. Owns(e2, t2) => writer'[t2] = writer[t2]
      BY <1>2, <1>3, <3>1 DEF Owns
    <3> QED
      BY <2>1, <3>1, <3>2, <3>3 DEF WriterShape, Busy
  <2>4. LockShape'
    BY <1>2, <2>3 DEF Shape, LockShape
  <2> QED
    BY <1>1, <1>2, <2>1, <2>2, <2>4 DEF Shape, TypeOK, database, disk, memory
<1>4. CASE writer[t].owner # None
  <2>1. PICK e \in Engines : e = writer[t].owner
    BY <1>1, <1>4 DEF Writer
  <2>2. PICK outcome : Settle(e, t, outcome)
    BY <1>4, <2>1 DEF HostReturn, HostFails
  <2>3. Owns(e, t)
    BY <1>1, <2>1 DEF Owns
  <2>4. Busy(e, t)
    BY <2>3 DEF Shape, LockShape, WriterShape
  <2>5. \A e2 \in Engines : ~Owns(e2, t)'
    BY <1>2 DEF Owns
  <2>6. LockShape'
    BY <1>2, <2>2, <2>3, <2>4, <2>5, SettleLock
  <2> QED
    BY <1>1, <1>2, <2>2, <2>4, <2>6, SettleShape
       DEF Shape, TypeOK, QueueType, database, disk
<1> QED
  BY <1>3, <1>4

\* A host timeout under the lock keeps types and shape.
LEMMA HostTimeoutTypes ==
  ASSUME TypeOK, Shape, NEW e \in Engines, NEW t \in Transports,
         HostTimeoutWriting(e, t)
  PROVE  TypeOK' /\ Shape'
<1>1. /\ Busy(e, t)
      /\ queue[e][t][1].stage = "writing"
      /\ faults' \in Nat
  <2>1. /\ Busy(e, t) /\ HeadOp(e, t).stage = "writing"
        /\ faults' \in Nat
    BY FaultTypes DEF HostTimeoutWriting
  <2>2. HeadOp(e, t) = queue[e][t][1]
    BY <2>1, TailOps DEF HeadOp, Busy, TypeOK
  <2> QED
    BY <2>1, <2>2
<1>2. PICK outcome : Settle(e, t, outcome)
  BY DEF HostTimeoutWriting
<1>3. Owns(e, t)
  BY <1>1 DEF Shape, LockShape, WriterShape
<1>4. writer[t] \in Writer
  BY <1>3 DEF Owns, TypeOK
<1>5. /\ writer' \in [Transports -> Writer \cup {None}]
      /\ writer'[t].owner = None
      /\ writer'[t].dom = writer[t].dom
      /\ \A t2 \in Transports : t2 # t => writer'[t2] = writer[t2]
  <2> DEFINE left == [writer[t] EXCEPT !.owner = None]
  <2>1. left \in Writer /\ left.owner = None /\ left.dom = writer[t].dom
    BY <1>4 DEF Writer
  <2>2. writer' = [writer EXCEPT ![t] = left]
    BY DEF HostTimeoutWriting
  <2> HIDE DEF left
  <2> QED
    BY <2>1, <2>2 DEF TypeOK
<1>6. \A e2 \in Engines : ~Owns(e2, t)'
  BY <1>5, ConstantsAssumption DEF Owns
<1>7. LockShape'
  BY <1>1, <1>2, <1>3, <1>5, <1>6, SettleLock
<1>8. UNCHANGED <<database, disk>>
  BY DEF HostTimeoutWriting
<1> QED
  BY <1>1, <1>2, <1>5, <1>7, <1>8, SettleShape
     DEF Shape, TypeOK, QueueType, database, disk

\* The queues of a fresh process are well-formed and empty.
LEMMA EmptyQueues ==
  /\ [e \in Engines |-> EmptyQueue] \in QueueType
  /\ \A e \in Engines, t \in Transports :
       /\ [x \in Engines |-> EmptyQueue][e][t] = << >>
       /\ Len([x \in Engines |-> EmptyQueue][e][t]) = 0
BY EmptySeq DEF EmptyQueue, QueueType

\* No operation, no lock: the shape of a fresh process.
LEMMA FreshShape ==
  ASSUME queue = [e \in Engines |-> EmptyQueue],
         writer = [t \in Transports |-> None]
  PROVE  Shape
<1>1. \A e \in Engines, t \in Transports :
        queue[e][t] = << >> /\ Len(queue[e][t]) = 0
  BY EmptyQueues
<1>2. OpsShape
  BY <1>1 DEF OpsShape
<1>3. LockShape
  BY <1>1 DEF LockShape, WriterShape, Busy, Owns
<1> QED
  BY <1>2, <1>3 DEF Shape

\* A restart keeps types and shape.
LEMMA RestartTypes ==
  ASSUME TypeOK, Shape, Restart
  PROVE  TypeOK' /\ Shape'
<1>1. /\ queue' = [e \in Engines |-> EmptyQueue]
      /\ writer' = [t \in Transports |-> None]
      /\ run' = None
      /\ repairs' = 0
      /\ known' = [e \in Engines |-> {}]
      /\ publishedAt' = [e \in Engines |-> NoMemory]
      /\ UNCHANGED <<database, disk, current>>
      /\ faults' \in Nat
  BY FaultTypes DEF Restart
<1>2. Shape'
  BY <1>1, EmptyQueues DEF Shape, OpsShape, LockShape, WriterShape, Busy, Owns
<1>3. routed' \in [Engines -> SUBSET Domains]
  BY DEF Restart, TypeOK
<1>4. queue' \in QueueType
  BY <1>1, EmptyQueues
<1> QED
  BY <1>1, <1>2, <1>3, <1>4 DEF TypeOK, QueueType, NoMemory, database, disk

\* A replaced engine keeps types and shape.
LEMMA RebuildTypes ==
  ASSUME TypeOK, Shape, NEW e \in Engines, Rebuild(e)
  PROVE  TypeOK' /\ Shape'
<1>1. /\ UNCHANGED <<database, disk, run, queue, writer, repairs>>
      /\ faults' \in Nat
      /\ current' = e
      /\ publishedAt' = [publishedAt EXCEPT ![e] = NoMemory]
      /\ known' = [known EXCEPT ![e] = {}]
  BY FaultTypes DEF Rebuild
<1>2. Shape'
  BY <1>1 DEF Shape, OpsShape, LockShape, OpShape, WriterShape, Owns, Busy
<1>3. routed' \in [Engines -> SUBSET Domains]
  BY DEF Rebuild, TypeOK
<1> QED
  BY <1>1, <1>2, <1>3 DEF TypeOK, NoMemory, database, disk

\* The initial state has the types and the shape.
LEMMA InitTypes ==
  ASSUME Init
  PROVE  TypeOK /\ Shape
<1>1. Shape
  BY FreshShape DEF Init
<1>2. queue \in QueueType
  BY EmptyQueues DEF Init
<1> QED
  BY <1>1, <1>2 DEF Init, TypeOK, QueueType, NoMemory

\* Every step, with or without a replaced engine, keeps types and shape.
LEMMA StepTypes ==
  ASSUME TypeOK, Shape, [Next \/ RebuildNext]_vars
  PROVE  TypeOK' /\ Shape'
<1>1. CASE UNCHANGED vars
  BY <1>1 DEF TypeOK, Shape, OpsShape, LockShape, OpShape, WriterShape, Owns, Busy,
              vars, database, disk, memory
<1>2. CASE LiveNext
  <2>1. CASE (\E touched \in SUBSET Domains : Edit(touched)) \/ Republish
    BY <2>1, DatabaseTypes
  <2>2. CASE StartRun
    BY <2>2, RunTypes
  <2>3. CASE RunStep
    BY <2>3, RunTypes, PublishTypes DEF RunStep
  <2>4. ASSUME NEW e \in Engines, NEW t \in Transports, TransportStep(e, t)
        PROVE  TypeOK' /\ Shape'
    BY <2>4, AdvanceTypes, HostLockTypes DEF TransportStep
  <2>5. ASSUME NEW t \in Transports, HostStep(t)
        PROVE  TypeOK' /\ Shape'
    BY <2>5, HostCommitTypes, HostEndTypes DEF HostStep
  <2>6. CASE FaultStep
    <3>1. CASE (\E d \in Domains : DomainFails(d)) \/ MarkFails
      BY <3>1, RunTypes
    <3>2. CASE EngineTimeout
      BY <3>2, EngineTimeoutTypes
    <3>3. ASSUME NEW e \in Engines, NEW t \in Transports,
                 TransportFails(e, t) \/ HostTimeoutWriting(e, t)
          PROVE  TypeOK' /\ Shape'
      BY <3>3, TransportFailsTypes, HostTimeoutTypes
    <3>4. ASSUME NEW t \in Transports, HostFails(t)
          PROVE  TypeOK' /\ Shape'
      BY <3>4, HostEndTypes
    <3> QED
      BY <2>6, <3>1, <3>2, <3>3, <3>4 DEF FaultStep
  <2> QED
    BY <1>2, <2>1, <2>2, <2>3, <2>4, <2>5, <2>6 DEF LiveNext
<1>3. CASE RepublishFails
  BY <1>3, DatabaseTypes
<1>4. CASE Restart
  BY <1>4, RestartTypes
<1>5. ASSUME NEW e \in Engines, Rebuild(e)
      PROVE  TypeOK' /\ Shape'
  BY <1>5, RebuildTypes
<1> QED
  BY <1>1, <1>2, <1>3, <1>4, <1>5 DEF Next, RebuildNext

\* With one engine, through restarts: every variable keeps its type, only the
\* head of a queue runs, and the lock and the run agree with the queues.
THEOREM TypesAndShape == Spec => [](TypeOK /\ Shape)
<1>1. TypeOK /\ Shape /\ [Next]_vars => (TypeOK /\ Shape)'
  BY StepTypes
<1> QED
  BY InitTypes, <1>1, PTL DEF Spec

\* The same while engines are replaced by fresh ones.
THEOREM RebuildTypesAndShape == RebuildSpec => [](TypeOK /\ Shape)
<1>1. TypeOK /\ Shape /\ [RebuildNext]_vars => (TypeOK /\ Shape)'
  BY StepTypes
<1> QED
  BY InitTypes, <1>1, PTL DEF RebuildSpec

----------------------------------------------------------------------------
(* What one engine guarantees                                              *)

\* A longer counter, or more changes after c, leave what c covers covered.
LEMMA BumpSafe ==
  ASSUME IInv, TypeOK', NEW touched \in SUBSET Domains, Edit(touched) \/ Republish
  PROVE  Safe'
<1>1. /\ UNCHANGED <<lastPublish, disk, memory, run, queue, writer>>
      /\ changeCounter' = changeCounter + 1
      /\ changeCounter \in Nat
  <2>1. CASE Edit(touched)
    BY <2>1 DEF Edit, BumpChangeCounter, IInv, TypeOK
  <2>2. CASE Republish
    BY <2>2 DEF Republish, BumpChangeCounter, IInv, TypeOK
  <2> QED
    BY <2>1, <2>2
<1>2. \A d \in Domains : \A h \in edits'[d] :
        h \in edits[d] \/ (h = changeCounter + 1 /\ changedAt'[d] = changeCounter + 1)
  <2>1. CASE Edit(touched)
    BY <2>1 DEF Edit, BumpChangeCounter, IInv, TypeOK
  <2>2. CASE Republish
    BY <2>2 DEF Republish
  <2> QED
    BY <2>1, <2>2
<1>3. \A d \in Domains :
        /\ changedAt[d] <= changeCounter => changedAt[d] <= changedAt'[d]
        /\ changedAt'[d] = changedAt[d] \/ changedAt'[d] = changeCounter + 1
        /\ changedAt[d] \in Nat /\ edits[d] \in SUBSET Nat /\ edits'[d] \in SUBSET Nat
        /\ folder[d] \in Nat
        /\ publishedAt[current][d] \in Nat
  <2> TAKE d \in Domains
  <2>1. /\ changedAt[d] \in Nat /\ edits[d] \in SUBSET Nat /\ folder[d] \in Nat
        /\ publishedAt[current][d] \in Nat
    BY DEF IInv, TypeOK
  <2>2. changedAt'[d] = changedAt[d] \/ changedAt'[d] = changeCounter + 1
    BY DEF Edit, Republish, BumpChangeCounter
  <2>3. edits'[d] \in SUBSET Nat
    BY <1>1, <1>2, <2>1
  <2> QED
    BY <1>1, <2>1, <2>2, <2>3
<1>4. ASSUME NEW d \in Domains, NEW c \in Nat, c <= changeCounter, Covered(d, c)
      PROVE  Covered(d, c)'
  BY <1>1, <1>2, <1>3, <1>4 DEF Covered, disk
<1>5. Single'
  BY <1>1 DEF IInv, Safe, Single, Busy, memory
<1>6. CountersInv'
  <2>1. lastPublish \in Nat /\ lastPublish <= changeCounter
    BY DEF IInv, TypeOK, Safe, CountersInv
  <2>2. ASSUME NEW d \in Domains
        PROVE  DomainInv(d)'
    <3>1. DomainInv(d)
      BY DEF IInv, Safe, CountersInv
    <3>2. Covered(d, lastPublish)'
      BY <1>1, <1>4, <2>1, <3>1 DEF DomainInv, Covered
    <3>3. Covered(d, publishedAt[current][d])'
      BY <1>1, <1>3, <1>4, <3>1 DEF DomainInv, Covered, memory
    <3>4. \A h \in edits'[d] : 0 < h /\ h <= changedAt'[d]
      BY <1>1, <1>2, <1>3, <3>1 DEF DomainInv
    <3> QED
      BY <1>1, <1>3, <3>1, <3>2, <3>3, <3>4 DEF DomainInv, disk, memory
  <2> QED
    BY <1>1, <2>1, <2>2 DEF CountersInv
<1>7. OrderInv'
  <2>1. ASSUME NEW e \in Engines, NEW t \in Transports, NEW i \in 1 .. Len(queue[e][t])
        PROVE  OpOrder(e, t, i)'
    <3>1. OpOrder(e, t, i)
      BY DEF IInv, Safe, OrderInv
    <3>2. queue[e][t][i] \in Op
      BY ElementOfSeq DEF IInv, TypeOK
    <3> QED
      BY <1>1, <3>1, <3>2 DEF OpOrder, Op, disk
  <2>2. ASSUME NEW t \in Transports
        PROVE  WriterOrder(t)'
    <3>1. WriterOrder(t) /\ writer[t] \in Writer \cup {None}
      BY DEF IInv, TypeOK, Safe, OrderInv
    <3> QED
      BY <1>1, <3>1 DEF WriterOrder, Writer, disk
  <2> QED
    BY <1>1, <2>1, <2>2 DEF OrderInv
<1>8. RunInv'
  <2> SUFFICES ASSUME run # None
               PROVE  RunInv'
    BY <1>1 DEF RunInv
  <2>1. /\ run \in Run /\ run' = run
        /\ run.at \in Nat /\ run.at <= changeCounter
        /\ run.covered \in SUBSET Nat
        /\ \A c \in run.covered : c <= changeCounter
    BY <1>1 DEF IInv, TypeOK, Safe, RunInv, Run
  <2>2. \A d \in Domains : \A h \in edits'[d] : h <= run.at => h <= run.changedAt[d]
    BY <1>2, <1>1, <2>1 DEF IInv, Safe, RunInv
  <2>3. Dirty' /\ Complete' =>
          \A d \in Domains \ (run.todo \cup {run.awaiting}) :
            \E c \in run.covered : Covered(d, c)'
    <3> SUFFICES ASSUME Dirty', Complete', NEW d \in Domains \ (run.todo \cup {run.awaiting})
                 PROVE  \E c \in run.covered : Covered(d, c)'
      OBVIOUS
    <3>1. PICK c \in run.covered : Covered(d, c)
      BY <2>1 DEF IInv, Safe, RunInv, Dirty, Complete
    <3> QED
      BY <1>4, <2>1, <3>1
  <2> QED
    BY <1>1, <2>1, <2>2, <2>3 DEF IInv, Safe, RunInv, Covered
<1> QED
  BY <1>5, <1>6, <1>7, <1>8 DEF Safe

\* Steps that change nothing the invariant speaks of.
LEMMA UnchangedSafe ==
  ASSUME Safe, UNCHANGED <<changeCounter, lastPublish, changedAt, edits, folder,
                           current, publishedAt, run, queue, writer>>
  PROVE  Safe'
BY DEF Safe, Single, CountersInv, DomainInv, Covered, OrderInv, OpOrder, WriterOrder,
       RunInv, Dirty, Complete, Busy

\* Steps of the run between two transport calls touch neither queue nor folder.
LEMMA RunOnlySafe ==
  ASSUME Safe, UNCHANGED <<changeCounter, lastPublish, changedAt, edits, folder,
                           current, publishedAt, queue, writer>>,
         run' # None => run'.eng = current
  PROVE  Single' /\ CountersInv' /\ OrderInv'
BY DEF Safe, Single, CountersInv, DomainInv, Covered, OrderInv, OpOrder, WriterOrder, Busy

\* The run's steps that touch no queue keep the safety part.
LEMMA RunSafe ==
  ASSUME IInv,
         \/ StartRun
         \/ \E d \in Domains : NoTransport(d) \/ CleanDomain(d) \/ DomainFails(d)
         \/ MarkFails
  PROVE  Safe'
<1>1. UNCHANGED <<changeCounter, lastPublish, changedAt, edits, folder,
                  current, publishedAt, queue, writer>>
  BY DEF StartRun, NoTransport, CleanDomain, DomainFails, MarkFails,
         database, disk, memory
<1>2. CASE StartRun
  <2>1. /\ run' = [eng |-> current, at |-> changeCounter, last |-> lastPublish,
                   changedAt |-> changedAt, todo |-> Domains, awaiting |-> None,
                   covered |-> {}, failed |-> FALSE, superseded |-> FALSE,
                   unrouted |-> FALSE]
        /\ changeCounter \in Nat
    BY <1>2 DEF StartRun, IInv, TypeOK
  <2>2. RunInv'
    BY <1>1, <2>1 DEF RunInv, IInv, Safe, CountersInv, DomainInv
  <2> QED
    BY <1>1, <2>1, <2>2, RunOnlySafe DEF IInv, Safe
<1>3. CASE MarkFails
  <2>1. run' = None
    BY <1>3 DEF MarkFails
  <2> QED
    BY <1>1, <2>1, RunOnlySafe DEF IInv, Safe, RunInv
<1>4. ASSUME NEW d \in Domains, NoTransport(d) \/ CleanDomain(d) \/ DomainFails(d)
      PROVE  Safe'
  <2>1. /\ run \in Run /\ run # None /\ run.awaiting = None
        /\ RunInv
    BY <1>4 DEF NoTransport, CleanDomain, DomainFails, Looping, IInv, TypeOK, Safe
  <2>2. CASE NoTransport(d)
    <3>1. run' = [run EXCEPT !.todo = @ \ {d}, !.unrouted = TRUE]
      BY <2>2 DEF NoTransport
    <3>2. run'.eng = run.eng /\ ~Complete'
      BY <2>1, <3>1 DEF Run, Complete
    <3>3. RunInv'
      BY <1>1, <2>1, <3>1, <3>2 DEF RunInv, Run
    <3> QED
      BY <1>1, <2>1, <3>2, <3>3, RunOnlySafe DEF IInv, Safe, Single
  <2>3. CASE DomainFails(d)
    <3>1. run' = [run EXCEPT !.todo = @ \ {d}, !.failed = TRUE]
      BY <2>3 DEF DomainFails
    <3>2. run'.eng = run.eng /\ ~Complete'
      BY <2>1, <3>1 DEF Run, Complete
    <3>3. RunInv'
      BY <1>1, <2>1, <3>1, <3>2 DEF RunInv, Run
    <3> QED
      BY <1>1, <2>1, <3>2, <3>3, RunOnlySafe DEF IInv, Safe, Single
  <2>4. CASE CleanDomain(d)
    <3> DEFINE more == IF Dirty THEN run.covered \cup {run.at} ELSE run.covered
    <3>1. run' = [run EXCEPT !.todo = run.todo \ {d}, !.covered = more]
      BY <2>4 DEF CleanDomain
    <3>2. /\ run'.eng = run.eng /\ run'.at = run.at /\ run'.last = run.last
          /\ run'.changedAt = run.changedAt /\ run'.awaiting = None
          /\ run'.todo = run.todo \ {d}
          /\ run'.covered = more
          /\ run'.failed = run.failed /\ run'.superseded = run.superseded
          /\ run'.unrouted = run.unrouted
      BY <2>1, <3>1 DEF Run
    <3>3. Dirty => Covered(d, run.at)
      <4> SUFFICES ASSUME Dirty, NEW h \in edits[d], h <= run.at
                   PROVE  h <= folder[d]
        BY DEF Covered
      <4>1. /\ run.last = lastPublish
            /\ run.changedAt[d] <= Larger(lastPublish, publishedAt[current][d])
        <5>1. /\ run.last = lastPublish /\ run.eng = current
              /\ run.changedAt[d] \in Nat
              /\ lastPublish \in Nat /\ publishedAt[current][d] \in Nat
          BY <2>1 DEF RunInv, IInv, TypeOK, Safe, Single, Run
        <5>2. ~(run.changedAt[d] > Larger(run.last, publishedAt[run.eng][d]))
          BY <2>4 DEF CleanDomain, Needed, Changed
        <5> QED
          BY <5>1, <5>2 DEF Larger
      <4>2. h <= run.changedAt[d]
        BY <2>1 DEF RunInv
      <4>3. h <= lastPublish \/ h <= publishedAt[current][d]
        BY <2>1, <4>1, <4>2 DEF Larger, IInv, TypeOK, Run
      <4> QED
        BY <4>3 DEF IInv, Safe, CountersInv, DomainInv, Covered
    <3>4. Dirty' /\ Complete' =>
            \A x \in Domains \ (run'.todo \cup {run'.awaiting}) :
              \E c \in run'.covered : Covered(x, c)
      <4> SUFFICES ASSUME Dirty', Complete',
                          NEW x \in Domains \ ((run.todo \ {d}) \cup {None})
                   PROVE  \E c \in more : Covered(x, c)
        BY <3>2
      <4>1. Dirty /\ Complete /\ more = run.covered \cup {run.at}
        BY <3>2 DEF Dirty, Complete
      <4>2. CASE x = d
        BY <3>3, <4>1, <4>2
      <4>3. CASE x # d
        BY <2>1, <4>1, <4>3 DEF RunInv
      <4> QED
        BY <4>2, <4>3
    <3>5. \A c \in more : c <= changeCounter
      BY <2>1 DEF RunInv
    <3> HIDE DEF more
    <3>6. RunInv'
      BY <1>1, <2>1, <3>2, <3>4, <3>5 DEF RunInv, Covered
    <3> QED
      BY <1>1, <2>1, <3>2, <3>6, RunOnlySafe DEF IInv, Safe, Single
  <2> QED
    BY <1>4, <2>2, <2>3, <2>4
<1> QED
  BY <1>2, <1>3, <1>4

\* The recorded counter is one that every domain is covered up to.
LEMMA FinishSafe ==
  ASSUME IInv, FinishRun
  PROVE  /\ Safe'
         /\ lastPublish <= lastPublish'
         /\ \A d \in Domains : Covered(d, lastPublish')
<1>1. /\ UNCHANGED <<changeCounter, changedAt, edits, folder,
                     current, publishedAt, queue, writer>>
      /\ run' = None
      /\ run \in Run /\ run # None /\ run.awaiting = None /\ run.todo = {}
  BY DEF FinishRun, Looping, disk, memory, IInv, TypeOK
<1>2. /\ lastPublish' \in Nat /\ lastPublish <= lastPublish'
      /\ lastPublish' <= changeCounter
      /\ \A d \in Domains : Covered(d, lastPublish')
  <2>0. /\ lastPublish \in Nat /\ changeCounter \in Nat /\ lastPublish <= changeCounter
        /\ \A d \in Domains : Covered(d, lastPublish)
    BY DEF IInv, TypeOK, Safe, CountersInv, DomainInv
  <2>1. CASE UNCHANGED lastPublish
    BY <2>0, <2>1
  <2>2. ASSUME Complete, Dirty, NEW c \in run.covered,
               \A other \in run.covered : c <= other,
               lastPublish' = NextPublishCounter(c)
        PROVE  <1>2!:
    <3>1. /\ c \in Nat
          /\ run.covered \in SUBSET Nat
      BY <1>1 DEF Run
    <3>2. ASSUME NEW d \in Domains
          PROVE  Covered(d, c)
      <4>1. d \in Domains \ (run.todo \cup {run.awaiting})
        BY <1>1, ConstantsAssumption
      <4>2. PICK more \in run.covered : Covered(d, more)
        BY <1>1, <2>2, <4>1 DEF IInv, Safe, RunInv
      <4>3. c <= more /\ more \in Nat /\ edits[d] \in SUBSET Nat
        BY <2>2, <3>1 DEF IInv, TypeOK
      <4> QED
        BY <3>1, <4>2, <4>3 DEF Covered
    <3> QED
      BY <2>0, <2>2, <3>1, <3>2 DEF NextPublishCounter
  <2> QED
    BY <2>1, <2>2 DEF FinishRun
<1>3. CountersInv'
  BY <1>1, <1>2 DEF IInv, Safe, CountersInv, DomainInv, Covered
<1>4. Single' /\ OrderInv' /\ RunInv'
  BY <1>1 DEF IInv, Safe, Single, OrderInv, OpOrder, WriterOrder, RunInv, Busy
<1> QED
  BY <1>2, <1>3, <1>4 DEF Safe

\* The operations of one queue keep their domains and their snapshots.
SameOrder(e, t) ==
  /\ Len(queue'[e][t]) = Len(queue[e][t])
  /\ \A i \in 1 .. Len(queue[e][t]) :
       /\ queue'[e][t][i].dom = queue[e][t][i].dom
       /\ queue'[e][t][i].cover = queue[e][t][i].cover
  /\ \A e2 \in Engines, t2 \in Transports :
       ~(e2 = e /\ t2 = t) => queue'[e2][t2] = queue[e2][t2]

\* Queues whose domains and covers stay in order keep the order part.
LEMMA SameOrderInv ==
  ASSUME OrderInv, NEW e \in Engines, NEW t \in Transports, SameOrder(e, t),
         UNCHANGED <<changeCounter, folder, writer>>
  PROVE  OrderInv'
<1>1. \A t2 \in Transports : WriterOrder(t2)'
  BY DEF OrderInv, WriterOrder
<1>2. ASSUME NEW e2 \in Engines, NEW t2 \in Transports,
             NEW i \in 1 .. Len(queue'[e2][t2])
      PROVE  OpOrder(e2, t2, i)'
  <2>1. CASE ~(e2 = e /\ t2 = t)
    <3>1. queue'[e2][t2] = queue[e2][t2]
      BY <2>1 DEF SameOrder
    <3>2. OpOrder(e2, t2, i)
      BY <3>1 DEF OrderInv
    <3> QED
      BY <3>1, <3>2 DEF OpOrder
  <2>2. CASE e2 = e /\ t2 = t
    <3>1. i \in 1 .. Len(queue[e][t]) /\ OpOrder(e, t, i)
      BY <2>2 DEF SameOrder, OrderInv
    <3>2. \A j \in i .. Len(queue[e][t]) :
            /\ queue'[e][t][j].dom = queue[e][t][j].dom
            /\ queue'[e][t][j].cover = queue[e][t][j].cover
      BY <3>1 DEF SameOrder
    <3>3. Len(queue'[e][t]) = Len(queue[e][t]) /\ i \in i .. Len(queue[e][t])
      BY <3>1 DEF SameOrder
    <3> QED
      BY <2>2, <3>1, <3>2, <3>3 DEF OpOrder
  <2> QED
    BY <2>1, <2>2
<1> QED
  BY <1>1, <1>2 DEF OrderInv

\* A new operation covers everything: it may wait behind all the others.
LEMMA PublishSafe ==
  ASSUME IInv, NEW d \in Domains, PublishDomain(d)
  PROVE  Safe'
<1>1. /\ run \in Run /\ run # None /\ run.awaiting = None
      /\ RunInv
      /\ changeCounter \in Nat
  BY DEF PublishDomain, Looping, IInv, TypeOK, Safe
<1>2. PICK e \in Engines : e = run.eng
  BY <1>1 DEF Run
<1>3. PICK t \in Transports : t = Carrier[d]
  BY ConstantsAssumption
<1>4. Enqueued(e, t, d)
  BY <1>2, <1>3, PublishQueue DEF IInv
<1>5. UNCHANGED <<changeCounter, lastPublish, changedAt, edits, folder,
                  current, publishedAt, writer>>
  BY DEF PublishDomain, database, disk, memory
<1>6. /\ run'.eng = run.eng /\ run'.at = run.at /\ run'.last = run.last
      /\ run'.changedAt = run.changedAt /\ run'.covered = run.covered
      /\ run'.todo = run.todo \ {d} /\ run'.awaiting = d
      /\ run'.failed = run.failed /\ run'.superseded = run.superseded
      /\ run'.unrouted = run.unrouted
  <2>1. run' = [run EXCEPT !.awaiting = d, !.todo = run.todo \ {d}]
    BY DEF PublishDomain
  <2> QED
    BY <1>1, <2>1 DEF Run
<1>7. Single'
  <2>1. e = current
    BY <1>1, <1>2 DEF IInv, Safe, Single
  <2> QED
    BY <1>2, <1>4, <1>5, <1>6, <2>1 DEF Enqueued, IInv, Safe, Single, Busy
<1>8. CountersInv'
  BY <1>5 DEF IInv, Safe, CountersInv, DomainInv, Covered
<1>9. OrderInv'
  <2>1. \A t2 \in Transports : WriterOrder(t2)'
    BY <1>5 DEF IInv, Safe, OrderInv, WriterOrder
  <2>2. ASSUME NEW e2 \in Engines, NEW t2 \in Transports,
               NEW i \in 1 .. Len(queue'[e2][t2])
        PROVE  OpOrder(e2, t2, i)'
    <3>1. CASE ~(e2 = e /\ t2 = t)
      <4>1. queue'[e2][t2] = queue[e2][t2]
        BY <1>4, <3>1 DEF Enqueued
      <4>2. OpOrder(e2, t2, i)
        BY <4>1 DEF IInv, Safe, OrderInv
      <4> QED
        BY <1>5, <4>1, <4>2 DEF OpOrder
    <3>2. CASE e2 = e /\ t2 = t /\ i \in 1 .. Len(queue[e][t])
      <4>1. OpOrder(e, t, i) /\ queue[e][t][i] \in Op
        BY <1>4, <3>2 DEF Enqueued, IInv, Safe, OrderInv
      <4>2. \A j \in i .. Len(queue'[e][t]) :
              queue'[e][t][j].dom = queue'[e][t][i].dom
                => queue'[e][t][i].cover <= queue'[e][t][j].cover
        <5> SUFFICES ASSUME NEW j \in i .. Len(queue'[e][t]),
                            queue'[e][t][j].dom = queue'[e][t][i].dom
                     PROVE  queue'[e][t][i].cover <= queue'[e][t][j].cover
          OBVIOUS
        <5>1. CASE j \in 1 .. Len(queue[e][t])
          <6>1. /\ queue'[e][t][i].dom = queue[e][t][i].dom
                /\ queue'[e][t][i].cover = queue[e][t][i].cover
                /\ queue'[e][t][j].dom = queue[e][t][j].dom
                /\ queue'[e][t][j].cover = queue[e][t][j].cover
            BY <1>4, <3>2, <5>1 DEF Enqueued
          <6>2. j \in i .. Len(queue[e][t])
            BY <5>1
          <6>3. queue[e][t][j].dom = queue[e][t][i].dom
                  => queue[e][t][i].cover <= queue[e][t][j].cover
            BY <4>1, <6>2 DEF OpOrder
          <6> QED
            BY <6>1, <6>3
        <5>2. CASE j = Len(queue[e][t]) + 1
          <6>1. queue'[e][t][j].cover = changeCounter
            BY <1>4, <5>2 DEF Enqueued
          <6> QED
            BY <1>4, <3>2, <4>1, <6>1 DEF Enqueued, OpOrder
        <5>3. /\ Len(queue[e][t]) \in Nat
              /\ Len(queue'[e][t]) = Len(queue[e][t]) + 1
          BY <1>4 DEF Enqueued
        <5>4. j \in 1 .. Len(queue[e][t]) \/ j = Len(queue[e][t]) + 1
          BY <3>2, <5>3
        <5> QED
          BY <5>1, <5>2, <5>4
      <4>3. /\ queue'[e][t][i].dom = queue[e][t][i].dom
            /\ queue'[e][t][i].cover = queue[e][t][i].cover
        BY <1>4, <3>2 DEF Enqueued
      <4> QED
        BY <1>5, <3>2, <4>1, <4>2, <4>3 DEF OpOrder
    <3>3. CASE e2 = e /\ t2 = t /\ i = Len(queue[e][t]) + 1
      <4>1. /\ queue'[e][t][i].dom = d
            /\ queue'[e][t][i].cover = changeCounter
            /\ \A j \in i .. Len(queue'[e][t]) : j = i
        BY <1>4, <3>3 DEF Enqueued
      <4>2. folder[d] <= changeCounter
        BY DEF IInv, Safe, CountersInv, DomainInv
      <4>3. writer[t] # None => writer[t].cover <= changeCounter
        BY DEF IInv, Safe, OrderInv, WriterOrder
      <4> QED
        BY <1>1, <1>5, <3>3, <4>1, <4>2, <4>3 DEF OpOrder
    <3> QED
      BY <1>4, <3>1, <3>2, <3>3 DEF Enqueued
  <2> QED
    BY <2>1, <2>2 DEF OrderInv
<1>10. RunInv'
  <2>1. Dirty' /\ Complete' => Dirty /\ Complete
    BY <1>6 DEF Dirty, Complete
  <2>2. Domains \ (run'.todo \cup {run'.awaiting})
          \subseteq Domains \ (run.todo \cup {run.awaiting})
    BY <1>1, <1>6, ConstantsAssumption
  <2> QED
    BY <1>1, <1>5, <1>6, <2>1, <2>2 DEF RunInv, Covered
<1> QED
  BY <1>7, <1>8, <1>9, <1>10 DEF Safe

\* An operation the run gives up on keeps its place.
LEMMA EngineTimeoutSafe ==
  ASSUME IInv, EngineTimeout
  PROVE  Safe'
<1>1. run \in Run /\ run # None /\ run.awaiting \in Domains
  BY DEF EngineTimeout, IInv, TypeOK, Run
<1>2. PICK e \in Engines : e = run.eng
  BY <1>1 DEF Run
<1>3. PICK t \in Transports : t = Carrier[run.awaiting]
  BY <1>1, ConstantsAssumption
<1>4. UNCHANGED <<changeCounter, lastPublish, changedAt, edits, folder,
                  current, publishedAt, writer>>
  BY DEF EngineTimeout, database, disk, memory
<1>5. /\ run'.eng = run.eng /\ run'.at = run.at /\ run'.last = run.last
      /\ run'.changedAt = run.changedAt /\ run'.covered = run.covered
      /\ run'.failed
  <2>1. run' = [run EXCEPT !.awaiting = None, !.failed = TRUE]
    BY DEF EngineTimeout
  <2> QED
    BY <1>1, <2>1 DEF Run
<1>6. queue' = [queue EXCEPT ![e][t] = Abandon(queue[e][t])]
  BY <1>2, <1>3 DEF EngineTimeout
<1>7. /\ queue \in QueueType
      /\ queue[e][t] \in Seq(Op)
  BY DEF IInv, TypeOK, QueueType
<1>8. SameOrder(e, t)
  <2> DEFINE left == Abandon(queue[e][t])
  <2>1. /\ left \in Seq(Op)
        /\ Len(left) = Len(queue[e][t])
        /\ \A i \in 1 .. Len(queue[e][t]) :
             /\ left[i].dom = queue[e][t][i].dom
             /\ left[i].cover = queue[e][t][i].cover
    BY <1>7, AbandonOps
  <2>2. queue' = [queue EXCEPT ![e][t] = left]
    BY <1>6
  <2> HIDE DEF left
  <2>3. /\ queue'[e][t] = left
        /\ \A e2 \in Engines, t2 \in Transports :
             ~(e2 = e /\ t2 = t) => queue'[e2][t2] = queue[e2][t2]
    BY <1>7, <2>1, <2>2, QueueUpdate DEF QueueType
  <2> QED
    BY <2>1, <2>3 DEF SameOrder
<1>9. e = current
  BY <1>1, <1>2 DEF IInv, Safe, Single
<1>10. Single'
  BY <1>2, <1>4, <1>5, <1>8, <1>9 DEF SameOrder, IInv, Safe, Single, Busy
<1>11. CountersInv'
  BY <1>4 DEF IInv, Safe, CountersInv, DomainInv, Covered
<1>12. OrderInv'
  BY <1>4, <1>8, SameOrderInv DEF IInv, Safe
<1>13. RunInv'
  <2>1. ~Complete'
    BY <1>5 DEF Complete
  <2> QED
    BY <1>1, <1>4, <1>5, <2>1 DEF RunInv, IInv, Safe
<1> QED
  BY <1>10, <1>11, <1>12, <1>13 DEF Safe

\* A head that goes on: neither the counters nor the run notice.
LEMMA StageSafe ==
  ASSUME IInv, NEW e \in Engines, NEW t \in Transports, NEW stage \in Stages,
         Busy(e, t), SetStage(e, t, stage), UNCHANGED <<database, disk>>
  PROVE  SameOrder(e, t) /\ Single' /\ CountersInv' /\ RunInv'
<1>1. SameOrder(e, t)
  BY StageShape DEF SameOrder, IInv, Shape
<1>2. UNCHANGED <<changeCounter, lastPublish, changedAt, edits, folder,
                  current, publishedAt, run>>
  BY DEF SetStage, database, disk, memory
<1>3. e = current
  BY DEF IInv, Safe, Single
<1>4. Single'
  BY <1>1, <1>2, <1>3 DEF SameOrder, IInv, Safe, Single, Busy
<1>5. CountersInv' /\ RunInv'
  BY <1>2 DEF IInv, Safe, CountersInv, DomainInv, Covered, RunInv, Dirty, Complete
<1> QED
  BY <1>1, <1>4, <1>5

\* What the host may do to a lock while an operation settles.
KeptOrReleased(t) ==
  \/ writer'[t] = None
  \/ /\ writer[t] # None
     /\ writer'[t].dom = writer[t].dom
     /\ writer'[t].cover = writer[t].cover
     /\ writer'[t].committed = writer[t].committed

\* A lock that is kept or released keeps its order.
LEMMA WriterOrderKept ==
  ASSUME IInv, UNCHANGED <<changeCounter, folder>>,
         NEW t \in Transports, KeptOrReleased(t)
  PROVE  WriterOrder(t)'
BY DEF IInv, Safe, OrderInv, WriterOrder, KeptOrReleased

\* An operation that settles, however, keeps the safety part.
LEMMA SettleSafe ==
  ASSUME IInv, NEW e \in Engines, NEW t \in Transports,
         NEW outcome \in {"ok", "stale_publish", "failed"},
         Busy(e, t), Settle(e, t, outcome), UNCHANGED <<database, disk>>,
         outcome = "ok" => Covered(queue[e][t][1].dom, queue[e][t][1].cover),
         \A t2 \in Transports : KeptOrReleased(t2)
  PROVE  Safe'
<1> DEFINE op == queue[e][t][1]
<1>1. /\ HeadOp(e, t) = op
      /\ op \in Op
      /\ op.dom \in Domains /\ op.cover \in Nat /\ op.abandoned \in BOOLEAN
      /\ 1 \in 1 .. Len(queue[e][t])
  <2>1. HeadOp(e, t) = op /\ op \in Op /\ 1 \in 1 .. Len(queue[e][t])
    BY TailOps, EmptySeq DEF HeadOp, Busy, IInv, TypeOK
  <2> QED
    BY <2>1 DEF Op
<1>2. /\ OpShape(e, t, 1)
      /\ OpOrder(e, t, 1)
  BY <1>1 DEF IInv, Shape, OpsShape, Safe, OrderInv
<1>3. UNCHANGED <<changeCounter, lastPublish, changedAt, edits, folder, current>>
  BY DEF Settle, database, disk
<1>4. /\ queue'[e][t] = Tail(queue[e][t])
      /\ \A e2 \in Engines, t2 \in Transports :
           ~(e2 = e /\ t2 = t) => queue'[e2][t2] = queue[e2][t2]
  BY SettleShape DEF IInv, Shape
<1>5. e = current
  BY DEF IInv, Safe, Single
<1>6. /\ Len(Tail(queue[e][t])) = Len(queue[e][t]) - 1
      /\ \A i \in 1 .. Len(Tail(queue[e][t])) :
           i + 1 \in 1 .. Len(queue[e][t]) /\ Tail(queue[e][t])[i] = queue[e][t][i + 1]
      /\ Len(queue[e][t]) \in Nat
  BY TailOps, LenProperties DEF Busy, IInv, TypeOK
<1>7. OrderInv'
  <2>1. \A t2 \in Transports : WriterOrder(t2)'
    BY <1>3, WriterOrderKept
  <2>2. ASSUME NEW e2 \in Engines, NEW t2 \in Transports,
               NEW i \in 1 .. Len(queue'[e2][t2])
        PROVE  OpOrder(e2, t2, i)'
    <3>0. KeptOrReleased(t2)
      OBVIOUS
    <3>1. CASE ~(e2 = e /\ t2 = t)
      <4>1. queue'[e2][t2] = queue[e2][t2]
        BY <1>4, <3>1
      <4>2. OpOrder(e2, t2, i)
        BY <4>1 DEF IInv, Safe, OrderInv
      <4> QED
        BY <1>3, <3>0, <4>1, <4>2 DEF OpOrder, KeptOrReleased
    <3>2. CASE e2 = e /\ t2 = t
      <4>1. /\ i + 1 \in 1 .. Len(queue[e][t])
            /\ queue'[e][t][i] = queue[e][t][i + 1]
        BY <1>4, <1>6, <3>2
      <4>2. OpOrder(e, t, i + 1)
        BY <4>1 DEF IInv, Safe, OrderInv
      <4>3. \A j \in i .. Len(queue'[e][t]) :
              /\ j + 1 \in i + 1 .. Len(queue[e][t])
              /\ queue'[e][t][j] = queue[e][t][j + 1]
        BY <1>4, <1>6, <3>2
      <4>4. /\ queue'[e][t][i].cover <= changeCounter'
            /\ folder'[queue'[e][t][i].dom] <= queue'[e][t][i].cover
        BY <1>3, <4>1, <4>2 DEF OpOrder
      <4>5. \A j \in i .. Len(queue'[e][t]) :
              queue'[e][t][j].dom = queue'[e][t][i].dom
                => queue'[e][t][i].cover <= queue'[e][t][j].cover
        BY <4>1, <4>2, <4>3 DEF OpOrder
      <4>6. writer'[t] # None /\ ~writer'[t].committed
              /\ writer'[t].dom = queue'[e][t][i].dom
                => writer'[t].cover <= queue'[e][t][i].cover
        BY <3>0, <3>2, <4>1, <4>2 DEF OpOrder, KeptOrReleased
      <4> QED
        BY <3>2, <4>4, <4>5, <4>6 DEF OpOrder
    <3> QED
      BY <3>1, <3>2
  <2> QED
    BY <2>1, <2>2 DEF OrderInv
<1>8. ASSUME UNCHANGED run, publishedAt' = [publishedAt EXCEPT ![e][op.dom] = 0]
      PROVE  Safe'
  <2>1. Single'
    BY <1>3, <1>4, <1>5, <1>8 DEF IInv, Safe, Single, Busy
  <2>2. RunInv'
    BY <1>3, <1>8 DEF IInv, Safe, RunInv, Covered, Dirty, Complete
  <2>3. ASSUME NEW d \in Domains
        PROVE  DomainInv(d)'
    <3>1. DomainInv(d) /\ edits[d] \in SUBSET Nat /\ folder[d] \in Nat
          /\ changeCounter \in Nat
      BY DEF IInv, TypeOK, Safe, CountersInv
    <3>2. publishedAt'[current][d] = IF d = op.dom THEN 0 ELSE publishedAt[current][d]
      BY <1>1, <1>5, <1>8 DEF IInv, TypeOK
    <3>3. CASE d = op.dom
      BY <1>3, <3>1, <3>2, <3>3 DEF DomainInv, Covered
    <3>4. CASE d # op.dom
      BY <1>3, <3>1, <3>2, <3>4 DEF DomainInv, Covered
    <3> QED
      BY <3>3, <3>4
  <2>4. CountersInv'
    BY <1>3, <2>3 DEF IInv, Safe, CountersInv
  <2> QED
    BY <1>7, <2>1, <2>2, <2>4 DEF Safe
<1>9. ASSUME ~op.abandoned, outcome = "ok", Published(e, op)
      PROVE  Safe'
  <2>1. /\ run # None /\ run.eng = e /\ run.awaiting = op.dom
        /\ run \in Run
    BY <1>2, <1>9 DEF OpShape, IInv, TypeOK
  <2>2. /\ run'.eng = run.eng /\ run'.at = run.at /\ run'.last = run.last
        /\ run'.changedAt = run.changedAt /\ run'.awaiting = None
        /\ run'.todo = run.todo
        /\ run'.covered = run.covered \cup {op.cover}
        /\ run'.failed = run.failed /\ run'.superseded = run.superseded
        /\ run'.unrouted = run.unrouted
    BY <1>9, <2>1 DEF Published, Run
  <2>3. op.cover <= changeCounter /\ Covered(op.dom, op.cover)
    BY <1>2, <1>9 DEF OpOrder
  <2>4. Single'
    BY <1>3, <1>4, <1>5, <2>1, <2>2 DEF IInv, Safe, Single, Busy
  <2>5. RunInv'
    <3>1. RunInv
      BY DEF IInv, Safe
    <3>2. ASSUME Dirty', Complete', NEW d \in Domains \ (run'.todo \cup {run'.awaiting})
          PROVE  \E c \in run'.covered : Covered(d, c)
      <4>1. Dirty /\ Complete
        BY <2>2, <3>2 DEF Dirty, Complete
      <4>2. CASE d = op.dom
        BY <2>2, <2>3, <4>2
      <4>3. CASE d # op.dom
        BY <2>1, <2>2, <3>1, <3>2, <4>1, <4>3 DEF RunInv
      <4> QED
        BY <4>2, <4>3
    <3> QED
      BY <1>3, <2>1, <2>2, <2>3, <3>1, <3>2 DEF RunInv, Covered
  <2>6. ASSUME NEW d \in Domains
        PROVE  DomainInv(d)'
    <3>1. DomainInv(d)
      BY DEF IInv, Safe, CountersInv
    <3>2. publishedAt'[current][d] =
            IF d = op.dom THEN op.cover ELSE publishedAt[current][d]
      <4>1. publishedAt' = [publishedAt EXCEPT ![e][op.dom] = op.cover]
        BY <1>9 DEF Published
      <4> QED
        BY <1>1, <1>5, <4>1 DEF IInv, TypeOK
    <3>3. CASE d = op.dom
      BY <1>3, <2>3, <3>1, <3>2, <3>3 DEF DomainInv, Covered
    <3>4. CASE d # op.dom
      BY <1>3, <3>1, <3>2, <3>4 DEF DomainInv, Covered
    <3> QED
      BY <3>3, <3>4
  <2>7. CountersInv'
    BY <1>3, <2>6 DEF IInv, Safe, CountersInv
  <2> QED
    BY <1>7, <2>4, <2>5, <2>7 DEF Safe
<1>10. ASSUME ~op.abandoned, outcome # "ok", NotPublished(e, op, outcome)
       PROVE  Safe'
  <2>1. run # None /\ run.eng = e /\ run \in Run
    BY <1>2, <1>10 DEF OpShape, IInv, TypeOK
  <2>2. /\ run'.eng = run.eng /\ run'.at = run.at /\ run'.last = run.last
        /\ run'.changedAt = run.changedAt /\ run'.covered = run.covered
        /\ UNCHANGED publishedAt
    BY <1>10, <2>1 DEF NotPublished, Run
  <2>3. ~Complete'
    <3>1. outcome = "stale_publish" \/ outcome = "failed"
      BY <1>10
    <3> QED
      BY <1>10, <2>1, <3>1 DEF NotPublished, Run, Complete
  <2>4. Single'
    BY <1>3, <1>4, <1>5, <2>1, <2>2 DEF IInv, Safe, Single, Busy
  <2>5. RunInv'
    BY <1>3, <2>1, <2>2, <2>3 DEF IInv, Safe, RunInv
  <2>6. CountersInv'
    BY <1>3, <2>2 DEF IInv, Safe, CountersInv, DomainInv, Covered
  <2> QED
    BY <1>7, <2>4, <2>5, <2>6 DEF Safe
<1> QED
  BY <1>1, <1>8, <1>9, <1>10 DEF Settle, RepairAfterLatePublish

\* An operation that moves on or fails keeps the safety part.
LEMMA AdvanceSafe ==
  ASSUME IInv, NEW e \in Engines, NEW t \in Transports,
         Begin(e, t) \/ Send(e, t) \/ TransportFails(e, t)
  PROVE  Safe'
<1>1. Busy(e, t) /\ UNCHANGED <<database, disk, writer>>
  BY DEF Begin, Send, Advance, TransportFails
<1>2. \A t2 \in Transports : KeptOrReleased(t2)
  BY <1>1 DEF KeptOrReleased
<1>3. ASSUME NEW outcome \in {"stale_publish", "failed"}, Settle(e, t, outcome)
      PROVE  Safe'
  BY <1>1, <1>2, <1>3, SettleSafe
<1>4. ASSUME NEW stage \in Stages, SetStage(e, t, stage)
      PROVE  Safe'
  <2>1. SameOrder(e, t) /\ Single' /\ CountersInv' /\ RunInv'
    BY <1>1, <1>4, StageSafe
  <2>2. OrderInv'
    BY <1>1, <2>1, SameOrderInv DEF IInv, Safe, database, disk
  <2> QED
    BY <2>1, <2>2 DEF Safe
<1> QED
  BY <1>3, <1>4 DEF Begin, Send, Advance, TransportFails, Stages

\* The head that takes the lock is the oldest snapshot of its domain.
LEMMA HostLockSafe ==
  ASSUME IInv, NEW e \in Engines, NEW t \in Transports, HostLock(e, t)
  PROVE  Safe'
<1> DEFINE op == queue[e][t][1]
<1>1. /\ Busy(e, t)
      /\ HeadOp(e, t) = op
      /\ op \in Op
      /\ 1 \in 1 .. Len(queue[e][t])
  <2>1. Busy(e, t)
    BY DEF HostLock
  <2> QED
    BY <2>1, TailOps, EmptySeq DEF HeadOp, Busy, IInv, TypeOK
<1>2. /\ SetStage(e, t, "writing") /\ "writing" \in Stages
      /\ UNCHANGED <<database, disk>>
  BY DEF HostLock, Stages
<1>3. SameOrder(e, t) /\ Single' /\ CountersInv' /\ RunInv'
  BY <1>1, <1>2, StageSafe
<1>4. /\ writer'[t].dom = op.dom /\ writer'[t].cover = op.cover
      /\ ~writer'[t].committed
      /\ \A t2 \in Transports : t2 # t => writer'[t2] = writer[t2]
  <2>1. writer' = [writer EXCEPT ![t] = [dom |-> HeadOp(e, t).dom,
                                         cover |-> HeadOp(e, t).cover,
                                         owner |-> e, committed |-> FALSE]]
    BY DEF HostLock
  <2>2. writer' = [writer EXCEPT ![t] = [dom |-> op.dom, cover |-> op.cover,
                                         owner |-> e, committed |-> FALSE]]
    BY <1>1, <2>1
  <2> QED
    BY <2>2 DEF IInv, TypeOK
<1>5. UNCHANGED <<changeCounter, folder>> /\ e = current
  BY <1>1, <1>2 DEF database, disk, IInv, Safe, Single
<1>6. OpOrder(e, t, 1)
  BY <1>1 DEF IInv, Safe, OrderInv
<1>7. ASSUME NEW t2 \in Transports
      PROVE  WriterOrder(t2)'
  <2>1. CASE t2 = t
    BY <1>4, <1>5, <1>6, <2>1 DEF WriterOrder, OpOrder
  <2>2. CASE t2 # t
    BY <1>4, <1>5, <2>2 DEF IInv, Safe, OrderInv, WriterOrder
  <2> QED
    BY <2>1, <2>2
<1>8. ASSUME NEW e2 \in Engines, NEW t2 \in Transports,
             NEW i \in 1 .. Len(queue'[e2][t2])
      PROVE  OpOrder(e2, t2, i)'
  <2>1. CASE e2 = e /\ t2 = t
    <3>1. i \in 1 .. Len(queue[e][t]) /\ OpOrder(e, t, i)
      BY <1>3, <2>1 DEF SameOrder, IInv, Safe, OrderInv
    <3>2. \A j \in 1 .. Len(queue[e][t]) :
            /\ queue'[e][t][j].dom = queue[e][t][j].dom
            /\ queue'[e][t][j].cover = queue[e][t][j].cover
      BY <1>3 DEF SameOrder
    <3>3. Len(queue'[e][t]) = Len(queue[e][t]) /\ Len(queue[e][t]) \in Nat
      BY <1>3, LenProperties DEF SameOrder, IInv, TypeOK
    <3>4. queue[e][t][i].dom = op.dom => op.cover <= queue[e][t][i].cover
      BY <1>6, <3>1 DEF OpOrder
    <3>5. \A j \in i .. Len(queue'[e][t]) :
            queue'[e][t][j].dom = queue'[e][t][i].dom
              => queue'[e][t][i].cover <= queue'[e][t][j].cover
      <4> SUFFICES ASSUME NEW j \in i .. Len(queue[e][t]),
                          queue[e][t][j].dom = queue[e][t][i].dom
                   PROVE  queue[e][t][i].cover <= queue[e][t][j].cover
        BY <3>1, <3>2, <3>3
      <4> QED
        BY <3>1 DEF OpOrder
    <3>6. writer'[t].dom = queue'[e][t][i].dom => writer'[t].cover <= queue'[e][t][i].cover
      BY <1>4, <3>1, <3>2, <3>4
    <3>7. /\ queue'[e][t][i].cover <= changeCounter
          /\ folder[queue'[e][t][i].dom] <= queue'[e][t][i].cover
      BY <3>1, <3>2 DEF OpOrder
    <3> QED
      BY <1>5, <2>1, <3>5, <3>6, <3>7 DEF OpOrder
  <2>2. CASE ~(e2 = e /\ t2 = t)
    <3>1. queue'[e2][t2] = queue[e2][t2]
      BY <1>3, <2>2 DEF SameOrder
    <3>2. OpOrder(e2, t2, i)
      BY <3>1 DEF IInv, Safe, OrderInv
    <3>3. t2 # t
      <4>1. SUFFICES ASSUME e2 # current PROVE FALSE
        BY <1>5, <2>2
      <4>2. queue[e2][t2] = << >>
        BY <4>1 DEF IInv, Safe, Single, Busy
      <4> QED
        BY <3>1, <4>2
    <3> QED
      BY <1>4, <1>5, <3>1, <3>2, <3>3 DEF OpOrder
  <2> QED
    BY <2>1, <2>2
<1> QED
  BY <1>3, <1>7, <1>8 DEF Safe, OrderInv

\* A commit only adds to what its domain's bundle holds.
LEMMA HostCommitSafe ==
  ASSUME IInv, NEW t \in Transports, HostCommit(t)
  PROVE  Safe' /\ \A d \in Domains : folder[d] <= folder'[d]
<1> DEFINE w == writer[t]
<1>1. /\ w \in Writer /\ w # None /\ ~w.committed
      /\ w.dom \in Domains /\ w.cover \in Nat
      /\ Carrier[w.dom] = t
  <2>1. w \in Writer /\ w # None /\ ~w.committed
    BY DEF HostCommit, IInv, TypeOK
  <2> QED
    BY <2>1 DEF Writer, IInv, Shape, LockShape
<1>2. /\ UNCHANGED <<changeCounter, lastPublish, changedAt, edits, current,
                     publishedAt, run, queue>>
      /\ folder \in [Domains -> Nat]
  BY DEF HostCommit, database, memory, IInv, TypeOK
<1>3. \A d \in Domains : folder'[d] = IF d = w.dom THEN w.cover ELSE folder[d]
  BY <1>1, <1>2 DEF HostCommit
<1>4. w.cover <= changeCounter /\ folder[w.dom] <= w.cover
  BY <1>1 DEF IInv, Safe, OrderInv, WriterOrder
<1>5. \A d \in Domains : folder[d] <= folder'[d] /\ folder'[d] \in Nat
  BY <1>1, <1>2, <1>3, <1>4
<1>6. ASSUME NEW d \in Domains, NEW c, Covered(d, c)
      PROVE  Covered(d, c)'
  <2>1. edits[d] \in SUBSET Nat
    BY DEF IInv, TypeOK
  <2> QED
    BY <1>2, <1>5, <1>6, <2>1 DEF Covered
<1>7. Single'
  BY <1>2 DEF IInv, Safe, Single, Busy
<1>8. CountersInv'
  <2>1. ASSUME NEW d \in Domains
        PROVE  DomainInv(d)'
    <3>1. DomainInv(d)
      BY DEF IInv, Safe, CountersInv
    <3>2. Covered(d, lastPublish)' /\ Covered(d, publishedAt[current][d])'
      <4>1. Covered(d, lastPublish) /\ Covered(d, publishedAt[current][d])
        BY <3>1 DEF DomainInv
      <4> QED
        BY <1>2, <1>5, <4>1 DEF Covered, IInv, TypeOK
    <3>3. folder'[d] <= changeCounter
      BY <1>3, <1>4, <3>1 DEF DomainInv
    <3> QED
      BY <1>2, <3>1, <3>2, <3>3 DEF DomainInv
  <2> QED
    BY <1>2, <2>1 DEF IInv, Safe, CountersInv
<1>9. /\ writer'[t].dom = w.dom /\ writer'[t].cover = w.cover
      /\ writer'[t].committed
      /\ \A t2 \in Transports : t2 # t => writer'[t2] = writer[t2]
  <2> DEFINE done == [w EXCEPT !.committed = TRUE]
  <2>1. done.dom = w.dom /\ done.cover = w.cover /\ done.committed
    BY <1>1 DEF Writer
  <2>2. writer' = [writer EXCEPT ![t] = done]
    BY DEF HostCommit
  <2> HIDE DEF done
  <2> QED
    BY <2>1, <2>2 DEF IInv, TypeOK
<1>10. OrderInv'
  <2>1. ASSUME NEW t2 \in Transports
        PROVE  WriterOrder(t2)'
    <3>1. CASE t2 = t
      BY <1>1, <1>2, <1>3, <1>4, <1>9, <3>1 DEF WriterOrder
    <3>2. CASE t2 # t
      <4>1. WriterOrder(t2) /\ writer'[t2] = writer[t2]
        BY <1>9, <3>2 DEF IInv, Safe, OrderInv
      <4>2. writer[t2] # None => writer[t2].dom \in Domains /\ writer[t2].dom # w.dom
        BY <1>1, <3>2 DEF IInv, TypeOK, Shape, LockShape, Writer
      <4> QED
        BY <1>2, <1>3, <4>1, <4>2 DEF WriterOrder
    <3> QED
      BY <3>1, <3>2
  <2>2. ASSUME NEW e2 \in Engines, NEW t2 \in Transports,
               NEW i \in 1 .. Len(queue'[e2][t2])
        PROVE  OpOrder(e2, t2, i)'
    <3> DEFINE op == queue[e2][t2][i]
    <3>1. /\ OpOrder(e2, t2, i)
          /\ op \in Op
          /\ Carrier[op.dom] = t2
      <4>1. OpOrder(e2, t2, i) /\ OpShape(e2, t2, i)
        BY <1>2 DEF IInv, Safe, OrderInv, Shape, OpsShape
      <4>2. op \in Op
        BY <1>2, ElementOfSeq DEF IInv, TypeOK
      <4> QED
        BY <4>1, <4>2 DEF OpShape
    <3>2. folder'[op.dom] <= op.cover
      BY <1>1, <1>3, <3>1 DEF OpOrder, Op
    <3>3. writer'[t2] # None /\ ~writer'[t2].committed /\ writer'[t2].dom = op.dom
            => writer'[t2].cover <= op.cover
      BY <1>9, <3>1 DEF OpOrder
    <3> QED
      BY <1>2, <3>1, <3>2, <3>3 DEF OpOrder
  <2> QED
    BY <2>1, <2>2 DEF OrderInv
<1>11. RunInv'
  <2> SUFFICES ASSUME run # None PROVE RunInv'
    BY <1>2 DEF RunInv
  <2>1. RunInv
    BY DEF IInv, Safe
  <2>2. ASSUME Dirty, Complete, NEW d \in Domains \ (run.todo \cup {run.awaiting})
        PROVE  \E c \in run.covered : Covered(d, c)'
    <3>1. PICK c \in run.covered : Covered(d, c)
      BY <2>1, <2>2 DEF RunInv
    <3> QED
      BY <1>6, <3>1
  <2> QED
    BY <1>2, <2>1, <2>2 DEF RunInv, Dirty, Complete, Covered
<1> QED
  BY <1>5, <1>7, <1>8, <1>10, <1>11 DEF Safe

\* What the lock's holder wrote is what its operation was to write.
LEMMA OwnedOp ==
  ASSUME IInv, NEW e \in Engines, NEW t \in Transports, Owns(e, t)
  PROVE  /\ Busy(e, t)
         /\ writer[t] \in Writer /\ writer[t] # None
         /\ queue[e][t][1].dom = writer[t].dom
         /\ queue[e][t][1].cover = writer[t].cover
BY DEF IInv, TypeOK, Shape, LockShape, WriterShape, Owns

\* A publish that returns or fails in the host keeps the safety part.
LEMMA HostEndSafe ==
  ASSUME IInv, NEW t \in Transports, HostReturn(t) \/ HostFails(t)
  PROVE  Safe'
<1>1. /\ writer[t] \in Writer /\ writer[t] # None
      /\ writer' = [writer EXCEPT ![t] = None]
      /\ UNCHANGED <<database, disk>>
  BY DEF HostReturn, HostFails, IInv, TypeOK
<1>2. \A t2 \in Transports : KeptOrReleased(t2)
  BY <1>1 DEF KeptOrReleased, IInv, TypeOK
<1>3. CASE writer[t].owner = None
  <2>1. UNCHANGED <<changeCounter, lastPublish, changedAt, edits, folder,
                    current, publishedAt, run, queue>>
    BY <1>1, <1>3 DEF HostReturn, HostFails, database, disk, memory
  <2>2. Single' /\ CountersInv' /\ RunInv'
    BY <2>1 DEF IInv, Safe, Single, Busy, CountersInv, DomainInv, Covered, RunInv,
                Dirty, Complete
  <2>3. \A t2 \in Transports : WriterOrder(t2)'
    BY <1>2, <2>1, WriterOrderKept
  <2>4. \A e2 \in Engines, t2 \in Transports :
          \A i \in 1 .. Len(queue[e2][t2]) : OpOrder(e2, t2, i)'
    BY <1>2, <2>1 DEF IInv, Safe, OrderInv, OpOrder, KeptOrReleased
  <2> QED
    BY <2>1, <2>2, <2>3, <2>4 DEF Safe, OrderInv
<1>4. CASE writer[t].owner # None
  <2>1. PICK e \in Engines : e = writer[t].owner
    BY <1>1, <1>4 DEF Writer
  <2>2. Owns(e, t)
    BY <1>1, <2>1 DEF Owns
  <2>3. CASE HostReturn(t)
    <3>1. writer[t].committed /\ Settle(e, t, "ok")
      BY <1>4, <2>1, <2>3 DEF HostReturn
    <3>2. folder[writer[t].dom] = writer[t].cover
      BY <1>1, <3>1 DEF IInv, Safe, OrderInv, WriterOrder
    <3>3. Covered(queue[e][t][1].dom, queue[e][t][1].cover)
      BY <2>2, <3>2, OwnedOp DEF Covered
    <3> QED
      BY <1>1, <1>2, <2>2, <3>1, <3>3, OwnedOp, SettleSafe
  <2>4. CASE HostFails(t)
    <3>1. Settle(e, t, "failed")
      BY <1>4, <2>1, <2>4 DEF HostFails
    <3> QED
      BY <1>1, <1>2, <2>2, <3>1, OwnedOp, SettleSafe
  <2> QED
    BY <2>3, <2>4
<1> QED
  BY <1>3, <1>4

\* The manifest that names these bytes holds every change they hold.
LEMMA HostTimeoutSafe ==
  ASSUME IInv, NEW e \in Engines, NEW t \in Transports, HostTimeoutWriting(e, t)
  PROVE  Safe'
<1>1. /\ Busy(e, t)
      /\ Owns(e, t)
  <2>1. Busy(e, t) /\ HeadOp(e, t).stage = "writing"
    BY DEF HostTimeoutWriting
  <2>2. HeadOp(e, t) = queue[e][t][1]
    BY <2>1, TailOps DEF HeadOp, Busy, IInv, TypeOK
  <2> QED
    BY <2>1, <2>2 DEF IInv, Shape, LockShape, WriterShape
<1>2. UNCHANGED <<database, disk>>
  BY DEF HostTimeoutWriting
<1>3. \A t2 \in Transports : KeptOrReleased(t2)
  <2> DEFINE left == [writer[t] EXCEPT !.owner = None]
  <2>1. /\ left.dom = writer[t].dom /\ left.cover = writer[t].cover
        /\ left.committed = writer[t].committed
    BY <1>1, OwnedOp DEF Writer
  <2>2. writer' = [writer EXCEPT ![t] = left]
    BY DEF HostTimeoutWriting
  <2> HIDE DEF left
  <2>3. /\ writer'[t] = left
        /\ \A t2 \in Transports : t2 # t => writer'[t2] = writer[t2]
    BY <2>2 DEF IInv, TypeOK
  <2> QED
    BY <1>1, <2>1, <2>3, OwnedOp DEF KeptOrReleased
<1>4. ASSUME SameBytes(writer[t]), Settle(e, t, "ok")
      PROVE  Safe'
  <2>1. Covered(queue[e][t][1].dom, queue[e][t][1].cover)
    BY <1>1, <1>4, OwnedOp DEF SameBytes, Covered
  <2> QED
    BY <1>1, <1>2, <1>3, <1>4, <2>1, SettleSafe
<1>5. ASSUME Settle(e, t, "failed")
      PROVE  Safe'
  BY <1>1, <1>2, <1>3, <1>5, SettleSafe
<1> QED
  BY <1>4, <1>5 DEF HostTimeoutWriting

\* A fresh process remembers nothing, and owes nothing it could forget.
LEMMA RestartSafe ==
  ASSUME IInv, Restart
  PROVE  Safe'
<1>1. /\ \A e \in Engines, t \in Transports :
           queue'[e][t] = << >> /\ Len(queue'[e][t]) = 0
      /\ \A t \in Transports : writer'[t] = None
      /\ run' = None
      /\ UNCHANGED <<changeCounter, lastPublish, changedAt, edits, folder, current>>
  BY EmptyQueues DEF Restart, database, disk
<1>2. Single' /\ OrderInv' /\ RunInv'
  BY <1>1 DEF Single, Busy, OrderInv, WriterOrder, RunInv
<1>3. ASSUME NEW d \in Domains
      PROVE  DomainInv(d)'
  <2>1. /\ DomainInv(d)
        /\ current \in Engines
        /\ changeCounter \in Nat /\ edits[d] \in SUBSET Nat
    BY DEF IInv, TypeOK, Safe, CountersInv
  <2>2. publishedAt'[current'][d] = 0
    BY <1>1, <2>1 DEF Restart, NoMemory
  <2> QED
    BY <1>1, <2>1, <2>2 DEF DomainInv, Covered
<1> QED
  BY <1>1, <1>2, <1>3 DEF IInv, Safe, CountersInv

\* The initial state is safe.
LEMMA InitSafe ==
  ASSUME Init
  PROVE  Safe
<1>1. /\ \A e \in Engines, t \in Transports :
           queue[e][t] = << >> /\ Len(queue[e][t]) = 0
      /\ \A t \in Transports : writer[t] = None
      /\ run = None
  BY EmptyQueues DEF Init
<1>2. Single /\ OrderInv /\ RunInv
  BY <1>1 DEF Single, Busy, OrderInv, WriterOrder, RunInv
<1>3. CountersInv
  BY DEF Init, NoMemory, CountersInv, DomainInv, Covered
<1> QED
  BY <1>2, <1>3 DEF Safe

\* Every step of the single-engine device keeps the inductive invariant.
LEMMA StepSafe ==
  ASSUME IInv, [Next]_vars
  PROVE  IInv'
<1>1. TypeOK' /\ Shape'
  BY StepTypes DEF IInv
<1> SUFFICES Safe'
  BY <1>1 DEF IInv
<1>2. CASE UNCHANGED vars
  BY <1>2, UnchangedSafe DEF IInv, vars, database, disk, memory
<1>3. CASE LiveNext
  <2>1. ASSUME NEW touched \in SUBSET Domains, Edit(touched)
        PROVE  Safe'
    BY <1>1, <2>1, BumpSafe
  <2>2. CASE Republish
    BY <1>1, <2>2, BumpSafe
  <2>3. CASE StartRun
    BY <2>3, RunSafe
  <2>4. CASE RunStep
    BY <2>4, RunSafe, PublishSafe, FinishSafe DEF RunStep
  <2>5. ASSUME NEW e \in Engines, NEW t \in Transports, TransportStep(e, t)
        PROVE  Safe'
    BY <2>5, AdvanceSafe, HostLockSafe DEF TransportStep
  <2>6. ASSUME NEW t \in Transports, HostStep(t)
        PROVE  Safe'
    BY <2>6, HostCommitSafe, HostEndSafe DEF HostStep
  <2>7. CASE FaultStep
    <3>1. CASE (\E d \in Domains : DomainFails(d)) \/ MarkFails
      BY <3>1, RunSafe
    <3>2. CASE EngineTimeout
      BY <3>2, EngineTimeoutSafe
    <3>3. ASSUME NEW e \in Engines, NEW t \in Transports,
                 TransportFails(e, t) \/ HostTimeoutWriting(e, t)
          PROVE  Safe'
      BY <3>3, AdvanceSafe, HostTimeoutSafe
    <3>4. ASSUME NEW t \in Transports, HostFails(t)
          PROVE  Safe'
      BY <3>4, HostEndSafe
    <3> QED
      BY <2>7, <3>1, <3>2, <3>3, <3>4 DEF FaultStep
  <2> QED
    BY <1>3, <2>1, <2>2, <2>3, <2>4, <2>5, <2>6, <2>7 DEF LiveNext
<1>4. CASE RepublishFails
  BY <1>4, UnchangedSafe DEF RepublishFails, IInv, database, disk, memory
<1>5. CASE Restart
  BY <1>5, RestartSafe
<1> QED
  BY <1>2, <1>3, <1>4, <1>5 DEF Next

\* The inductive invariant of the one-engine specification: what engine, queue,
\* lock and folder know of each other through timeouts, late commits and restarts.
THEOREM Safety == Spec => []IInv
<1>1. Init => IInv
  BY InitTypes, InitSafe DEF IInv
<1>2. IInv /\ [Next]_vars => IInv'
  BY StepSafe
<1> QED
  BY <1>1, <1>2, PTL DEF Spec

\* The pending badge never lies: a change that last_publish_counter claims as
\* published is in its domain's committed bundle (markSyncPublished).
THEOREM PublishedIsTrue == Spec => []ClaimedIsPublished
<1>1. IInv => ClaimedIsPublished
  BY DEF IInv, Safe, CountersInv, DomainInv, Covered, ClaimedIsPublished
<1> QED
  BY <1>1, Safety, PTL

\* No change is stranded: one that no committed bundle holds makes the next run
\* find its domain changed, whatever this engine remembers (engine-publish.ts).
THEOREM NoneStranded == Spec => []NothingStranded
<1>1. IInv => NothingStranded
  <2> SUFFICES ASSUME IInv, NEW d \in Domains, NEW h \in edits[d], h > folder[d]
               PROVE  Owed(d)
    BY DEF NothingStranded
  <2>1. DomainInv(d)
    BY DEF IInv, Safe, CountersInv
  <2>2. /\ h \in Nat /\ folder[d] \in Nat /\ changedAt[d] \in Nat
        /\ lastPublish \in Nat /\ publishedAt[current][d] \in Nat
    BY DEF IInv, TypeOK
  <2> QED
    BY <2>1, <2>2 DEF DomainInv, Covered, Owed, Larger
<1> QED
  BY <1>1, Safety, PTL

----------------------------------------------------------------------------
(* Publisher implements PublishLedger                                      *)

\* Initial states map to initial states of the ledger.
LEMMA InitRefines ==
  ASSUME Init
  PROVE  Ledger!Init
BY DEF Init, Ledger!Init

\* A local change, or a republish, which changes no data.
LEMMA BumpRefines ==
  ASSUME TypeOK, NEW touched \in SUBSET Domains, Edit(touched) \/ Republish
  PROVE  Ledger!Next
<1>1. CASE Edit(touched)
  <2>1. Ledger!Change(touched)
    BY <1>1 DEF Edit, BumpChangeCounter, Ledger!Change, disk
  <2> QED
    BY <2>1 DEF Ledger!Next
<1>2. CASE Republish
  <2>1. edits = [d \in Domains |-> IF d \in {} THEN edits[d] \cup {changeCounter + 1}
                                               ELSE edits[d]]
    BY DEF TypeOK
  <2>2. Ledger!Change({})
    BY <1>2, <2>1 DEF Republish, BumpChangeCounter, Ledger!Change, disk
  <2> QED
    BY <2>2 DEF Ledger!Next
<1> QED
  BY <1>1, <1>2

\* A manifest rename is a Publish of the ledger.
LEMMA CommitRefines ==
  ASSUME IInv, NEW t \in Transports, HostCommit(t)
  PROVE  Ledger!Next
<1> DEFINE w == writer[t]
<1>1. /\ w.dom \in Domains /\ w.cover \in Nat
      /\ folder[w.dom] <= w.cover /\ w.cover <= changeCounter
  <2>1. w \in Writer /\ w # None /\ ~w.committed
    BY DEF HostCommit, IInv, TypeOK
  <2> QED
    BY <2>1 DEF Writer, IInv, Safe, OrderInv, WriterOrder
<1>2. Ledger!Publish(w.dom, w.cover)
  BY <1>1 DEF HostCommit, Ledger!Publish, database
<1>3. w.cover \in 0 .. changeCounter
  BY <1>1 DEF IInv, TypeOK
<1> QED
  BY <1>1, <1>2, <1>3 DEF Ledger!Next

\* Recording a run is a Claim of the ledger, or nothing.
LEMMA FinishRefines ==
  ASSUME IInv, FinishRun
  PROVE  Ledger!Next \/ UNCHANGED Ledger!ledger
<1>1. /\ lastPublish <= lastPublish'
      /\ \A d \in Domains : Covered(d, lastPublish')
      /\ Safe'
      /\ UNCHANGED <<changeCounter, edits, folder>>
  BY FinishSafe DEF FinishRun, disk
<1>2. /\ lastPublish \in Nat /\ lastPublish' \in Nat
      /\ changeCounter \in Nat
      /\ lastPublish' <= changeCounter
  <2>1. TypeOK'
    BY RunTypes DEF IInv
  <2> QED
    BY <1>1, <2>1 DEF IInv, TypeOK, Safe, CountersInv
<1>3. CASE lastPublish' = lastPublish
  BY <1>1, <1>3 DEF Ledger!ledger
<1>4. CASE lastPublish' # lastPublish
  <2>1. Ledger!Claim(lastPublish')
    BY <1>1, <1>2, <1>4 DEF Ledger!Claim, Ledger!Covers, Covered
  <2>2. lastPublish' \in 1 .. changeCounter
    BY <1>1, <1>2, <1>4
  <2> QED
    BY <2>1, <2>2 DEF Ledger!Next
<1> QED
  BY <1>3, <1>4

\* Every step of the pipeline is a step of the ledger, or nothing.
LEMMA StepRefines ==
  ASSUME IInv, [Next]_vars
  PROVE  [Ledger!Next]_(Ledger!ledger)
<1>1. CASE UNCHANGED <<changeCounter, lastPublish, folder, edits>>
  BY <1>1 DEF Ledger!ledger
<1>2. ASSUME NEW touched \in SUBSET Domains, Edit(touched) \/ Republish
      PROVE  Ledger!Next
  BY <1>2, BumpRefines DEF IInv
<1>3. CASE UNCHANGED vars
  BY <1>1, <1>3 DEF vars, database, disk
<1>4. CASE RunStep
  BY <1>1, <1>4, FinishRefines
     DEF RunStep, NoTransport, CleanDomain, PublishDomain, database, disk
<1>5. ASSUME NEW e \in Engines, NEW t \in Transports, TransportStep(e, t)
      PROVE  UNCHANGED <<changeCounter, lastPublish, folder, edits>>
  BY <1>5 DEF TransportStep, Begin, Send, Advance, HostLock, database, disk
<1>6. ASSUME NEW t \in Transports, HostStep(t)
      PROVE  Ledger!Next \/ UNCHANGED <<changeCounter, lastPublish, folder, edits>>
  BY <1>6, CommitRefines DEF HostStep, HostReturn, database, disk
<1>7. CASE FaultStep
  BY <1>1, <1>7 DEF FaultStep, DomainFails, EngineTimeout, MarkFails, TransportFails,
                    HostTimeoutWriting, HostFails, database, disk
<1>8. CASE StartRun \/ RepublishFails \/ Restart
  BY <1>1, <1>8 DEF StartRun, RepublishFails, Restart, database, disk
<1> QED
  BY <1>1, <1>2, <1>3, <1>4, <1>5, <1>6, <1>7, <1>8 DEF Next, LiveNext

\* The engine, its queue and the host keep the ledger's promise: what the folder
\* shows only moves forward, and only what it shows is claimed as published.
THEOREM Refinement == Spec => ImplementsLedger
<1>1. Init => Ledger!Init
  BY InitRefines
<1>2. IInv /\ [Next]_vars => [Ledger!Next]_(Ledger!ledger)
  BY StepRefines
<1> QED
  BY <1>1, <1>2, Safety, PTL DEF Spec, ImplementsLedger, Ledger!Spec

----------------------------------------------------------------------------
(* What is left of the guarantees when engines are replaced                *)
(*                                                                         *)
(* An engine that was replaced may still commit an older snapshot over a   *)
(* newer one, so neither counter proves anything by itself any more.  What *)
(* remains: a counter that has caught up with a domain's changes vouches   *)
(* for its folder, unless a repair is due.                                 *)

\* Every change of d is in its committed bundle.
InFolder(d) == \A h \in edits[d] : h <= folder[d]

\* A republish is asked for, or an abandoned operation will ask for it.
Repairing ==
  \/ repairs > 0
  \/ \E e \in Engines, t \in Transports :
       \E i \in 1 .. Len(queue[e][t]) : queue[e][t][i].abandoned

\* The publish that holds the lock of t commits for d, and nobody waits for it.
Late(t, d) ==
  /\ writer[t] # None /\ writer[t].owner = None
  /\ ~writer[t].committed /\ writer[t].dom = d

\* What is committed behind the device's back holds every change as well.
LateHolds(d) ==
  \A t \in Transports : Late(t, d) => \A h \in edits[d] : h <= writer[t].cover

Sound(d) == Repairing \/ (InFolder(d) /\ LateHolds(d))

\* A counter c that d's changes do not exceed tells the truth about d.
Vouched(c, d) == c < changedAt[d] \/ Sound(d)

\* No snapshot anywhere is newer than c.
AtMost(c) ==
  /\ \A d \in Domains : folder[d] <= c
  /\ \A t \in Transports : writer[t] # None => writer[t].cover <= c
  /\ \A e \in Engines, t \in Transports :
       \A i \in 1 .. Len(queue[e][t]) : queue[e][t][i].cover <= c

\* The operation a run awaits has the newest snapshot of all.
NewestInv ==
  \A e \in Engines, t \in Transports : \A i \in 1 .. Len(queue[e][t]) :
    ~queue[e][t][i].abandoned => AtMost(queue[e][t][i].cover)

BoundedInv ==
  /\ lastPublish <= changeCounter
  /\ \A d \in Domains :
       /\ changedAt[d] <= changeCounter
       /\ \A h \in edits[d] : 0 < h /\ h <= changedAt[d]
       /\ \A e \in Engines : publishedAt[e][d] <= changeCounter
  /\ AtMost(changeCounter)

CommittedInv ==
  \A t \in Transports :
    writer[t] # None /\ writer[t].committed => folder[writer[t].dom] = writer[t].cover

VouchInv ==
  \A d \in Domains :
    /\ Vouched(lastPublish, d)
    /\ \A e \in Engines : Vouched(publishedAt[e][d], d)

GatheredInv ==
  run # None =>
    /\ run.last = lastPublish
    /\ run.at <= changeCounter
    /\ \A c \in run.covered : c <= changeCounter
    /\ \A d \in Domains : changedAt[d] = run.changedAt[d] \/ changedAt[d] > run.at
    /\ Dirty /\ Complete =>
         \A d \in Domains \ (run.todo \cup {run.awaiting}) :
           \E c \in run.covered : Vouched(c, d)

Repairable == BoundedInv /\ NewestInv /\ CommittedInv /\ VouchInv /\ GatheredInv

RInv == TypeOK /\ Shape /\ Repairable

\* What a counter vouches for stays true, or the domain is owed again.
Kept(d) ==
  \/ changedAt'[d] > changeCounter
  \/ changedAt'[d] = changedAt[d] /\ (Sound(d) => Sound(d)')

\* Every counter that vouched still does.
LEMMA VouchedKept ==
  ASSUME NEW d \in Domains, Kept(d), TypeOK, TypeOK', NEW c \in Nat, c <= changeCounter,
         Vouched(c, d)
  PROVE  Vouched(c, d)'
<1>1. /\ changeCounter \in Nat /\ changedAt'[d] \in Nat
      /\ c < changedAt[d] \/ Sound(d)
      /\ \/ changedAt'[d] > changeCounter
         \/ changedAt'[d] = changedAt[d] /\ (Sound(d) => Sound(d)')
  BY DEF Kept, Vouched, TypeOK
<1>2. c < changedAt'[d] \/ Sound(d)'
  BY <1>1
<1> QED
  BY <1>2 DEF Vouched

\* The counters themselves did not move.
LEMMA CountersVouch ==
  ASSUME RInv, TypeOK', UNCHANGED <<lastPublish, publishedAt>>,
         \A d \in Domains : Kept(d)
  PROVE  VouchInv'
<1> SUFFICES ASSUME NEW d \in Domains
             PROVE  /\ Vouched(lastPublish, d)'
                    /\ \A e \in Engines : Vouched(publishedAt[e][d], d)'
  BY DEF VouchInv
<1>1. /\ lastPublish \in Nat /\ lastPublish <= changeCounter /\ Vouched(lastPublish, d)
      /\ TypeOK /\ Kept(d)
  BY DEF RInv, TypeOK, Repairable, BoundedInv, VouchInv
<1>2. Vouched(lastPublish, d)'
  BY <1>1 DEF Kept, Vouched, TypeOK
<1>3. ASSUME NEW e \in Engines
      PROVE  Vouched(publishedAt[e][d], d)'
  <2>1. /\ publishedAt[e][d] \in Nat /\ publishedAt[e][d] <= changeCounter
        /\ Vouched(publishedAt[e][d], d)
    BY DEF RInv, TypeOK, Repairable, BoundedInv, VouchInv
  <2> QED
    BY <1>1, <2>1 DEF Kept, Vouched, TypeOK
<1> QED
  BY <1>2, <1>3

\* A run that is not touched has gathered what it had gathered.
LEMMA GatheredKept ==
  ASSUME RInv, TypeOK', UNCHANGED <<run, lastPublish>>, changeCounter <= changeCounter',
         \A d \in Domains : Kept(d)
  PROVE  GatheredInv'
<1> SUFFICES ASSUME run # None PROVE GatheredInv'
  BY DEF GatheredInv
<1>1. /\ run \in Run /\ run.at \in Nat /\ run.covered \in SUBSET Nat
      /\ run.last = lastPublish /\ run.at <= changeCounter
      /\ \A c \in run.covered : c <= changeCounter
      /\ changeCounter \in Nat /\ changeCounter' \in Nat
  BY DEF RInv, TypeOK, Repairable, GatheredInv, Run
<1>2. ASSUME NEW d \in Domains
      PROVE  changedAt'[d] = run.changedAt[d] \/ changedAt'[d] > run.at
  <2>1. changedAt[d] = run.changedAt[d] \/ changedAt[d] > run.at
    BY DEF RInv, Repairable, GatheredInv
  <2>2. changedAt'[d] = changedAt[d] \/ changedAt'[d] > changeCounter
    BY DEF Kept
  <2> QED
    BY <1>1, <2>1, <2>2 DEF TypeOK
<1>3. ASSUME Dirty, Complete, NEW d \in Domains \ (run.todo \cup {run.awaiting})
      PROVE  \E c \in run.covered : Vouched(c, d)'
  <2>1. PICK c \in run.covered : Vouched(c, d)
    BY <1>3 DEF RInv, Repairable, GatheredInv
  <2>2. c \in Nat /\ c <= changeCounter
    BY <1>1
  <2> QED
    BY <2>1, <2>2, VouchedKept DEF RInv
<1> QED
  BY <1>1, <1>2, <1>3 DEF GatheredInv, Dirty, Complete

\* Every operation of a queue was one of the same snapshot before, and an
\* abandoned one stays abandoned.
SameOps ==
  \A e \in Engines, t \in Transports : \A i \in 1 .. Len(queue'[e][t]) :
    \E j \in 1 .. Len(queue[e][t]) :
      /\ queue'[e][t][i].cover = queue[e][t][j].cover
      /\ queue[e][t][j].abandoned => queue'[e][t][i].abandoned

\* The locks hold what they held, or the head of a queue.
SameLocks ==
  \A t \in Transports : writer'[t] # None =>
    \/ writer[t] # None /\ writer'[t].cover = writer[t].cover
    \/ \E e \in Engines : /\ 1 \in 1 .. Len(queue[e][t])
                          /\ writer'[t].cover = queue[e][t][1].cover

\* The folders hold what they held, or what a lock's holder committed.
SameFolders ==
  \A d \in Domains :
    \/ folder'[d] = folder[d]
    \/ \E t \in Transports : writer[t] # None /\ folder'[d] = writer[t].cover

\* A step that takes no snapshot leaves the newest one the newest.
LEMMA NothingNewer ==
  ASSUME SameOps, SameLocks, SameFolders, NEW c, AtMost(c)
  PROVE  AtMost(c)'
<1>1. \A d \in Domains : folder'[d] <= c
  BY DEF AtMost, SameFolders
<1>2. \A t \in Transports : writer'[t] # None => writer'[t].cover <= c
  BY DEF AtMost, SameLocks
<1>3. \A e \in Engines, t \in Transports :
        \A i \in 1 .. Len(queue'[e][t]) : queue'[e][t][i].cover <= c
  BY DEF AtMost, SameOps
<1> QED
  BY <1>1, <1>2, <1>3 DEF AtMost

\* And the awaited operation the one that has it.
LEMMA NewestKept ==
  ASSUME SameOps, SameLocks, SameFolders, NewestInv, AtMost(changeCounter),
         UNCHANGED changeCounter
  PROVE  NewestInv' /\ AtMost(changeCounter)'
<1>1. ASSUME NEW e \in Engines, NEW t \in Transports, NEW i \in 1 .. Len(queue'[e][t]),
             ~queue'[e][t][i].abandoned
      PROVE  AtMost(queue[e][t][i].cover)'
  <2>1. PICK j \in 1 .. Len(queue[e][t]) :
          queue'[e][t][i].cover = queue[e][t][j].cover /\ ~queue[e][t][j].abandoned
    BY <1>1 DEF SameOps
  <2>2. PICK c : c = queue[e][t][j].cover
    OBVIOUS
  <2>3. AtMost(c)
    BY <2>1, <2>2 DEF NewestInv
  <2>4. AtMost(c)'
    BY <2>3, NothingNewer
  <2>5. queue'[e][t][i].cover = c
    BY <2>1, <2>2
  <2> QED
    BY <2>4, <2>5 DEF AtMost
<1>2. PICK c : c = changeCounter
  OBVIOUS
<1>3. AtMost(c)'
  BY <1>2, NothingNewer
<1> QED
  BY <1>1, <1>2, <1>3 DEF NewestInv, AtMost

\* A step that leaves the queues alone.
LEMMA QueuesAlone ==
  ASSUME UNCHANGED queue
  PROVE  SameOps
BY DEF SameOps

\* Abandoned operations that stay so keep the repair in sight.
LEMMA RepairingKept ==
  ASSUME NEW e \in Engines, NEW t \in Transports, SameOrder(e, t),
         \A i \in 1 .. Len(queue[e][t]) :
           queue[e][t][i].abandoned => queue'[e][t][i].abandoned,
         UNCHANGED repairs
  PROVE  SameOps /\ (Repairing => Repairing')
<1>1. \A e2 \in Engines, t2 \in Transports :
        /\ Len(queue'[e2][t2]) = Len(queue[e2][t2])
        /\ \A i \in 1 .. Len(queue[e2][t2]) :
             /\ queue'[e2][t2][i].cover = queue[e2][t2][i].cover
             /\ queue[e2][t2][i].abandoned => queue'[e2][t2][i].abandoned
  BY DEF SameOrder
<1> QED
  BY <1>1 DEF SameOps, Repairing

\* Folder, lock and changes untouched: what is sound stays sound.
LEMMA SoundAlone ==
  ASSUME UNCHANGED <<folder, edits, changedAt, writer>>, Repairing => Repairing'
  PROVE  \A d \in Domains : Kept(d)
BY DEF Kept, Sound, InFolder, LateHolds, Late

\* The parts that speak of nothing but counters, folders and locks.
LEMMA CountersAlone ==
  ASSUME RInv, UNCHANGED <<changeCounter, lastPublish, changedAt, edits, folder,
                           publishedAt, writer>>, SameOps
  PROVE  BoundedInv' /\ NewestInv' /\ CommittedInv'
<1>1. SameLocks /\ SameFolders
  BY DEF SameLocks, SameFolders
<1>2. NewestInv' /\ AtMost(changeCounter)'
  BY <1>1, NewestKept DEF RInv, Repairable, BoundedInv
<1>3. CommittedInv'
  BY DEF CommittedInv, RInv, Repairable
<1> QED
  BY <1>2, <1>3 DEF BoundedInv, RInv, Repairable

\* Nothing at all changed that the invariant speaks of.
LEMMA RepairableAlone ==
  ASSUME RInv, TypeOK',
         UNCHANGED <<changeCounter, lastPublish, changedAt, edits, folder,
                     publishedAt, writer, run, queue, repairs>>
  PROVE  Repairable'
<1>1. SameOps /\ (Repairing => Repairing')
  BY DEF SameOps, Repairing
<1>2. \A d \in Domains : Kept(d)
  BY <1>1, SoundAlone
<1>3. changeCounter <= changeCounter'
  BY DEF RInv, TypeOK
<1> QED
  BY <1>1, <1>2, <1>3, CountersAlone, CountersVouch, GatheredKept DEF Repairable

\* Snapshots are numbered by the counter they cover.
LEMMA SnapshotTypes ==
  ASSUME TypeOK
  PROVE  /\ \A d \in Domains : folder[d] \in Nat
         /\ \A t \in Transports : writer[t] # None => writer[t].cover \in Nat
         /\ \A e \in Engines, t \in Transports :
              \A i \in 1 .. Len(queue[e][t]) :
                queue[e][t][i] \in Op /\ queue[e][t][i].cover \in Nat
<1>1. ASSUME NEW e \in Engines, NEW t \in Transports, NEW i \in 1 .. Len(queue[e][t])
      PROVE  queue[e][t][i] \in Op
  BY ElementOfSeq DEF TypeOK
<1> QED
  BY <1>1 DEF TypeOK, Op, Writer

\* A change, merged or made here, makes its domains owed.
LEMMA BumpRepairable ==
  ASSUME RInv, TypeOK', NEW touched \in SUBSET Domains, Edit(touched) \/ Republish
  PROVE  Repairable'
<1>1. /\ UNCHANGED <<lastPublish, folder, publishedAt, run, queue, writer>>
      /\ changeCounter' = changeCounter + 1 /\ changeCounter \in Nat
  BY DEF Edit, Republish, BumpChangeCounter, disk, memory, RInv, TypeOK
<1>2. ASSUME NEW d \in Domains
      PROVE  /\ Kept(d)
             /\ changedAt'[d] = changedAt[d] \/ changedAt'[d] = changeCounter + 1
             /\ \A h \in edits'[d] : h \in edits[d]
                                     \/ (h = changeCounter + 1 /\ changedAt'[d] = h)
  <2>1. CASE Edit(touched)
    <3>1. CASE d \in touched
      BY <1>1, <2>1, <3>1 DEF Edit, BumpChangeCounter, Kept, RInv, TypeOK
    <3>2. CASE d \notin touched
      <4>1. changedAt'[d] = changedAt[d] /\ edits'[d] = edits[d] /\ repairs' = repairs
        BY <2>1, <3>2 DEF Edit, BumpChangeCounter
      <4>2. Sound(d) => Sound(d)'
        BY <1>1, <4>1 DEF Sound, Repairing, InFolder, LateHolds, Late
      <4> QED
        BY <4>1, <4>2 DEF Kept
    <3> QED
      BY <3>1, <3>2
  <2>2. CASE Republish
    BY <1>1, <2>2 DEF Republish, BumpChangeCounter, Kept
  <2> QED
    BY <2>1, <2>2
<1>3. BoundedInv'
  <2>1. AtMost(changeCounter)'
    <3>1. AtMost(changeCounter) /\ TypeOK
      BY DEF RInv, Repairable, BoundedInv
    <3>2. \A d \in Domains : folder[d] <= changeCounter + 1
      BY <1>1, <3>1, SnapshotTypes DEF AtMost
    <3>3. \A t \in Transports : writer[t] # None => writer[t].cover <= changeCounter + 1
      BY <1>1, <3>1, SnapshotTypes DEF AtMost
    <3>4. \A e \in Engines, t \in Transports :
            \A i \in 1 .. Len(queue[e][t]) : queue[e][t][i].cover <= changeCounter + 1
      BY <1>1, <3>1, SnapshotTypes DEF AtMost
    <3> QED
      BY <1>1, <3>2, <3>3, <3>4 DEF AtMost
  <2>2. ASSUME NEW d \in Domains
        PROVE  /\ changedAt'[d] <= changeCounter'
               /\ \A h \in edits'[d] : 0 < h /\ h <= changedAt'[d]
               /\ \A e \in Engines : publishedAt'[e][d] <= changeCounter'
    <3>1. /\ changedAt[d] \in Nat /\ changedAt[d] <= changeCounter
          /\ edits[d] \in SUBSET Nat
          /\ \A h \in edits[d] : 0 < h /\ h <= changedAt[d]
          /\ \A e \in Engines : publishedAt[e][d] \in Nat /\ publishedAt[e][d] <= changeCounter
      BY DEF RInv, TypeOK, Repairable, BoundedInv
    <3> QED
      BY <1>1, <1>2, <3>1
  <2>3. lastPublish' <= changeCounter'
    BY <1>1 DEF RInv, TypeOK, Repairable, BoundedInv
  <2> QED
    BY <2>1, <2>2, <2>3 DEF BoundedInv
<1>4. NewestInv' /\ CommittedInv'
  BY <1>1 DEF RInv, Repairable, NewestInv, AtMost, CommittedInv
<1>5. VouchInv' /\ GatheredInv'
  BY <1>1, <1>2, CountersVouch, GatheredKept
<1> QED
  BY <1>3, <1>4, <1>5 DEF Repairable

\* The run's own steps: only a domain found clean adds to what was gathered.
LEMMA RunRepairable ==
  ASSUME RInv, TypeOK',
         \/ StartRun
         \/ \E d \in Domains : NoTransport(d) \/ CleanDomain(d) \/ DomainFails(d)
         \/ MarkFails
  PROVE  Repairable'
<1>1. UNCHANGED <<changeCounter, lastPublish, changedAt, edits, folder,
                  publishedAt, queue, writer, repairs>>
  BY DEF StartRun, NoTransport, CleanDomain, DomainFails, MarkFails,
         database, disk, memory
<1>2. SameOps /\ \A d \in Domains : Kept(d)
  <2>1. Repairing => Repairing'
    BY <1>1 DEF Repairing
  <2> QED
    BY <1>1, <2>1, QueuesAlone, SoundAlone
<1>3. BoundedInv' /\ NewestInv' /\ CommittedInv' /\ VouchInv'
  BY <1>1, <1>2, CountersAlone, CountersVouch
<1>4. CASE StartRun
  <2>1. /\ run'.last = lastPublish /\ run'.at = changeCounter /\ run'.covered = {}
        /\ run'.changedAt = changedAt /\ run'.todo = Domains
    BY <1>4 DEF StartRun
  <2>2. changeCounter \in Nat
    BY DEF RInv, TypeOK
  <2> QED
    BY <1>1, <1>3, <2>1, <2>2 DEF GatheredInv, Repairable
<1>5. CASE MarkFails
  BY <1>3, <1>5 DEF MarkFails, GatheredInv, Repairable
<1>6. ASSUME NEW d \in Domains, NoTransport(d) \/ CleanDomain(d) \/ DomainFails(d)
      PROVE  Repairable'
  <2>1. /\ run \in Run /\ run # None /\ run.awaiting = None
        /\ GatheredInv
    BY <1>6 DEF NoTransport, CleanDomain, DomainFails, Looping, RInv, TypeOK, Repairable
  <2>2. CASE NoTransport(d) \/ DomainFails(d)
    <3>1. /\ run'.at = run.at /\ run'.last = run.last /\ run'.changedAt = run.changedAt
          /\ run'.covered = run.covered /\ ~Complete'
      BY <2>1, <2>2 DEF NoTransport, DomainFails, Run, Complete
    <3> QED
      BY <1>1, <1>3, <2>1, <3>1 DEF GatheredInv, Repairable
  <2>3. CASE CleanDomain(d)
    <3> DEFINE more == IF Dirty THEN run.covered \cup {run.at} ELSE run.covered
    <3>1. run' = [run EXCEPT !.todo = run.todo \ {d}, !.covered = more]
      BY <2>3 DEF CleanDomain
    <3>2. /\ run'.at = run.at /\ run'.last = run.last
          /\ run'.changedAt = run.changedAt /\ run'.awaiting = None
          /\ run'.todo = run.todo \ {d}
          /\ run'.covered = more
          /\ run'.failed = run.failed /\ run'.superseded = run.superseded
          /\ run'.unrouted = run.unrouted
      BY <2>1, <3>1 DEF Run
    <3>3. Dirty => Vouched(run.at, d)
      <4> SUFFICES ASSUME Dirty, ~(run.at < changedAt[d]) PROVE Sound(d)
        BY DEF Vouched
      <4>1. /\ run.last = lastPublish
            /\ changedAt[d] = run.changedAt[d]
        BY <2>1 DEF GatheredInv
      <4>2. /\ run.changedAt[d] \in Nat /\ run.eng \in Engines
            /\ lastPublish \in Nat /\ publishedAt[run.eng][d] \in Nat
        BY <2>1 DEF RInv, TypeOK, Run
      <4>3. ~(run.changedAt[d] > Larger(run.last, publishedAt[run.eng][d]))
        BY <2>3 DEF CleanDomain, Needed, Changed
      <4>4. ~(lastPublish < changedAt[d]) \/ ~(publishedAt[run.eng][d] < changedAt[d])
        BY <4>1, <4>2, <4>3 DEF Larger
      <4>5. Vouched(lastPublish, d) /\ Vouched(publishedAt[run.eng][d], d)
        BY <4>2 DEF RInv, Repairable, VouchInv
      <4> QED
        BY <4>4, <4>5 DEF Vouched
    <3>4. Dirty' /\ Complete' =>
            \A x \in Domains \ (run'.todo \cup {run'.awaiting}) :
              \E c \in run'.covered : Vouched(c, x)
      <4> SUFFICES ASSUME Dirty', Complete',
                          NEW x \in Domains \ ((run.todo \ {d}) \cup {None})
                   PROVE  \E c \in more : Vouched(c, x)
        BY <3>2
      <4>1. Dirty /\ Complete /\ more = run.covered \cup {run.at}
        BY <3>2 DEF Dirty, Complete
      <4>2. CASE x = d
        BY <3>3, <4>1, <4>2
      <4>3. CASE x # d
        BY <2>1, <4>1, <4>3 DEF GatheredInv
      <4> QED
        BY <4>2, <4>3
    <3>5. (\A c \in more : c <= changeCounter) /\ more \in SUBSET Nat
      BY <2>1 DEF GatheredInv, Run
    <3> HIDE DEF more
    <3>6. ASSUME Dirty', Complete',
                 NEW x \in Domains \ (run'.todo \cup {run'.awaiting})
          PROVE  \E c \in run'.covered : Vouched(c, x)'
      <4>1. PICK c \in more : Vouched(c, x)
        BY <3>2, <3>4, <3>6
      <4>2. Vouched(c, x)'
        BY <1>2, <3>5, <4>1, VouchedKept DEF RInv
      <4> QED
        BY <3>2, <4>1, <4>2
    <3>7. GatheredInv'
      BY <1>1, <2>1, <3>2, <3>5, <3>6 DEF GatheredInv
    <3> QED
      BY <1>3, <3>7 DEF Repairable
  <2> QED
    BY <1>6, <2>2, <2>3
<1> QED
  BY <1>4, <1>5, <1>6

\* The counter that a run records vouches for every domain.
LEMMA FinishRepairable ==
  ASSUME RInv, TypeOK', FinishRun
  PROVE  Repairable'
<1>1. /\ UNCHANGED <<changeCounter, changedAt, edits, folder,
                     publishedAt, queue, writer, repairs>>
      /\ run' = None
      /\ run \in Run /\ run # None /\ run.awaiting = None /\ run.todo = {}
  BY DEF FinishRun, Looping, disk, memory, RInv, TypeOK
<1>3. \A d \in Domains : (Sound(d) => Sound(d)') /\ changedAt'[d] = changedAt[d]
  BY <1>1 DEF Sound, Repairing, InFolder, LateHolds, Late
<1>4. /\ lastPublish' \in Nat /\ lastPublish' <= changeCounter
      /\ \A d \in Domains : Vouched(lastPublish', d)
  <2>0. /\ lastPublish \in Nat /\ changeCounter \in Nat /\ lastPublish <= changeCounter
        /\ \A d \in Domains : Vouched(lastPublish, d)
    BY DEF RInv, TypeOK, Repairable, BoundedInv, VouchInv
  <2>1. CASE UNCHANGED lastPublish
    BY <2>0, <2>1
  <2>2. ASSUME Complete, Dirty, NEW c \in run.covered,
               \A other \in run.covered : c <= other,
               lastPublish' = NextPublishCounter(c)
        PROVE  <1>4!:
    <3>1. /\ c \in Nat
          /\ run.covered \in SUBSET Nat
      BY <1>1 DEF Run
    <3>2. ASSUME NEW d \in Domains
          PROVE  Vouched(c, d)
      <4>1. d \in Domains \ (run.todo \cup {run.awaiting})
        BY <1>1, ConstantsAssumption
      <4>2. PICK more \in run.covered : Vouched(more, d)
        BY <1>1, <2>2, <4>1 DEF RInv, Repairable, GatheredInv
      <4>3. c <= more /\ more \in Nat /\ changedAt[d] \in Nat
        BY <2>2, <3>1 DEF RInv, TypeOK
      <4> QED
        BY <3>1, <4>2, <4>3 DEF Vouched
    <3> QED
      BY <2>0, <2>2, <3>1, <3>2 DEF NextPublishCounter
  <2> QED
    BY <2>1, <2>2 DEF FinishRun
<1>5. VouchInv'
  <2> SUFFICES ASSUME NEW d \in Domains
               PROVE  /\ Vouched(lastPublish, d)'
                      /\ \A e \in Engines : Vouched(publishedAt[e][d], d)'
    BY DEF VouchInv
  <2>1. Vouched(lastPublish', d) /\ \A e \in Engines : Vouched(publishedAt[e][d], d)
    BY <1>4 DEF RInv, Repairable, VouchInv
  <2> QED
    BY <1>1, <1>3, <2>1 DEF Vouched
<1>6. NewestInv' /\ CommittedInv' /\ AtMost(changeCounter)'
  BY <1>1 DEF RInv, Repairable, BoundedInv, NewestInv, CommittedInv, AtMost
<1>7. BoundedInv'
  BY <1>1, <1>4, <1>6 DEF RInv, Repairable, BoundedInv
<1>8. GatheredInv'
  BY <1>1 DEF GatheredInv
<1> QED
  BY <1>5, <1>6, <1>7, <1>8 DEF Repairable

\* The bundle handed over holds the newest snapshot.
LEMMA PublishRepairable ==
  ASSUME RInv, TypeOK', NEW d \in Domains, PublishDomain(d)
  PROVE  Repairable'
<1>1. /\ run \in Run /\ run # None /\ run.awaiting = None
      /\ GatheredInv /\ changeCounter \in Nat /\ TypeOK /\ OpsShape
  BY DEF PublishDomain, Looping, RInv, TypeOK, Shape, Repairable
<1>2. PICK e \in Engines : e = run.eng
  BY <1>1 DEF Run
<1>3. PICK t \in Transports : t = Carrier[d]
  BY ConstantsAssumption
<1>4. Enqueued(e, t, d)
  BY <1>1, <1>2, <1>3, PublishQueue
<1>5. UNCHANGED <<changeCounter, lastPublish, changedAt, edits, folder,
                  publishedAt, writer, repairs>>
  BY DEF PublishDomain, database, disk, memory
<1>6. /\ run'.at = run.at /\ run'.last = run.last
      /\ run'.changedAt = run.changedAt /\ run'.covered = run.covered
      /\ run'.todo = run.todo \ {d} /\ run'.awaiting = d
      /\ run'.failed = run.failed /\ run'.superseded = run.superseded
      /\ run'.unrouted = run.unrouted
  <2>1. run' = [run EXCEPT !.awaiting = d, !.todo = run.todo \ {d}]
    BY DEF PublishDomain
  <2> QED
    BY <1>1, <2>1 DEF Run
<1>7. \A e2 \in Engines, t2 \in Transports : \A i \in 1 .. Len(queue[e2][t2]) :
        queue[e2][t2][i].abandoned
  BY <1>1, NothingAwaited
<1>8. ASSUME NEW e2 \in Engines, NEW t2 \in Transports, NEW i \in 1 .. Len(queue'[e2][t2])
      PROVE  \/ queue'[e2][t2][i].cover = changeCounter
             \/ /\ queue'[e2][t2][i].abandoned
                /\ \E j \in 1 .. Len(queue[e2][t2]) :
                     queue'[e2][t2][i].cover = queue[e2][t2][j].cover
  <2>1. CASE ~(e2 = e /\ t2 = t)
    BY <1>4, <1>7, <2>1 DEF Enqueued
  <2>2. CASE e2 = e /\ t2 = t /\ i \in 1 .. Len(queue[e][t])
    BY <1>4, <1>7, <2>2 DEF Enqueued
  <2>3. CASE e2 = e /\ t2 = t /\ i = Len(queue[e][t]) + 1
    BY <1>4, <2>3 DEF Enqueued
  <2>4. CASE e2 = e /\ t2 = t
    <3>1. /\ Len(queue[e][t]) \in Nat
          /\ Len(queue'[e][t]) = Len(queue[e][t]) + 1
      BY <1>4 DEF Enqueued
    <3>2. i \in 1 .. Len(queue[e][t]) \/ i = Len(queue[e][t]) + 1
      BY <2>4, <3>1
    <3> QED
      BY <2>2, <2>3, <2>4, <3>2
  <2> QED
    BY <2>1, <2>4
<1>9. AtMost(changeCounter)'
  <2>1. AtMost(changeCounter)
    BY DEF RInv, Repairable, BoundedInv
  <2> QED
    <3>1. ASSUME NEW e2 \in Engines, NEW t2 \in Transports,
                 NEW i \in 1 .. Len(queue'[e2][t2])
          PROVE  queue'[e2][t2][i].cover <= changeCounter
      <4>1. CASE queue'[e2][t2][i].cover = changeCounter
        BY <1>1, <4>1
      <4>2. ASSUME NEW j \in 1 .. Len(queue[e2][t2]),
                   queue'[e2][t2][i].cover = queue[e2][t2][j].cover
            PROVE  queue'[e2][t2][i].cover <= changeCounter
        BY <2>1, <4>2 DEF AtMost
      <4> QED
        BY <1>8, <4>1, <4>2
    <3> QED
      BY <1>5, <2>1, <3>1 DEF AtMost
<1>10. NewestInv'
  <2>1. ASSUME NEW e2 \in Engines, NEW t2 \in Transports, NEW i \in 1 .. Len(queue'[e2][t2]),
               ~queue'[e2][t2][i].abandoned
        PROVE  AtMost(queue[e2][t2][i].cover)'
    <3>1. queue'[e2][t2][i].cover = changeCounter'
      BY <1>5, <1>8, <2>1
    <3> QED
      BY <1>9, <3>1 DEF AtMost
  <2> QED
    BY <2>1 DEF NewestInv
<1>11. BoundedInv' /\ CommittedInv'
  BY <1>5, <1>9 DEF RInv, Repairable, BoundedInv, CommittedInv
<1>12. Repairing => Repairing'
  <2> SUFFICES ASSUME NEW e2 \in Engines, NEW t2 \in Transports,
                      NEW i \in 1 .. Len(queue[e2][t2]), queue[e2][t2][i].abandoned
               PROVE  i \in 1 .. Len(queue'[e2][t2]) /\ queue'[e2][t2][i].abandoned
    BY <1>5 DEF Repairing
  <2>1. CASE ~(e2 = e /\ t2 = t)
    BY <1>4, <2>1 DEF Enqueued
  <2>2. CASE e2 = e /\ t2 = t
    <3>1. /\ Len(queue[e][t]) \in Nat
          /\ Len(queue'[e][t]) = Len(queue[e][t]) + 1
          /\ queue'[e][t][i].abandoned = queue[e][t][i].abandoned
      BY <1>4, <2>2 DEF Enqueued
    <3> QED
      BY <2>2, <3>1
  <2> QED
    BY <2>1, <2>2
<1>13. \A x \in Domains : Kept(x)
  BY <1>5, <1>12, SoundAlone
<1>14. VouchInv'
  BY <1>5, <1>13, CountersVouch
<1>15. GatheredInv'
  <2>1. Dirty' /\ Complete' => Dirty /\ Complete
    BY <1>6 DEF Dirty, Complete
  <2>2. Domains \ (run'.todo \cup {run'.awaiting})
          \subseteq Domains \ (run.todo \cup {run.awaiting})
    BY <1>1, <1>6, ConstantsAssumption
  <2>3. ASSUME Dirty', Complete', NEW x \in Domains \ (run'.todo \cup {run'.awaiting})
        PROVE  \E c \in run'.covered : Vouched(c, x)'
    <3>1. PICK c \in run.covered : Vouched(c, x)
      BY <1>1, <2>1, <2>2, <2>3 DEF GatheredInv
    <3>2. c \in Nat /\ c <= changeCounter
      BY <1>1 DEF GatheredInv, Run
    <3> QED
      BY <1>1, <1>6, <1>13, <3>1, <3>2, VouchedKept
  <2> QED
    BY <1>1, <1>5, <1>6, <2>3 DEF GatheredInv
<1> QED
  BY <1>10, <1>11, <1>14, <1>15 DEF Repairable

\* The operation a run gives up on asks for a repair, however it ends.
LEMMA EngineTimeoutRepairable ==
  ASSUME RInv, TypeOK', EngineTimeout
  PROVE  Repairable'
<1>1. run \in Run /\ run # None /\ run.awaiting \in Domains
  BY DEF EngineTimeout, RInv, TypeOK, Run
<1>2. PICK e \in Engines : e = run.eng
  BY <1>1 DEF Run
<1>3. PICK t \in Transports : t = Carrier[run.awaiting]
  BY <1>1, ConstantsAssumption
<1>4. UNCHANGED <<changeCounter, lastPublish, changedAt, edits, folder,
                  publishedAt, writer, repairs>>
  BY DEF EngineTimeout, database, disk, memory
<1>5. /\ run'.at = run.at /\ run'.last = run.last
      /\ run'.changedAt = run.changedAt /\ run'.covered = run.covered
      /\ run'.failed
  <2>1. run' = [run EXCEPT !.awaiting = None, !.failed = TRUE]
    BY DEF EngineTimeout
  <2> QED
    BY <1>1, <2>1 DEF Run
<1>6. queue' = [queue EXCEPT ![e][t] = Abandon(queue[e][t])]
  BY <1>2, <1>3 DEF EngineTimeout
<1>7. /\ queue \in QueueType
      /\ queue[e][t] \in Seq(Op)
  BY DEF RInv, TypeOK, QueueType
<1>8. SameOrder(e, t) /\ \A i \in 1 .. Len(queue[e][t]) :
        queue[e][t][i].abandoned => queue'[e][t][i].abandoned
  <2> DEFINE left == Abandon(queue[e][t])
  <2>1. /\ left \in Seq(Op)
        /\ Len(left) = Len(queue[e][t])
        /\ \A i \in 1 .. Len(left) :
             /\ left[i].dom = queue[e][t][i].dom
             /\ left[i].cover = queue[e][t][i].cover
             /\ ~left[i].abandoned => ~queue[e][t][i].abandoned
    BY <1>7, AbandonOps
  <2>2. queue' = [queue EXCEPT ![e][t] = left]
    BY <1>6
  <2> HIDE DEF left
  <2>3. /\ queue'[e][t] = left
        /\ \A e2 \in Engines, t2 \in Transports :
             ~(e2 = e /\ t2 = t) => queue'[e2][t2] = queue[e2][t2]
    BY <1>7, <2>1, <2>2, QueueUpdate DEF QueueType
  <2> QED
    BY <2>1, <2>3 DEF SameOrder
<1>9. SameOps /\ \A d \in Domains : Kept(d)
  BY <1>4, <1>8, RepairingKept, SoundAlone
<1>10. BoundedInv' /\ NewestInv' /\ CommittedInv' /\ VouchInv'
  BY <1>4, <1>9, CountersAlone, CountersVouch
<1>11. GatheredInv'
  <2>1. ~Complete'
    BY <1>5 DEF Complete
  <2> QED
    BY <1>1, <1>4, <1>5, <2>1 DEF GatheredInv, RInv, Repairable
<1> QED
  BY <1>10, <1>11 DEF Repairable

\* A head that goes on to another stage.
LEMMA StageRepairable ==
  ASSUME RInv, TypeOK', NEW e \in Engines, NEW t \in Transports, NEW stage \in Stages,
         Busy(e, t), SetStage(e, t, stage), UNCHANGED <<database, disk, writer>>
  PROVE  Repairable'
<1>1. SameOrder(e, t) /\ \A i \in 1 .. Len(queue[e][t]) :
        queue[e][t][i].abandoned => queue'[e][t][i].abandoned
  BY StageShape DEF SameOrder, RInv, Shape
<1>2. UNCHANGED <<changeCounter, lastPublish, changedAt, edits, folder,
                  publishedAt, writer, run, repairs>>
  BY DEF SetStage, database, disk, memory
<1>3. SameOps /\ \A d \in Domains : Kept(d)
  BY <1>1, <1>2, RepairingKept, SoundAlone
<1>4. changeCounter <= changeCounter'
  BY <1>2 DEF RInv, TypeOK
<1> QED
  BY <1>2, <1>3, <1>4, CountersAlone, CountersVouch, GatheredKept DEF Repairable

\* Taking the lock commits nothing, and somebody waits for it.
LEMMA HostLockRepairable ==
  ASSUME RInv, TypeOK', NEW e \in Engines, NEW t \in Transports, HostLock(e, t)
  PROVE  Repairable'
<1> DEFINE op == queue[e][t][1]
<1>1. /\ Busy(e, t)
      /\ HeadOp(e, t) = op
      /\ op \in Op
      /\ 1 \in 1 .. Len(queue[e][t])
  <2>1. Busy(e, t)
    BY DEF HostLock
  <2> QED
    BY <2>1, TailOps, EmptySeq DEF HeadOp, Busy, RInv, TypeOK
<1>2. /\ SetStage(e, t, "writing") /\ "writing" \in Stages
      /\ UNCHANGED <<changeCounter, lastPublish, changedAt, edits, folder,
                     publishedAt, run, repairs>>
  BY DEF HostLock, Stages, SetStage, database, disk, memory
<1>3. SameOrder(e, t) /\ \A i \in 1 .. Len(queue[e][t]) :
        queue[e][t][i].abandoned => queue'[e][t][i].abandoned
  BY <1>1, <1>2, StageShape DEF SameOrder, RInv, Shape
<1>4. SameOps /\ (Repairing => Repairing')
  BY <1>2, <1>3, RepairingKept
<1>5. /\ writer'[t].cover = op.cover /\ writer'[t].owner = e /\ ~writer'[t].committed
      /\ \A t2 \in Transports : t2 # t => writer'[t2] = writer[t2]
  <2>1. writer' = [writer EXCEPT ![t] = [dom |-> op.dom, cover |-> op.cover,
                                         owner |-> e, committed |-> FALSE]]
    BY <1>1 DEF HostLock
  <2> QED
    BY <2>1 DEF RInv, TypeOK
<1>6. SameLocks /\ SameFolders
  BY <1>1, <1>2, <1>5 DEF SameLocks, SameFolders
<1>7. NewestInv' /\ AtMost(changeCounter)'
  BY <1>2, <1>4, <1>6, NewestKept DEF RInv, Repairable, BoundedInv
<1>8. BoundedInv' /\ CommittedInv'
  BY <1>2, <1>5, <1>7 DEF RInv, Repairable, BoundedInv, CommittedInv
<1>9. ASSUME NEW d \in Domains PROVE Kept(d)
  <2>1. \A t2 \in Transports : Late(t2, d)' => writer'[t2] = writer[t2] /\ Late(t2, d)
    BY <1>5, ConstantsAssumption DEF Late
  <2> QED
    BY <1>2, <1>4, <2>1 DEF Kept, Sound, InFolder, LateHolds
<1>10. changeCounter <= changeCounter'
  BY <1>2 DEF RInv, TypeOK
<1> QED
  BY <1>2, <1>7, <1>8, <1>9, <1>10, CountersVouch, GatheredKept DEF Repairable

\* What settled is gone; the operations behind it move up as they are.
LEMMA SettleOps ==
  ASSUME RInv, NEW e \in Engines, NEW t \in Transports, NEW outcome,
         Busy(e, t), Settle(e, t, outcome)
  PROVE  /\ SameOps
         /\ ~queue[e][t][1].abandoned /\ repairs' = repairs => (Repairing => Repairing')
<1>1. /\ queue'[e][t] = Tail(queue[e][t])
      /\ \A e2 \in Engines, t2 \in Transports :
           ~(e2 = e /\ t2 = t) => queue'[e2][t2] = queue[e2][t2]
  BY SettleShape DEF RInv, Shape
<1>2. /\ Len(queue'[e][t]) = Len(queue[e][t]) - 1
      /\ \A i \in 1 .. Len(queue'[e][t]) :
           i + 1 \in 1 .. Len(queue[e][t]) /\ queue'[e][t][i] = queue[e][t][i + 1]
      /\ Len(queue[e][t]) \in Nat
  BY <1>1, TailOps, LenProperties DEF Busy, RInv, TypeOK
<1>3. ASSUME NEW e2 \in Engines, NEW t2 \in Transports, NEW i \in 1 .. Len(queue'[e2][t2])
      PROVE  \E j \in 1 .. Len(queue[e2][t2]) : queue'[e2][t2][i] = queue[e2][t2][j]
  <2>1. CASE e2 = e /\ t2 = t
    <3>1. /\ i + 1 \in 1 .. Len(queue[e][t])
          /\ queue'[e][t][i] = queue[e][t][i + 1]
      BY <1>2, <2>1
    <3> QED
      BY <2>1, <3>1
  <2>2. CASE ~(e2 = e /\ t2 = t)
    <3>1. queue'[e2][t2] = queue[e2][t2]
      BY <1>1, <2>2
    <3> QED
      BY <3>1
  <2> QED
    BY <2>1, <2>2
<1>4. ASSUME NEW e2 \in Engines, NEW t2 \in Transports, NEW i \in 1 .. Len(queue[e2][t2]),
             ~(e2 = e /\ t2 = t /\ i = 1)
      PROVE  \E j \in 1 .. Len(queue'[e2][t2]) : queue'[e2][t2][j] = queue[e2][t2][i]
  <2>1. CASE ~(e2 = e /\ t2 = t)
    BY <1>1, <2>1
  <2>2. CASE e2 = e /\ t2 = t
    <3>1. i - 1 \in 1 .. Len(queue'[e][t]) /\ (i - 1) + 1 = i
      BY <1>2, <1>4, <2>2
    <3> QED
      BY <1>2, <2>2, <3>1
  <2> QED
    BY <2>1, <2>2
<1>5. SameOps
  <2>1. ASSUME NEW e2 \in Engines, NEW t2 \in Transports, NEW i \in 1 .. Len(queue'[e2][t2])
        PROVE  \E j \in 1 .. Len(queue[e2][t2]) :
                 /\ queue'[e2][t2][i].cover = queue[e2][t2][j].cover
                 /\ queue[e2][t2][j].abandoned => queue'[e2][t2][i].abandoned
    <3>1. PICK j \in 1 .. Len(queue[e2][t2]) : queue'[e2][t2][i] = queue[e2][t2][j]
      BY <1>3
    <3> QED
      BY <3>1
  <2> QED
    BY <2>1 DEF SameOps
<1>6. ASSUME ~queue[e][t][1].abandoned, repairs' = repairs, Repairing
      PROVE  Repairing'
  <2>1. CASE repairs > 0
    BY <1>6, <2>1 DEF Repairing
  <2>2. ASSUME NEW e2 \in Engines, NEW t2 \in Transports, NEW i \in 1 .. Len(queue[e2][t2]),
               queue[e2][t2][i].abandoned
        PROVE  Repairing'
    <3>1. ~(e2 = e /\ t2 = t /\ i = 1)
      BY <1>6, <2>2
    <3>2. PICK j \in 1 .. Len(queue'[e2][t2]) : queue'[e2][t2][j] = queue[e2][t2][i]
      BY <1>4, <3>1
    <3> QED
      BY <2>2, <3>2 DEF Repairing
  <2> QED
    BY <1>6, <2>1, <2>2 DEF Repairing
<1> QED
  BY <1>5, <1>6

\* Where the host writes nothing, no snapshot in sight gets newer.
LEMMA SettleBounds ==
  ASSUME RInv, NEW e \in Engines, NEW t \in Transports, NEW outcome,
         Busy(e, t), Settle(e, t, outcome), UNCHANGED <<changeCounter, folder>>,
         \A t2 \in Transports : KeptOrReleased(t2)
  PROVE  NewestInv' /\ AtMost(changeCounter)' /\ CommittedInv'
<1>1. SameOps /\ SameFolders
  BY SettleOps DEF SameFolders
<1>2. SameLocks
  BY DEF SameLocks, KeptOrReleased
<1>3. CommittedInv'
  BY DEF CommittedInv, RInv, Repairable, KeptOrReleased
<1> QED
  BY <1>1, <1>2, <1>3, NewestKept DEF RInv, Repairable, BoundedInv

\* An operation that settles with an outcome it can vouch for leaves every
\* counter telling the truth; an abandoned one always asks for the repair.
LEMMA SettleRepairable ==
  ASSUME RInv, TypeOK', NEW e \in Engines, NEW t \in Transports,
         NEW outcome \in {"ok", "stale_publish", "failed"},
         Busy(e, t), Settle(e, t, outcome), UNCHANGED <<database, disk>>,
         \A t2 \in Transports : KeptOrReleased(t2),
         NEW op, op = queue[e][t][1],
         ~op.abandoned =>
           \A d \in Domains : InFolder(d) /\ LateHolds(d) => LateHolds(d)',
         outcome = "ok" /\ ~op.abandoned /\ ~(op.cover < changedAt[op.dom])
           => InFolder(op.dom) /\ LateHolds(op.dom)'
  PROVE  Repairable'
<1>1. /\ HeadOp(e, t) = op
      /\ op.dom \in Domains /\ op.cover \in Nat /\ op.abandoned \in BOOLEAN
      /\ 1 \in 1 .. Len(queue[e][t])
      /\ OpShape(e, t, 1)
      /\ op.cover <= changeCounter
  <2>1. HeadOp(e, t) = op /\ op \in Op /\ 1 \in 1 .. Len(queue[e][t])
    BY TailOps, EmptySeq DEF HeadOp, Busy, RInv, TypeOK
  <2> QED
    BY <2>1 DEF Op, RInv, Shape, OpsShape, Repairable, BoundedInv, AtMost
<1>2. /\ UNCHANGED <<changeCounter, lastPublish, changedAt, edits, folder>>
      /\ changeCounter \in Nat /\ TypeOK /\ BoundedInv /\ VouchInv /\ GatheredInv
  BY DEF database, disk, RInv, TypeOK, Repairable
<1>3. NewestInv' /\ AtMost(changeCounter)' /\ CommittedInv'
  BY <1>2, SettleBounds
<1>4. CASE op.abandoned
  <2>1. /\ UNCHANGED run
        /\ publishedAt' = [publishedAt EXCEPT ![e][op.dom] = 0]
        /\ repairs' = repairs + 1
    BY <1>1, <1>4 DEF Settle, RepairAfterLatePublish
  <2>2. \A d \in Domains : Kept(d) /\ Sound(d)'
    BY <1>2, <2>1 DEF Kept, Sound, Repairing, TypeOK
  <2>3. VouchInv'
    BY <2>2 DEF VouchInv, Vouched
  <2>4. \A e2 \in Engines, d \in Domains :
          publishedAt'[e2][d] = 0 \/ publishedAt'[e2][d] = publishedAt[e2][d]
    BY <1>1, <1>2, <2>1 DEF TypeOK
  <2>5. BoundedInv'
    BY <1>2, <1>3, <2>4 DEF BoundedInv
  <2>6. GatheredInv'
    BY <1>2, <2>1, <2>2, GatheredKept
  <2> QED
    BY <1>3, <2>3, <2>5, <2>6 DEF Repairable
<1>5. CASE ~op.abandoned
  <2>1. /\ run # None /\ run.eng = e /\ run.awaiting = op.dom
        /\ run \in Run /\ repairs' = repairs
    BY <1>1, <1>2, <1>5 DEF OpShape, TypeOK, Settle, Published, NotPublished
  <2>2. Repairing => Repairing'
    BY <1>5, <2>1, SettleOps
  <2>3. ASSUME NEW d \in Domains PROVE Kept(d)
    <3>1. InFolder(d)' <=> InFolder(d)
      BY <1>2 DEF InFolder
    <3> QED
      BY <1>2, <1>5, <2>2, <3>1 DEF Kept, Sound
  <2>4. \A d \in Domains : Vouched(lastPublish, d)'
    BY <1>2, <2>3, VouchedKept DEF BoundedInv, VouchInv, TypeOK
  <2>5. CASE outcome = "ok"
    <3>1. Published(e, op)
      BY <1>1, <1>5, <2>5 DEF Settle
    <3>2. /\ run'.at = run.at /\ run'.last = run.last
          /\ run'.changedAt = run.changedAt /\ run'.awaiting = None
          /\ run'.todo = run.todo
          /\ run'.covered = run.covered \cup {op.cover}
          /\ run'.failed = run.failed /\ run'.superseded = run.superseded
          /\ run'.unrouted = run.unrouted
      BY <2>1, <3>1 DEF Published, Run
    <3>3. \A e2 \in Engines, d \in Domains :
            publishedAt'[e2][d] = IF e2 = e /\ d = op.dom THEN op.cover
                                                          ELSE publishedAt[e2][d]
      <4>1. publishedAt' = [publishedAt EXCEPT ![e][op.dom] = op.cover]
        BY <3>1 DEF Published
      <4> QED
        BY <1>1, <1>2, <4>1 DEF TypeOK
    <3>4. Vouched(op.cover, op.dom)'
      <4>1. InFolder(op.dom)' <=> InFolder(op.dom)
        BY <1>2 DEF InFolder
      <4>2. op.cover < changedAt'[op.dom] \/ Sound(op.dom)'
        BY <1>2, <1>5, <2>5, <4>1 DEF Sound
      <4> QED
        BY <4>2 DEF Vouched
    <3>5. VouchInv'
      <4>1. ASSUME NEW d \in Domains, NEW e2 \in Engines
            PROVE  Vouched(publishedAt[e2][d], d)'
        <5>1. CASE e2 = e /\ d = op.dom
          BY <3>3, <3>4, <5>1 DEF Vouched
        <5>2. CASE ~(e2 = e /\ d = op.dom)
          <6>1. PICK c \in Nat : c = publishedAt[e2][d]
            BY <1>2 DEF TypeOK
          <6>2. c <= changeCounter /\ Vouched(c, d)
            BY <1>2, <6>1 DEF BoundedInv, VouchInv
          <6>3. Vouched(c, d)'
            BY <1>2, <2>3, <6>2, VouchedKept
          <6>4. publishedAt'[e2][d] = c
            BY <3>3, <5>2, <6>1
          <6> QED
            BY <6>3, <6>4 DEF Vouched
        <5> QED
          BY <5>1, <5>2
      <4> QED
        BY <2>4, <4>1 DEF VouchInv
    <3>6. BoundedInv'
      BY <1>1, <1>2, <1>3, <3>3 DEF BoundedInv
    <3>7. ASSUME Dirty', Complete', NEW d \in Domains \ (run'.todo \cup {run'.awaiting})
          PROVE  \E c \in run'.covered : Vouched(c, d)'
      <4>1. Dirty /\ Complete
        BY <3>2, <3>7 DEF Dirty, Complete
      <4>2. CASE d = op.dom
        <5>1. op.cover \in run'.covered
          BY <3>2
        <5> QED
          BY <3>4, <4>2, <5>1
      <4>3. CASE d # op.dom
        <5>1. PICK c \in run.covered : Vouched(c, d)
          BY <1>2, <2>1, <3>2, <3>7, <4>1, <4>3 DEF GatheredInv
        <5>2. c \in Nat /\ c <= changeCounter /\ c \in run'.covered
          BY <1>2, <2>1, <3>2 DEF GatheredInv, Run
        <5>3. Vouched(c, d)'
          BY <1>2, <2>3, <5>1, <5>2, VouchedKept
        <5> QED
          BY <5>2, <5>3
      <4> QED
        BY <4>2, <4>3
    <3>8. GatheredInv'
      BY <1>1, <1>2, <2>1, <3>2, <3>7 DEF GatheredInv
    <3> QED
      BY <1>3, <3>5, <3>6, <3>8 DEF Repairable
  <2>6. CASE outcome # "ok"
    <3>1. NotPublished(e, op, outcome)
      BY <1>1, <1>5, <2>6 DEF Settle
    <3>2. /\ run'.at = run.at /\ run'.last = run.last
          /\ run'.changedAt = run.changedAt /\ run'.covered = run.covered
          /\ UNCHANGED publishedAt
      BY <2>1, <3>1 DEF NotPublished, Run
    <3>3. ~Complete'
      <4>1. outcome = "stale_publish" \/ outcome = "failed"
        BY <2>6
      <4> QED
        BY <2>1, <3>1, <4>1 DEF NotPublished, Run, Complete
    <3>4. VouchInv'
      BY <1>2, <2>3, <3>2, CountersVouch
    <3>5. GatheredInv'
      BY <1>2, <2>1, <3>2, <3>3 DEF GatheredInv
    <3>6. BoundedInv'
      BY <1>2, <1>3, <3>2 DEF BoundedInv
    <3> QED
      BY <1>3, <3>4, <3>5, <3>6 DEF Repairable
  <2> QED
    BY <2>5, <2>6
<1> QED
  BY <1>1, <1>4, <1>5

\* An operation that moves on, is refused or fails before the host has it.
LEMMA AdvanceRepairable ==
  ASSUME RInv, TypeOK', NEW e \in Engines, NEW t \in Transports,
         Begin(e, t) \/ Send(e, t) \/ TransportFails(e, t)
  PROVE  Repairable'
<1>1. Busy(e, t) /\ UNCHANGED <<database, disk, writer>>
  BY DEF Begin, Send, Advance, TransportFails
<1>2. \A t2 \in Transports : KeptOrReleased(t2)
  BY <1>1 DEF KeptOrReleased
<1>3. \A d \in Domains : LateHolds(d)' <=> LateHolds(d)
  BY <1>1 DEF LateHolds, Late, database
<1>4. ASSUME NEW outcome \in {"stale_publish", "failed"}, Settle(e, t, outcome)
      PROVE  Repairable'
  BY <1>1, <1>2, <1>3, <1>4, SettleRepairable
<1>5. ASSUME NEW stage \in Stages, SetStage(e, t, stage)
      PROVE  Repairable'
  BY <1>1, <1>5, StageRepairable
<1> QED
  BY <1>4, <1>5 DEF Begin, Send, Advance, TransportFails, Stages

\* What the lock's holder writes is what its operation is to write.
LEMMA HeldOp ==
  ASSUME RInv, NEW e \in Engines, NEW t \in Transports, Owns(e, t)
  PROVE  /\ Busy(e, t)
         /\ 1 \in 1 .. Len(queue[e][t])
         /\ writer[t] \in Writer /\ writer[t] # None
         /\ queue[e][t][1].dom = writer[t].dom
         /\ queue[e][t][1].cover = writer[t].cover
         /\ ~queue[e][t][1].abandoned => AtMost(writer[t].cover)
<1>1. /\ Busy(e, t)
      /\ writer[t] \in Writer /\ writer[t] # None
      /\ queue[e][t][1].dom = writer[t].dom
      /\ queue[e][t][1].cover = writer[t].cover
  BY DEF RInv, TypeOK, Shape, LockShape, WriterShape, Owns
<1>2. 1 \in 1 .. Len(queue[e][t])
  BY <1>1, EmptySeq DEF Busy, RInv, TypeOK
<1>3. NewestInv
  BY DEF RInv, Repairable
<1>4. ~queue[e][t][1].abandoned => AtMost(queue[e][t][1].cover)
  BY <1>2, <1>3 DEF NewestInv
<1> QED
  BY <1>1, <1>2, <1>4 DEF AtMost

\* One lock writes a domain: the one of the folder that carries it.
LEMMA OneCarrier ==
  ASSUME RInv, NEW t \in Transports, NEW t2 \in Transports, NEW d,
         writer[t] # None, writer[t].dom = d, Late(t2, d)
  PROVE  t2 = t
BY DEF RInv, Shape, LockShape, Late

\* A publish that ends in the host is vouched for by the folder it wrote.
LEMMA HostEndRepairable ==
  ASSUME RInv, TypeOK', NEW t \in Transports, HostReturn(t) \/ HostFails(t)
  PROVE  Repairable'
<1>1. /\ writer[t] \in Writer /\ writer[t] # None
      /\ writer' = [writer EXCEPT ![t] = None]
      /\ UNCHANGED <<database, disk>>
      /\ UNCHANGED <<changeCounter, lastPublish, changedAt, edits, folder>>
  BY DEF HostReturn, HostFails, RInv, TypeOK, database, disk
<1>2. writer'[t] = None /\ \A t2 \in Transports : t2 # t => writer'[t2] = writer[t2]
  BY <1>1 DEF RInv, TypeOK
<1>3. \A t2 \in Transports : KeptOrReleased(t2)
  BY <1>2 DEF KeptOrReleased
<1>4. \A t2 \in Transports, d \in Domains :
        Late(t2, d)' => t2 # t /\ Late(t2, d) /\ writer'[t2] = writer[t2]
  BY <1>2 DEF Late
<1>5. \A d \in Domains : LateHolds(d) => LateHolds(d)'
  BY <1>1, <1>4 DEF LateHolds
<1>6. CASE writer[t].owner = None
  <2>1. UNCHANGED <<publishedAt, run, queue, repairs>>
    BY <1>6 DEF HostReturn, HostFails, memory
  <2>2. SameOps /\ SameLocks /\ SameFolders
    BY <1>1, <1>3, <2>1, QueuesAlone DEF SameLocks, SameFolders, KeptOrReleased
  <2>3. NewestInv' /\ AtMost(changeCounter)'
    BY <1>1, <2>2, NewestKept DEF RInv, Repairable, BoundedInv
  <2>4. BoundedInv' /\ CommittedInv'
    BY <1>1, <1>3, <2>1, <2>3 DEF RInv, Repairable, BoundedInv, CommittedInv, KeptOrReleased
  <2>5. ASSUME NEW d \in Domains PROVE Kept(d)
    <3>1. (InFolder(d)' <=> InFolder(d)) /\ (Repairing' <=> Repairing)
      BY <1>1, <2>1 DEF InFolder, Repairing
    <3> QED
      BY <1>1, <1>5, <3>1 DEF Kept, Sound
  <2>6. changeCounter <= changeCounter'
    BY <1>1 DEF RInv, TypeOK
  <2> QED
    BY <1>1, <2>1, <2>3, <2>4, <2>5, <2>6, CountersVouch, GatheredKept DEF Repairable
<1>7. CASE writer[t].owner # None
  <2>1. PICK e \in Engines : e = writer[t].owner
    BY <1>1, <1>7 DEF Writer
  <2>2. Owns(e, t)
    BY <1>1, <2>1 DEF Owns
  <2>3. PICK op : op = queue[e][t][1]
    OBVIOUS
  <2>4. Busy(e, t) /\ op.dom = writer[t].dom /\ op.cover = writer[t].cover
    BY <2>2, <2>3, HeldOp
  <2>5. CASE HostReturn(t)
    <3>1. writer[t].committed /\ Settle(e, t, "ok")
      BY <1>7, <2>1, <2>5 DEF HostReturn
    <3>2. folder[op.dom] = op.cover /\ op.dom \in Domains
      BY <1>1, <2>4, <3>1 DEF RInv, Repairable, CommittedInv, Writer
    <3>3. ~(op.cover < changedAt[op.dom]) => InFolder(op.dom)
      <4>1. /\ edits[op.dom] \in SUBSET Nat /\ changedAt[op.dom] \in Nat
            /\ folder[op.dom] \in Nat
            /\ \A h \in edits[op.dom] : h <= changedAt[op.dom]
        BY <3>2 DEF RInv, TypeOK, Repairable, BoundedInv
      <4> QED
        BY <3>2, <4>1 DEF InFolder
    <3>4. LateHolds(op.dom)'
      BY <1>1, <1>4, <2>4, <3>2, OneCarrier DEF LateHolds
    <3> QED
      BY <1>1, <1>3, <1>5, <2>3, <2>4, <3>1, <3>3, <3>4, SettleRepairable
  <2>6. CASE HostFails(t)
    <3>1. Settle(e, t, "failed")
      BY <1>7, <2>1, <2>6 DEF HostFails
    <3> QED
      BY <1>1, <1>3, <1>5, <2>3, <2>4, <3>1, SettleRepairable
  <2> QED
    BY <2>5, <2>6
<1> QED
  BY <1>6, <1>7

\* A publish that runs on underneath holds what the folder holds, unless its
\* operation was abandoned and will ask for the repair.
LEMMA HostTimeoutRepairable ==
  ASSUME RInv, TypeOK', NEW e \in Engines, NEW t \in Transports, HostTimeoutWriting(e, t)
  PROVE  Repairable'
<1>1. Busy(e, t) /\ Owns(e, t)
  <2>1. Busy(e, t) /\ HeadOp(e, t).stage = "writing"
    BY DEF HostTimeoutWriting
  <2>2. HeadOp(e, t) = queue[e][t][1]
    BY <2>1, TailOps DEF HeadOp, Busy, RInv, TypeOK
  <2> QED
    BY <2>1, <2>2 DEF RInv, Shape, LockShape, WriterShape
<1>2. PICK op : op = queue[e][t][1]
  OBVIOUS
<1>3. /\ writer[t] \in Writer /\ writer[t] # None
      /\ op.dom = writer[t].dom /\ op.cover = writer[t].cover
      /\ op.dom \in Domains /\ op.cover \in Nat
      /\ ~op.abandoned => AtMost(op.cover)
  <2>1. /\ writer[t] \in Writer /\ writer[t] # None
        /\ op.dom = writer[t].dom /\ op.cover = writer[t].cover
        /\ ~op.abandoned => AtMost(writer[t].cover)
    BY <1>1, <1>2, HeldOp
  <2> QED
    BY <2>1 DEF Writer
<1>4. /\ UNCHANGED <<database, disk>>
      /\ UNCHANGED <<changeCounter, lastPublish, changedAt, edits, folder>>
  BY DEF HostTimeoutWriting, database, disk
<1>5. /\ writer'[t].dom = op.dom /\ writer'[t].cover = op.cover
      /\ writer'[t].committed = writer[t].committed
      /\ \A t2 \in Transports : t2 # t => writer'[t2] = writer[t2]
  <2> DEFINE left == [writer[t] EXCEPT !.owner = None]
  <2>1. /\ left.dom = op.dom /\ left.cover = op.cover
        /\ left.committed = writer[t].committed
    BY <1>3 DEF Writer
  <2>2. writer' = [writer EXCEPT ![t] = left]
    BY DEF HostTimeoutWriting
  <2> HIDE DEF left
  <2> QED
    BY <2>1, <2>2 DEF RInv, TypeOK
<1>6. \A t2 \in Transports : KeptOrReleased(t2)
  BY <1>3, <1>5 DEF KeptOrReleased
<1>7. \A t2 \in Transports, d \in Domains : Late(t2, d)' =>
        \/ t2 # t /\ Late(t2, d) /\ writer'[t2] = writer[t2]
        \/ t2 = t /\ d = op.dom /\ writer'[t2].cover = op.cover
  BY <1>5 DEF Late
<1>8. \A d \in Domains : \A h \in edits[d] :
        /\ h \in Nat /\ folder[d] \in Nat /\ changedAt[d] \in Nat
        /\ h <= changedAt[d]
  BY DEF RInv, TypeOK, Repairable, BoundedInv
<1>9. ASSUME ~op.abandoned, NEW d \in Domains, InFolder(d), LateHolds(d)
      PROVE  LateHolds(d)'
  <2>1. folder[op.dom] <= op.cover
    BY <1>3, <1>9 DEF AtMost
  <2>2. d = op.dom => \A h \in edits[d] : h <= op.cover
    BY <1>3, <1>8, <1>9, <2>1 DEF InFolder
  <2>3. ASSUME NEW t2 \in Transports, Late(t2, d)', NEW h \in edits[d]
        PROVE  h <= writer'[t2].cover
    <3>1. CASE Late(t2, d) /\ writer'[t2] = writer[t2]
      BY <1>9, <2>3, <3>1 DEF LateHolds
    <3>2. CASE d = op.dom /\ writer'[t2].cover = op.cover
      BY <2>2, <2>3, <3>2
    <3> QED
      BY <1>7, <2>3, <3>1, <3>2
  <2> QED
    BY <1>4, <2>3 DEF LateHolds
<1>10. ASSUME SameBytes(writer[t]), ~(op.cover < changedAt[op.dom])
       PROVE  InFolder(op.dom) /\ LateHolds(op.dom)'
  <2>1. \A h \in edits[op.dom] : h <= op.cover
    BY <1>3, <1>8, <1>10
  <2>2. InFolder(op.dom)
    BY <1>3, <1>10, <2>1 DEF SameBytes, InFolder
  <2>3. \A t2 \in Transports : Late(t2, op.dom)' => writer'[t2].cover = op.cover
    BY <1>3, <1>7, OneCarrier
  <2> QED
    BY <1>4, <2>1, <2>2, <2>3 DEF LateHolds
<1>11. ASSUME SameBytes(writer[t]), Settle(e, t, "ok")
       PROVE  Repairable'
  BY <1>1, <1>2, <1>4, <1>6, <1>9, <1>10, <1>11, SettleRepairable
<1>12. ASSUME Settle(e, t, "failed")
       PROVE  Repairable'
  BY <1>1, <1>2, <1>4, <1>6, <1>9, <1>12, SettleRepairable
<1> QED
  BY <1>11, <1>12 DEF HostTimeoutWriting

\* A commit writes a snapshot that holds what the folder held, or the
\* operation it belongs to was abandoned and will ask for the repair.
LEMMA HostCommitRepairable ==
  ASSUME RInv, TypeOK', NEW t \in Transports, HostCommit(t)
  PROVE  Repairable'
<1> DEFINE w == writer[t]
<1>1. /\ w \in Writer /\ w # None /\ ~w.committed
      /\ w.dom \in Domains /\ w.cover \in Nat
      /\ Carrier[w.dom] = t
  <2>1. w \in Writer /\ w # None /\ ~w.committed
    BY DEF HostCommit, RInv, TypeOK
  <2> QED
    BY <2>1 DEF Writer, RInv, Shape, LockShape
<1>2. /\ UNCHANGED <<changeCounter, lastPublish, changedAt, edits, publishedAt,
                     run, queue, repairs>>
      /\ folder \in [Domains -> Nat] /\ TypeOK
  BY DEF HostCommit, database, memory, RInv, TypeOK
<1>3. \A d \in Domains : folder'[d] = IF d = w.dom THEN w.cover ELSE folder[d]
  BY <1>1, <1>2 DEF HostCommit
<1>4. /\ writer'[t].dom = w.dom /\ writer'[t].cover = w.cover
      /\ writer'[t].committed
      /\ \A t2 \in Transports : t2 # t => writer'[t2] = writer[t2]
  <2> DEFINE done == [w EXCEPT !.committed = TRUE]
  <2>1. done.dom = w.dom /\ done.cover = w.cover /\ done.committed
    BY <1>1 DEF Writer
  <2>2. writer' = [writer EXCEPT ![t] = done]
    BY DEF HostCommit
  <2> HIDE DEF done
  <2> QED
    BY <2>1, <2>2 DEF RInv, TypeOK
<1>5. SameOps /\ SameLocks /\ SameFolders
  BY <1>1, <1>2, <1>3, <1>4, QueuesAlone DEF SameLocks, SameFolders
<1>6. NewestInv' /\ AtMost(changeCounter)'
  BY <1>2, <1>5, NewestKept DEF RInv, Repairable, BoundedInv
<1>7. BoundedInv'
  BY <1>2, <1>6 DEF RInv, Repairable, BoundedInv
<1>8. CommittedInv'
  <2> SUFFICES ASSUME NEW t2 \in Transports, writer'[t2] # None, writer'[t2].committed
               PROVE  folder'[writer'[t2].dom] = writer'[t2].cover
    BY DEF CommittedInv
  <2>1. CASE t2 = t
    BY <1>1, <1>3, <1>4, <2>1
  <2>2. CASE t2 # t
    <3>1. writer'[t2] = writer[t2] /\ writer[t2] # None /\ writer[t2].committed
      BY <1>4, <2>2
    <3>2. writer[t2].dom \in Domains /\ writer[t2].dom # w.dom
      BY <1>1, <2>2, <3>1 DEF RInv, TypeOK, Shape, LockShape, Writer
    <3>3. folder[writer[t2].dom] = writer[t2].cover
      BY <3>1 DEF RInv, Repairable, CommittedInv
    <3> QED
      BY <1>3, <3>1, <3>2, <3>3
  <2> QED
    BY <2>1, <2>2
<1>9. ASSUME NEW d \in Domains
      PROVE  Kept(d)
  <2>1. Repairing' <=> Repairing
    BY <1>2 DEF Repairing
  <2>2. \A t2 \in Transports :
          Late(t2, d)' => Late(t2, d) /\ writer'[t2] = writer[t2]
    BY <1>4 DEF Late
  <2>3. LateHolds(d) => LateHolds(d)'
    BY <1>2, <2>2 DEF LateHolds
  <2>4. ASSUME ~Repairing, InFolder(d), LateHolds(d)
        PROVE  InFolder(d)'
    <3>1. CASE d # w.dom
      BY <1>2, <1>3, <2>4, <3>1 DEF InFolder
    <3>2. CASE d = w.dom
      <4>1. ASSUME w.owner = None
            PROVE  \A h \in edits[d] : h <= w.cover
        <5>1. Late(t, d)
          BY <1>1, <3>2, <4>1 DEF Late
        <5> QED
          BY <2>4, <5>1 DEF LateHolds
      <4>2. ASSUME w.owner # None
            PROVE  \A h \in edits[d] : h <= w.cover
        <5>1. PICK e \in Engines : Owns(e, t)
          BY <1>1, <4>2 DEF Writer, Owns
        <5>2. ~queue[e][t][1].abandoned
          BY <2>4, <5>1, HeldOp DEF Repairing
        <5>3. folder[d] <= w.cover
          BY <5>1, <5>2, HeldOp DEF AtMost
        <5>4. \A h \in edits[d] : h \in Nat /\ h <= folder[d]
          BY <1>2, <2>4 DEF InFolder, TypeOK
        <5> QED
          BY <1>1, <1>2, <5>3, <5>4
      <4> QED
        BY <1>2, <1>3, <3>2, <4>1, <4>2 DEF InFolder
    <3> QED
      BY <3>1, <3>2
  <2> QED
    BY <1>2, <2>1, <2>3, <2>4 DEF Kept, Sound
<1>10. changeCounter <= changeCounter'
  BY <1>2 DEF TypeOK
<1> QED
  BY <1>2, <1>6, <1>7, <1>8, <1>9, <1>10, CountersVouch, GatheredKept DEF Repairable

\* A fresh engine remembers nothing, which vouches for nothing.
LEMMA RebuildRepairable ==
  ASSUME RInv, TypeOK', NEW e \in Engines, Rebuild(e)
  PROVE  Repairable'
<1>1. /\ UNCHANGED <<changeCounter, lastPublish, changedAt, edits, folder, writer,
                     run, queue, repairs>>
      /\ TypeOK /\ BoundedInv /\ VouchInv
  BY DEF Rebuild, database, disk, RInv, Repairable
<1>2. \A e2 \in Engines, d \in Domains :
        publishedAt'[e2][d] = IF e2 = e THEN 0 ELSE publishedAt[e2][d]
  BY <1>1 DEF Rebuild, NoMemory, TypeOK
<1>3. NewestInv' /\ AtMost(changeCounter)' /\ CommittedInv'
  BY <1>1 DEF RInv, Repairable, BoundedInv, NewestInv, CommittedInv, AtMost
<1>4. BoundedInv'
  <2>1. changeCounter \in Nat
    BY <1>1 DEF TypeOK
  <2>2. \A e2 \in Engines, d \in Domains : publishedAt'[e2][d] <= changeCounter
    BY <1>1, <1>2, <2>1 DEF BoundedInv
  <2> QED
    BY <1>1, <1>3, <2>2 DEF BoundedInv
<1>5. \A d \in Domains : Sound(d)' <=> Sound(d)
  BY <1>1 DEF Sound, Repairing, InFolder, LateHolds, Late
<1>6. \A d \in Domains : Kept(d)
  BY <1>1, <1>5 DEF Kept
<1>7. VouchInv'
  <2> SUFFICES ASSUME NEW d \in Domains
               PROVE  /\ Vouched(lastPublish, d)'
                      /\ \A e2 \in Engines : Vouched(publishedAt[e2][d], d)'
    BY DEF VouchInv
  <2>1. Vouched(lastPublish, d)'
    BY <1>1, <1>5 DEF VouchInv, Vouched
  <2>2. ASSUME NEW e2 \in Engines
        PROVE  Vouched(publishedAt[e2][d], d)'
    <3>1. CASE e2 # e
      BY <1>1, <1>2, <1>5, <3>1 DEF VouchInv, Vouched
    <3>2. CASE e2 = e
      <4>1. Vouched(lastPublish, d)' => 0 < changedAt'[d] \/ Sound(d)'
        BY <1>1 DEF Vouched, TypeOK
      <4>2. publishedAt'[e2][d] = 0
        BY <1>2, <3>2
      <4> QED
        BY <2>1, <4>1, <4>2 DEF Vouched
    <3> QED
      BY <3>1, <3>2
  <2> QED
    BY <2>1, <2>2
<1>8. GatheredInv'
  <2>1. changeCounter <= changeCounter'
    BY <1>1 DEF TypeOK
  <2> QED
    BY <1>1, <1>6, <2>1, GatheredKept
<1> QED
  BY <1>3, <1>4, <1>7, <1>8 DEF Repairable

\* Nothing is published at first, and nothing changed.
LEMMA InitRepairable ==
  ASSUME Init
  PROVE  Repairable
<1>1. /\ \A e \in Engines, t \in Transports :
           queue[e][t] = << >> /\ Len(queue[e][t]) = 0
      /\ \A t \in Transports : writer[t] = None
      /\ run = None
  BY EmptyQueues DEF Init
<1>2. NewestInv /\ CommittedInv /\ GatheredInv
  BY <1>1 DEF NewestInv, CommittedInv, GatheredInv
<1>3. AtMost(changeCounter)
  BY <1>1 DEF Init, AtMost
<1>4. BoundedInv
  BY <1>3 DEF Init, NoMemory, BoundedInv
<1>5. VouchInv
  BY <1>1 DEF Init, VouchInv, Vouched, Sound, InFolder, LateHolds, Late
<1> QED
  BY <1>2, <1>4, <1>5 DEF Repairable

\* Every step of a device whose engine is replaced keeps its invariant.
LEMMA StepRepairable ==
  ASSUME RInv, [RebuildNext]_vars
  PROVE  RInv'
<1>1. TypeOK' /\ Shape'
  BY StepTypes DEF RInv
<1> SUFFICES Repairable'
  BY <1>1 DEF RInv
<1>2. CASE UNCHANGED vars
  BY <1>1, <1>2, RepairableAlone DEF vars, database, disk, memory
<1>3. CASE LiveNext
  <2>1. ASSUME NEW touched \in SUBSET Domains, Edit(touched)
        PROVE  Repairable'
    BY <1>1, <2>1, BumpRepairable
  <2>2. CASE Republish
    BY <1>1, <2>2, BumpRepairable
  <2>3. CASE StartRun
    BY <1>1, <2>3, RunRepairable
  <2>4. CASE RunStep
    BY <1>1, <2>4, RunRepairable, PublishRepairable, FinishRepairable DEF RunStep
  <2>5. ASSUME NEW e \in Engines, NEW t \in Transports, TransportStep(e, t)
        PROVE  Repairable'
    BY <1>1, <2>5, AdvanceRepairable, HostLockRepairable DEF TransportStep
  <2>6. ASSUME NEW t \in Transports, HostStep(t)
        PROVE  Repairable'
    BY <1>1, <2>6, HostCommitRepairable, HostEndRepairable DEF HostStep
  <2>7. CASE FaultStep
    <3>1. CASE (\E d \in Domains : DomainFails(d)) \/ MarkFails
      BY <1>1, <3>1, RunRepairable
    <3>2. CASE EngineTimeout
      BY <1>1, <3>2, EngineTimeoutRepairable
    <3>3. ASSUME NEW e \in Engines, NEW t \in Transports,
                 TransportFails(e, t) \/ HostTimeoutWriting(e, t)
          PROVE  Repairable'
      BY <1>1, <3>3, AdvanceRepairable, HostTimeoutRepairable
    <3>4. ASSUME NEW t \in Transports, HostFails(t)
          PROVE  Repairable'
      BY <1>1, <3>4, HostEndRepairable
    <3> QED
      BY <2>7, <3>1, <3>2, <3>3, <3>4 DEF FaultStep
  <2> QED
    BY <1>3, <2>1, <2>2, <2>3, <2>4, <2>5, <2>6, <2>7 DEF LiveNext
<1>4. ASSUME NEW e \in Engines, Rebuild(e)
      PROVE  Repairable'
  BY <1>1, <1>4, RebuildRepairable
<1> QED
  BY <1>2, <1>3, <1>4 DEF RebuildNext

\* With replaced engines: the newest snapshot is the awaited one, and a counter
\* that has caught up with a domain vouches for its folder or a repair is due.
THEOREM RebuildInvariant == RebuildSpec => []RInv
<1>1. Init => RInv
  BY InitTypes, InitRepairable DEF RInv
<1>2. RInv /\ [RebuildNext]_vars => RInv'
  BY StepRepairable
<1> QED
  BY <1>1, <1>2, PTL DEF RebuildSpec

\* RepairInSight, for any number of engines, timeouts and rebuilds: a change that
\* the folder lacks is owed by the counters, or a republish is sure to be asked.
THEOREM RepairHolds == RebuildSpec => []RepairInSight
<1>1. RInv => RepairInSight
  <2> SUFFICES ASSUME RInv, NEW d \in Domains, NEW h \in edits[d], h > folder[d],
                      ~Owed(d)
               PROVE  Repairing
    BY ElementOfSeq DEF RepairInSight, Repairing, RInv, TypeOK
  <2>1. /\ lastPublish \in Nat /\ changedAt[d] \in Nat
        /\ current \in Engines /\ publishedAt[current][d] \in Nat
        /\ h \in Nat /\ folder[d] \in Nat
    BY DEF RInv, TypeOK
  <2>2. ~(lastPublish < changedAt[d]) \/ ~(publishedAt[current][d] < changedAt[d])
    BY <2>1 DEF Owed, Larger
  <2>3. Vouched(lastPublish, d) /\ Vouched(publishedAt[current][d], d)
    BY <2>1 DEF RInv, Repairable, VouchInv
  <2>4. Sound(d)
    BY <2>2, <2>3 DEF Vouched
  <2>5. ~InFolder(d)
    BY <2>1 DEF InFolder
  <2> QED
    BY <2>4, <2>5 DEF Sound
<1> QED
  BY RebuildInvariant, <1>1, PTL
=============================================================================
