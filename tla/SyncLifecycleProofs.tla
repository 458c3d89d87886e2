------------------------- MODULE SyncLifecycleProofs -------------------------
(* What the exit handshake and the runs of stopped lifecycles promise, for *)
(* any number of lifecycles, edits, faults and triggers.                   *)
EXTENDS SyncLifecycle, SequenceTheorems, TLAPS

Places == {"none", "loading", "listening", "calling", "up", "stopping", "gone"}
Calls == [by : Builds, on : BOOLEAN, applied : BOOLEAN]

HandshakeTypes ==
  /\ registration \in [Builds -> Places]
  /\ calls \in Seq(Calls)
  /\ handshake \in BOOLEAN

\* Each call in flight stands for one registration; "off" calls come before "on"
\* calls, because the last counted registration alone sends one; only the first
\* call can have reached the host, and then the host has what it says.
CallsInv ==
  /\ \A i \in 1 .. Len(calls) :
       registration[calls[i].by] = IF calls[i].on THEN "calling" ELSE "stopping"
  /\ \A i, j \in 1 .. Len(calls) :
       i < j => calls[i].by # calls[j].by /\ (calls[i].on => calls[j].on)
  /\ \A i \in 1 .. Len(calls) :
       calls[i].applied => i = 1 /\ handshake = calls[1].on /\ bridge = "commands"
  /\ handshake => bridge = "commands"

\* While a registration is up, nobody is telling the host to stop waiting.
UpInv ==
  (\E l \in Builds : registration[l] = "up") =>
     handshake /\ \A i \in 1 .. Len(calls) : calls[i].on

AttachedInv == handshake => \E l \in Builds : Attached(l)

\* A lifecycle that is not built has no registration.
NewInv ==
  /\ started \in [Builds -> {"new", "on", "off"}]
  /\ \A l \in Builds : started[l] = "new" => registration[l] = "none"

HInv == HandshakeTypes /\ CallsInv /\ UpInv /\ AttachedInv

\* The calls of the queue are calls, and the first is its head.
LEMMA InQueue ==
  ASSUME HandshakeTypes
  PROVE  /\ Len(calls) \in Nat
         /\ \A i \in 1 .. Len(calls) : /\ calls[i] \in Calls /\ calls[i].by \in Builds
                                       /\ calls[i].on \in BOOLEAN /\ calls[i].applied \in BOOLEAN
         /\ calls # << >> => 1 \in 1 .. Len(calls) /\ Head(calls) = calls[1]
<1>1. calls \in Seq(Calls)
  BY DEF HandshakeTypes
<1>2. Len(calls) \in Nat
  BY <1>1, LenProperties
<1>3. \A i \in 1 .. Len(calls) : calls[i] \in Calls
  BY <1>1, ElementOfSeq
<1>4. calls # << >> => 1 \in 1 .. Len(calls)
  BY <1>1, <1>2, EmptySeq
<1> QED
  BY <1>1, <1>2, <1>3, <1>4 DEF Calls

\* A call joins at the end.
LEMMA Appended ==
  ASSUME NEW s \in Seq(Calls), NEW c \in Calls
  PROVE  /\ Append(s, c) \in Seq(Calls) /\ Len(s) \in Nat /\ Len(Append(s, c)) = Len(s) + 1
         /\ \A i \in 1 .. Len(s) : Append(s, c)[i] = s[i]
         /\ Append(s, c)[Len(s) + 1] = c
<1>1. Len(s) \in Nat
  BY LenProperties
<1> QED
  BY <1>1, AppendProperties

\* What is left when the first call is answered.
LEMMA WithoutHead ==
  ASSUME HandshakeTypes, calls # << >>
  PROVE  /\ Tail(calls) \in Seq(Calls) /\ Len(Tail(calls)) = Len(calls) - 1
         /\ \A i \in 1 .. Len(Tail(calls)) :
              Tail(calls)[i] = calls[i + 1] /\ i + 1 \in 2 .. Len(calls)
<1>1. calls \in Seq(Calls)
  BY DEF HandshakeTypes
<1>2. Len(calls) \in Nat
  BY <1>1, LenProperties
<1>3. /\ Tail(calls) \in Seq(Calls) /\ Len(Tail(calls)) = Len(calls) - 1
      /\ \A i \in 1 .. Len(Tail(calls)) : Tail(calls)[i] = calls[i + 1]
  BY <1>1, HeadTailProperties
<1> QED
  BY <1>2, <1>3

\* A step that leaves the handshake's state alone keeps its invariant.
LEMMA Elsewhere ==
  ASSUME HInv, UNCHANGED host
  PROVE  HInv'
BY DEF HInv, HandshakeTypes, CallsInv, UpInv, AttachedInv, Attached, host

\* So does the end of the process.
LEMMA ExitEnds ==
  ASSUME HInv, Exit
  PROVE  HInv'
<1>1. registration' = [l \in Builds |-> "gone"] /\ calls' = << >> /\ ~handshake' /\ Len(calls') = 0
  BY DEF Exit
<1>2. HandshakeTypes'
  <2>1. [l \in Builds |-> "gone"] \in [Builds -> Places]
    BY DEF Places
  <2>2. << >> \in Seq(Calls)
    BY EmptySeq
  <2> QED
    BY <1>1, <2>1, <2>2 DEF HandshakeTypes, Exit
<1>3. CallsInv'
  BY <1>1 DEF CallsInv
<1>4. UpInv' /\ AttachedInv'
  BY <1>1 DEF UpInv, AttachedInv
<1> QED
  BY <1>2, <1>3, <1>4 DEF HInv

\* A listener is attached or given up, or a lifecycle starts: nothing is counted yet.
LEMMA Begins ==
  ASSUME HInv, NEW l \in Builds, registration[l] \in {"none", "loading"},
         NEW place \in {"loading", "listening", "gone"},
         registration' = [registration EXCEPT ![l] = place],
         UNCHANGED <<bridge, calls, handshake>>
  PROVE  HInv'
<1>1. HandshakeTypes'
  BY DEF HInv, HandshakeTypes, Places
<1>2. \A m \in Builds : registration'[m] = IF m = l THEN place ELSE registration[m]
  BY DEF HInv, HandshakeTypes
<1>3. \A i \in 1 .. Len(calls) : calls[i].by \in Builds /\ calls[i].on \in BOOLEAN
  BY InQueue DEF HInv
<1>4. CallsInv'
  BY <1>2, <1>3 DEF HInv, CallsInv
<1>5. UpInv'
  BY <1>2 DEF HInv, UpInv
<1>6. AttachedInv'
  BY <1>2 DEF HInv, AttachedInv, Attached
<1> QED
  BY <1>1, <1>4, <1>5, <1>6 DEF HInv

\* A registration's call joins the queue: its sender was not counted before.
LEMMA AsksStep ==
  ASSUME HInv, NEW l \in Builds, AsksHandshake(l)
  PROVE  HInv'
<1>1. /\ registration' = [registration EXCEPT ![l] = "calling"] /\ registration[l] = "listening"
      /\ calls' = Append(calls, Call(l, TRUE)) /\ handshake' = handshake /\ bridge' = bridge
  BY DEF AsksHandshake
<1>2. Call(l, TRUE) \in Calls /\ Call(l, TRUE).by = l /\ Call(l, TRUE).on /\ ~Call(l, TRUE).applied
  BY DEF Call, Calls
<1>3. \A m \in Builds : registration'[m] = IF m = l THEN "calling" ELSE registration[m]
  BY <1>1 DEF HInv, HandshakeTypes
<1>4. /\ calls' \in Seq(Calls) /\ Len(calls') = Len(calls) + 1 /\ Len(calls) \in Nat
      /\ calls'[Len(calls) + 1] = Call(l, TRUE)
      /\ \A i \in 1 .. Len(calls) : calls'[i] = calls[i]
  BY <1>1, <1>2, Appended DEF HInv, HandshakeTypes
<1>5. \A i \in 1 .. Len(calls) : /\ calls[i].by \in Builds /\ calls[i].by # l
                                /\ calls[i].on \in BOOLEAN
  BY <1>1, InQueue DEF HInv, CallsInv
<1>6. HandshakeTypes'
  BY <1>1, <1>4 DEF HInv, HandshakeTypes, Places
<1>7. \A i \in 1 .. Len(calls') : i \in 1 .. Len(calls) \/ i = Len(calls) + 1
  BY <1>4
<1>8. \A i, j \in 1 .. Len(calls') : i < j => i \in 1 .. Len(calls)
  BY <1>4
<1>9. CallsInv'
  <2>1. ASSUME NEW i \in 1 .. Len(calls')
        PROVE  registration'[calls'[i].by] = IF calls'[i].on THEN "calling" ELSE "stopping"
    <3>1. CASE i \in 1 .. Len(calls)
      BY <1>3, <1>4, <1>5, <3>1 DEF HInv, CallsInv
    <3>2. CASE i = Len(calls) + 1
      BY <1>2, <1>3, <1>4, <3>2
    <3> QED
      BY <1>7, <3>1, <3>2
  <2>2. ASSUME NEW i \in 1 .. Len(calls'), NEW j \in 1 .. Len(calls'), i < j
        PROVE  calls'[i].by # calls'[j].by /\ (calls'[i].on => calls'[j].on)
    <3>1. CASE j \in 1 .. Len(calls)
      BY <1>4, <1>8, <2>2, <3>1 DEF HInv, CallsInv
    <3>2. CASE j = Len(calls) + 1
      BY <1>2, <1>4, <1>5, <1>8, <2>2, <3>2
    <3> QED
      BY <1>7, <3>1, <3>2
  <2>3. ASSUME NEW i \in 1 .. Len(calls'), calls'[i].applied
        PROVE  i = 1 /\ handshake' = calls'[1].on /\ bridge' = "commands"
    <3>1. i \in 1 .. Len(calls) /\ calls[i].applied
      BY <1>2, <1>4, <1>7, <2>3
    <3>2. i = 1 /\ handshake = calls[1].on /\ bridge = "commands"
      BY <3>1 DEF HInv, CallsInv
    <3> QED
      BY <1>1, <1>4, <3>1, <3>2
  <2>4. handshake' => bridge' = "commands"
    BY <1>1 DEF HInv, CallsInv
  <2> QED
    BY <2>1, <2>2, <2>3, <2>4 DEF CallsInv
<1>10. UpInv'
  <2>1. SUFFICES ASSUME NEW m \in Builds, registration'[m] = "up"
                 PROVE  handshake' /\ \A i \in 1 .. Len(calls') : calls'[i].on
    BY DEF UpInv
  <2>2. registration[m] = "up"
    BY <1>3, <2>1
  <2> QED
    BY <1>1, <1>2, <1>4, <1>7, <2>2 DEF HInv, UpInv
<1>11. AttachedInv'
  BY <1>1, <1>3 DEF HInv, AttachedInv, Attached
<1> QED
  BY <1>6, <1>9, <1>10, <1>11 DEF HInv

\* The host applies the first call and has what it says.
LEMMA AppliesStep ==
  ASSUME HInv, HostApplies
  PROVE  HInv'
<1>1. /\ calls # << >> /\ bridge = "commands" /\ handshake' = Head(calls).on
      /\ calls' = [calls EXCEPT ![1].applied = TRUE]
      /\ registration' = registration /\ bridge' = bridge
  BY DEF HostApplies
<1>2. /\ Len(calls) \in Nat /\ 1 \in 1 .. Len(calls) /\ Head(calls) = calls[1]
      /\ \A i \in 1 .. Len(calls) : calls[i] \in Calls
  BY <1>1, InQueue DEF HInv
<1>3. /\ calls' \in Seq(Calls) /\ Len(calls') = Len(calls)
      /\ calls'[1].by = calls[1].by /\ calls'[1].on = calls[1].on
      /\ \A i \in 2 .. Len(calls) : calls'[i] = calls[i]
  <2>1. [calls[1] EXCEPT !.applied = TRUE] \in Calls
    BY <1>2 DEF Calls
  <2>2. calls' = [calls EXCEPT ![1] = [calls[1] EXCEPT !.applied = TRUE]]
    BY <1>1
  <2>3. calls' \in Seq(Calls) /\ Len(calls') = Len(calls)
        /\ calls'[1] = [calls[1] EXCEPT !.applied = TRUE]
        /\ \A i \in 2 .. Len(calls) : calls'[i] = calls[i]
    <3> DEFINE answered == [calls[1] EXCEPT !.applied = TRUE]
    <3>1. /\ [calls EXCEPT ![1] = answered] \in Seq(Calls)
          /\ Len([calls EXCEPT ![1] = answered]) = Len(calls)
          /\ \A j \in 1 .. Len(calls) :
               [calls EXCEPT ![1] = answered][j] = IF j = 1 THEN answered ELSE calls[j]
      <4> HIDE DEF answered
      <4>1. answered \in Calls
        BY <2>1 DEF answered
      <4> QED
        BY <1>2, <4>1, ExceptSeq DEF HInv, HandshakeTypes
    <3> QED
      BY <1>2, <2>2, <3>1
  <2> QED
    BY <1>2, <2>3 DEF Calls
<1>4. \A i \in 1 .. Len(calls) : calls'[i].by = calls[i].by /\ calls'[i].on = calls[i].on
                                /\ (i # 1 => calls'[i].applied = calls[i].applied)
  BY <1>2, <1>3
<1>5. HandshakeTypes'
  BY <1>1, <1>2, <1>3 DEF HInv, HandshakeTypes, Calls
<1>6. CallsInv'
  <2>1. (\A i \in 1 .. Len(calls) :
           registration[calls[i].by] = IF calls[i].on THEN "calling" ELSE "stopping")'
    BY <1>1, <1>3, <1>4 DEF HInv, CallsInv
  <2>2. (\A i, j \in 1 .. Len(calls) :
           i < j => calls[i].by # calls[j].by /\ (calls[i].on => calls[j].on))'
    BY <1>3, <1>4 DEF HInv, CallsInv
  <2>3. (\A i \in 1 .. Len(calls) :
           calls[i].applied => i = 1 /\ handshake = calls[1].on /\ bridge = "commands")'
    BY <1>1, <1>2, <1>3, <1>4 DEF HInv, CallsInv
  <2> QED
    BY <1>1, <2>1, <2>2, <2>3 DEF HInv, CallsInv
<1>7. UpInv'
  BY <1>1, <1>2, <1>3, <1>4 DEF HInv, UpInv
<1>8. AttachedInv'
  <2>1. calls[1].on => calls[1].by \in Builds /\ registration[calls[1].by] = "calling"
    BY <1>2 DEF HInv, CallsInv, Calls
  <2> QED
    BY <1>1, <1>2, <2>1 DEF AttachedInv, Attached
<1> QED
  BY <1>5, <1>6, <1>7, <1>8 DEF HInv

\* A call leaves the queue: what is left of it, for a registration that changes.
LEMMA LeavesQueue ==
  ASSUME HInv, calls # << >>
  PROVE  /\ \A i \in 1 .. Len(Tail(calls)) :
              /\ i + 1 \in 2 .. Len(calls) /\ Tail(calls)[i] = calls[i + 1]
              /\ Tail(calls)[i] \in Calls
              /\ Tail(calls)[i].by # Head(calls).by
              /\ Head(calls).on => Tail(calls)[i].on
              /\ ~Tail(calls)[i].applied
              /\ registration[Tail(calls)[i].by] =
                   IF Tail(calls)[i].on THEN "calling" ELSE "stopping"
         /\ \A i, j \in 1 .. Len(Tail(calls)) :
              i < j => /\ Tail(calls)[i].by # Tail(calls)[j].by
                       /\ (Tail(calls)[i].on => Tail(calls)[j].on)
         /\ Head(calls).by \in Builds /\ Head(calls).on \in BOOLEAN
         /\ registration[Head(calls).by] = IF Head(calls).on THEN "calling" ELSE "stopping"
         /\ Head(calls).applied => handshake = Head(calls).on /\ bridge = "commands"
<1>1. /\ Len(calls) \in Nat /\ 1 \in 1 .. Len(calls) /\ Head(calls) = calls[1]
      /\ \A i \in 1 .. Len(calls) : /\ calls[i] \in Calls /\ calls[i].by \in Builds
                                    /\ calls[i].on \in BOOLEAN
  BY InQueue DEF HInv
<1>2. \A i \in 1 .. Len(Tail(calls)) :
        Tail(calls)[i] = calls[i + 1] /\ i + 1 \in 2 .. Len(calls) /\ i + 1 \in 1 .. Len(calls)
  BY <1>1, WithoutHead DEF HInv
<1>3. ASSUME NEW i \in 1 .. Len(Tail(calls))
      PROVE  /\ i + 1 \in 2 .. Len(calls) /\ Tail(calls)[i] = calls[i + 1]
             /\ Tail(calls)[i] \in Calls
             /\ Tail(calls)[i].by # Head(calls).by
             /\ Head(calls).on => Tail(calls)[i].on
             /\ ~Tail(calls)[i].applied
             /\ registration[Tail(calls)[i].by] =
                  IF Tail(calls)[i].on THEN "calling" ELSE "stopping"
  <2>1. i + 1 # 1 /\ 1 < i + 1
    BY <1>2
  <2> QED
    BY <1>1, <1>2, <2>1 DEF HInv, CallsInv
<1>4. ASSUME NEW i \in 1 .. Len(Tail(calls)), NEW j \in 1 .. Len(Tail(calls)), i < j
      PROVE  /\ Tail(calls)[i].by # Tail(calls)[j].by
             /\ (Tail(calls)[i].on => Tail(calls)[j].on)
  <2>1. i + 1 < j + 1
    BY <1>4
  <2> QED
    BY <1>2, <2>1 DEF HInv, CallsInv
<1> QED
  BY <1>1, <1>3, <1>4 DEF HInv, CallsInv

\* A remover runs while no call to stop waiting is in flight: the last counted
\* registration sends one, any other just goes.
LEMMA ReleasedStep ==
  ASSUME HInv, NEW l \in Builds, Counted(l), NEW q \in Seq(Calls),
         \A i \in 1 .. Len(q) :
           /\ q[i].by \in Builds \ {l} /\ q[i].on /\ registration[q[i].by] = "calling"
           /\ q[i].applied => i = 1 /\ handshake /\ bridge = "commands",
         \A i, j \in 1 .. Len(q) : i < j => q[i].by # q[j].by,
         Released(l, q), bridge' = bridge, handshake' = handshake
  PROVE  HInv'
<1>1. CASE LastCounted(l)
  <2>1. registration' = [registration EXCEPT ![l] = "stopping"] /\ calls' = Append(q, Call(l, FALSE))
    BY <1>1 DEF Released
  <2>2. \A m \in Builds : registration'[m] = IF m = l THEN "stopping" ELSE registration[m]
    BY <2>1 DEF HInv, HandshakeTypes
  <2>3. /\ Call(l, FALSE) \in Calls /\ Call(l, FALSE).by = l
        /\ ~Call(l, FALSE).on /\ ~Call(l, FALSE).applied
    BY DEF Call, Calls
  <2>4. Len(q) = 0
    <3>1. 1 \notin 1 .. Len(q)
      BY <1>1 DEF LastCounted, Counted
    <3>2. Len(q) \in Nat
      BY LenProperties
    <3> QED
      BY <3>1, <3>2
  <2>5. calls' \in Seq(Calls) /\ Len(calls') = 1 /\ calls'[1] = Call(l, FALSE)
    <3>1. /\ Append(q, Call(l, FALSE)) \in Seq(Calls)
          /\ Len(Append(q, Call(l, FALSE))) = Len(q) + 1
          /\ Append(q, Call(l, FALSE))[Len(q) + 1] = Call(l, FALSE)
      BY <2>3, Appended
    <3>2. Len(q) + 1 = 1
      BY <2>4
    <3> QED
      BY <2>1, <3>1, <3>2
  <2>6. \A i \in 1 .. Len(calls') : i = 1
    BY <2>5
  <2>7. HandshakeTypes'
    BY <2>1, <2>5 DEF HInv, HandshakeTypes, Places
  <2>8. CallsInv'
    <3>1. (\A i \in 1 .. Len(calls) :
             /\ registration[calls[i].by] = IF calls[i].on THEN "calling" ELSE "stopping"
             /\ calls[i].applied => i = 1 /\ handshake = calls[1].on /\ bridge = "commands")'
      <4>1. /\ calls'[1].by = l /\ ~calls'[1].on /\ ~calls'[1].applied
            /\ registration'[l] = "stopping"
        BY <2>2, <2>3, <2>5
      <4>2. ASSUME NEW i \in 1 .. Len(calls')
            PROVE  /\ registration'[calls'[i].by] = IF calls'[i].on THEN "calling" ELSE "stopping"
                   /\ ~calls'[i].applied
        <5>1. i = 1
          BY <2>6
        <5> QED
          BY <4>1, <5>1
      <4> QED
        BY <4>2
    <3>2. (\A i, j \in 1 .. Len(calls) : ~(i < j))'
      BY <2>6
    <3>3. handshake' => bridge' = "commands"
      BY DEF HInv, CallsInv
    <3> QED
      BY <3>1, <3>2, <3>3 DEF CallsInv
  <2>9. UpInv'
    BY <1>1, <2>2 DEF UpInv, LastCounted, Counted
  <2>10. AttachedInv'
    BY <2>2 DEF AttachedInv, Attached
  <2> QED
    BY <2>7, <2>8, <2>9, <2>10 DEF HInv
<1>2. CASE ~LastCounted(l)
  <2>1. registration' = [registration EXCEPT ![l] = "gone"] /\ calls' = q
    BY <1>2 DEF Released
  <2>2. \A m \in Builds : registration'[m] = IF m = l THEN "gone" ELSE registration[m]
    BY <2>1 DEF HInv, HandshakeTypes
  <2>3. HandshakeTypes'
    BY <2>1 DEF HInv, HandshakeTypes, Places
  <2>4. CallsInv'
    <3>1. \A i \in 1 .. Len(q) : q[i].on \in BOOLEAN
      BY ElementOfSeq DEF Calls
    <3>2. \A i \in 1 .. Len(q) :
            q[i].applied => i = 1 /\ handshake = q[1].on /\ bridge = "commands"
      BY <3>1 DEF HInv, HandshakeTypes
    <3>3. \A i, j \in 1 .. Len(q) : i < j => q[i].by # q[j].by /\ (q[i].on => q[j].on)
      OBVIOUS
    <3>4. \A i \in 1 .. Len(q) :
            registration'[q[i].by] = IF q[i].on THEN "calling" ELSE "stopping"
      BY <2>2
    <3> QED
      BY <2>1, <3>2, <3>3, <3>4 DEF HInv, CallsInv
  <2>5. UpInv'
    BY <2>1, <2>2 DEF HInv, UpInv
  <2>6. AttachedInv'
    BY <1>2, <2>2 DEF AttachedInv, LastCounted, Counted, Attached
  <2> QED
    BY <2>3, <2>4, <2>5, <2>6 DEF HInv
<1> QED
  BY <1>1, <1>2

\* The hook's cleanup removes a registration that is up.
LEMMA TurnsOffStep ==
  ASSUME HInv, NEW l \in Builds, TurnOff(l)
  PROVE  HInv'
<1>1. bridge' = bridge /\ handshake' = handshake
  BY DEF TurnOff
<1>2. CASE registration[l] = "up"
  <2>1. Released(l, calls)
    BY <1>2 DEF TurnOff
  <2>2. \A i \in 1 .. Len(calls) :
          /\ calls[i].by \in Builds \ {l} /\ calls[i].on /\ registration[calls[i].by] = "calling"
          /\ calls[i].applied => i = 1 /\ handshake /\ bridge = "commands"
    BY <1>2, InQueue DEF HInv, CallsInv, UpInv
  <2>3. \A i, j \in 1 .. Len(calls) : i < j => calls[i].by # calls[j].by
    BY DEF HInv, CallsInv
  <2>4. Counted(l) /\ calls \in Seq(Calls)
    BY <1>2 DEF Counted, HInv, HandshakeTypes
  <2> QED
    BY <1>1, <2>1, <2>2, <2>3, <2>4, ReleasedStep
<1>3. CASE registration[l] # "up"
  BY <1>1, <1>3, Elsewhere DEF TurnOff, host
<1> QED
  BY <1>2, <1>3

\* The first call is answered: an end, a registration that is up, or an undone one.
LEMMA AnsweredStep ==
  ASSUME HInv, CallAnswered
  PROVE  HInv'
<1> DEFINE l == Head(calls).by
           q == Tail(calls)
<1>1. /\ calls # << >> /\ bridge' = bridge /\ handshake' = handshake
      /\ Head(calls).applied \/ bridge = "events"
  BY DEF CallAnswered
<1>2. l \in Builds /\ Head(calls).on \in BOOLEAN
  BY <1>1, LeavesQueue
<1>3. registration[l] = IF Head(calls).on THEN "calling" ELSE "stopping"
  BY <1>1, LeavesQueue
<1>4. q \in Seq(Calls)
  BY <1>1, WithoutHead DEF HInv
<1>5. \A i \in 1 .. Len(q) :
        /\ q[i].by \in Builds \ {l} /\ q[i].on \in BOOLEAN /\ ~q[i].applied
        /\ Head(calls).on => q[i].on
        /\ registration[q[i].by] = IF q[i].on THEN "calling" ELSE "stopping"
  BY <1>1, LeavesQueue DEF Calls
<1>6. \A i, j \in 1 .. Len(q) : i < j => q[i].by # q[j].by /\ (q[i].on => q[j].on)
  BY <1>1, LeavesQueue
<1>7. Head(calls).applied => handshake = Head(calls).on /\ bridge = "commands"
  BY <1>1, LeavesQueue
<1>8. Head(calls) = calls[1] /\ 1 \in 1 .. Len(calls)
  BY <1>1, InQueue DEF HInv
<1>9. CASE ~Head(calls).on
  <2>1. registration' = [registration EXCEPT ![l] = "gone"] /\ calls' = q
    BY <1>9 DEF CallAnswered
  <2>2. \A m \in Builds : registration'[m] = IF m = l THEN "gone" ELSE registration[m]
    BY <2>1 DEF HInv, HandshakeTypes
  <2>3. HandshakeTypes'
    BY <1>1, <1>4, <2>1 DEF HInv, HandshakeTypes, Places
  <2>4. CallsInv'
    BY <1>1, <1>5, <1>6, <2>1, <2>2 DEF HInv, CallsInv
  <2>5. UpInv'
    BY <1>8, <1>9, <2>2 DEF HInv, UpInv
  <2>6. ~handshake
    BY <1>1, <1>7, <1>9 DEF HInv, CallsInv
  <2> QED
    BY <1>1, <2>3, <2>4, <2>5, <2>6 DEF HInv, AttachedInv
<1>10. CASE Head(calls).on /\ Current(l) /\ Head(calls).applied
  <2>1. registration' = [registration EXCEPT ![l] = "up"] /\ calls' = q
    BY <1>10 DEF CallAnswered
  <2>2. \A m \in Builds : registration'[m] = IF m = l THEN "up" ELSE registration[m]
    BY <2>1 DEF HInv, HandshakeTypes
  <2>3. HandshakeTypes'
    BY <1>1, <1>4, <2>1 DEF HInv, HandshakeTypes, Places
  <2>4. CallsInv'
    BY <1>1, <1>5, <1>6, <2>1, <2>2 DEF HInv, CallsInv
  <2>5. UpInv'
    BY <1>1, <1>5, <1>7, <1>10, <2>1 DEF UpInv
  <2>6. AttachedInv'
    BY <1>2, <2>2 DEF AttachedInv, Attached
  <2> QED
    BY <2>3, <2>4, <2>5, <2>6 DEF HInv
<1>11. CASE Head(calls).on /\ ~(Current(l) /\ Head(calls).applied)
  <2>1. Released(l, q)
    BY <1>11 DEF CallAnswered
  <2>2. Counted(l)
    BY <1>3, <1>11 DEF Counted
  <2>3. \A i \in 1 .. Len(q) :
          /\ q[i].by \in Builds \ {l} /\ q[i].on /\ registration[q[i].by] = "calling"
          /\ q[i].applied => i = 1 /\ handshake /\ bridge = "commands"
    BY <1>5, <1>11
  <2>4. \A i, j \in 1 .. Len(q) : i < j => q[i].by # q[j].by
    BY <1>6
  <2> HIDE DEF l, q
  <2> QED
    BY <1>1, <1>2, <1>4, <2>1, <2>2, <2>3, <2>4, ReleasedStep
<1> QED
  BY <1>2, <1>9, <1>10, <1>11

\* Nothing is registered at the start.
LEMMA HInit == Init => HInv
<1> SUFFICES ASSUME Init PROVE HInv
  OBVIOUS
<1>1. registration = [l \in Builds |-> "none"] /\ calls = << >> /\ ~handshake
      /\ handshake \in BOOLEAN /\ Len(calls) = 0
  BY DEF Init
<1>2. calls \in Seq(Calls)
  BY <1>1, EmptySeq
<1>3. HandshakeTypes
  BY <1>1, <1>2 DEF HandshakeTypes, Places
<1> QED
  BY <1>1, <1>3 DEF HInv, CallsInv, UpInv, AttachedInv

\* A lifecycle that is not built stays without a registration.
LEMMA NewStep == HInv /\ NewInv /\ [Next]_vars => NewInv'
<1> SUFFICES ASSUME HInv, NewInv, [Next]_vars PROVE NewInv'
  OBVIOUS
<1>1. CASE \E l \in Builds : TurnOn(l)
  BY <1>1 DEF TurnOn, NewInv, HInv, HandshakeTypes
<1>2. CASE \E l \in Builds : TurnOff(l)
  <2>1. PICK l \in Builds : TurnOff(l)
    BY <1>2
  <2>2. \A m \in Builds \ {l} : registration'[m] = registration[m]
    BY <2>1 DEF TurnOff, Released, HInv, HandshakeTypes
  <2> QED
    BY <2>1, <2>2 DEF TurnOff, NewInv
<1>3. CASE \E l \in Builds : Listens(l) \/ AsksHandshake(l)
  <2>1. PICK l \in Builds : Listens(l) \/ AsksHandshake(l)
    BY <1>3
  <2>2. \A m \in Builds \ {l} : registration'[m] = registration[m]
    BY <2>1 DEF Listens, AsksHandshake, HInv, HandshakeTypes
  <2>3. started[l] # "new" /\ started' = started
    BY <2>1 DEF Listens, AsksHandshake, NewInv
  <2> QED
    BY <2>2, <2>3 DEF NewInv
<1>4. CASE CallAnswered
  <2>1. calls # << >> /\ started' = started
    BY <1>4 DEF CallAnswered
  <2>2. PICK l \in Builds : l = Head(calls).by /\ registration[l] # "none"
    BY <2>1, LeavesQueue
  <2>3. \A m \in Builds \ {l} : registration'[m] = registration[m]
    BY <1>4, <2>2 DEF CallAnswered, Released, HInv, HandshakeTypes
  <2> QED
    BY <2>1, <2>2, <2>3 DEF NewInv
<1>5. CASE Exit
  BY <1>5 DEF Exit, NewInv
<1>6. CASE UNCHANGED <<started, registration>>
  BY <1>6 DEF NewInv
<1>7. ASSUME NEW l \in Builds, Runs(l)
      PROVE  UNCHANGED <<started, registration>>
  BY <1>7 DEF Runs, PullIfDue, AsksLane, HeartbeatIfDue, Polls, PollPublishes, PollPasses,
              TakesLane, EngineBuilt, Reports, Throws, BackoffEnds, ManualAsks, Unregistered
<1>8. ASSUME NEW l \in Builds, Hears(l) \/ QuitLooks(l) \/ QuitPublishes(l) \/ QuitPasses(l)
      PROVE  UNCHANGED <<started, registration>>
  BY <1>8 DEF Hears, QuitLooks, QuitPublishes, QuitPasses, host
<1>9. HostApplies \/ BackupAsks \/ BackupEnds \/ ManualStarts \/ ManualFinishes \/ Edit
        => UNCHANGED <<started, registration>>
  BY DEF HostApplies, BackupAsks, BackupEnds, ManualStarts, ManualFinishes, Edit, Unregistered
<1>10. Quitter => Exit \/ UNCHANGED <<started, registration>>
  BY DEF Quitter, host
<1>11. UNCHANGED vars => UNCHANGED <<started, registration>>
  BY DEF vars
<1> QED
  BY <1>1, <1>2, <1>3, <1>4, <1>5, <1>6, <1>7, <1>8, <1>9, <1>10, <1>11
     DEF Next, Exits, AnswersExit, HostTimer

\* Every step keeps the invariant of the handshake.
LEMMA HNext == HInv /\ NewInv /\ [Next]_vars => HInv'
<1> SUFFICES ASSUME HInv, NewInv, [Next]_vars PROVE HInv'
  OBVIOUS
<1>1. ASSUME NEW l \in Builds, Runs(l)
      PROVE  HInv'
  <2>1. UNCHANGED host
    BY <1>1 DEF Runs, PullIfDue, HeartbeatIfDue, Polls, PollPublishes, PollPasses,
                AsksLane, TakesLane, EngineBuilt, Reports, Throws, BackoffEnds, ManualAsks,
                Unregistered, host
  <2> QED
    BY <2>1, Elsewhere
<1>2. ASSUME NEW l \in Builds, TurnOn(l)
      PROVE  HInv'
  <2>1. /\ registration' = [registration EXCEPT ![l] = "loading"]
        /\ UNCHANGED <<bridge, calls, handshake>>
        /\ registration[l] = "none"
    BY <1>2 DEF TurnOn, NextBuild, NewInv
  <2> QED
    BY <2>1, Begins
<1>3. ASSUME NEW l \in Builds, Listens(l)
      PROVE  HInv'
  <2>1. /\ registration[l] = "loading" /\ UNCHANGED <<bridge, calls, handshake>>
        /\ \/ registration' = [registration EXCEPT ![l] = "gone"]
           \/ registration' = [registration EXCEPT ![l] = "listening"]
    BY <1>3 DEF Listens
  <2> QED
    BY <2>1, Begins
<1>4. ASSUME NEW l \in Builds, Hears(l) \/ QuitLooks(l) \/ QuitPublishes(l) \/ QuitPasses(l)
      PROVE  HInv'
  BY <1>4, Elsewhere DEF Hears, QuitLooks, QuitPublishes, QuitPasses, host
<1>5. ASSUME NEW l \in Builds, AnswersExit(l)
      PROVE  HInv'
  BY <1>5, ExitEnds DEF AnswersExit
<1>6. CASE BackupAsks \/ BackupEnds \/ ManualStarts \/ ManualFinishes \/ Edit
  BY <1>6, Elsewhere DEF BackupAsks, BackupEnds, ManualStarts, ManualFinishes, Edit, Unregistered, host
<1>7. CASE Quitter
  <2>1. UNCHANGED host \/ Exit
    BY <1>7 DEF Quitter, host
  <2> QED
    BY <2>1, Elsewhere, ExitEnds
<1>8. CASE HostTimer
  BY <1>8, ExitEnds DEF HostTimer
<1>9. CASE UNCHANGED vars
  BY <1>9, Elsewhere DEF vars, host
<1> QED
  BY <1>1, <1>2, <1>3, <1>4, <1>5, <1>6, <1>7, <1>8, <1>9, AsksStep, AppliesStep,
     AnsweredStep, TurnsOffStep DEF Next, Exits

\* Whatever rebuilds, failures and overlaps there are, the host waits for an
\* answer when a registration is up, and never when no listener is attached
\* (quit-publish.ts, release and sendHandshake; desktop_shell.rs).
THEOREM HandshakeHolds == Spec => []HandshakeMatches
<1>1. HInv => HandshakeMatches
  BY DEF HInv, UpInv, AttachedInv, HandshakeMatches
<1>2. Init => NewInv
  BY DEF Init, NewInv
<1> QED
  BY <1>1, <1>2, HInit, HNext, NewStep, PTL DEF Spec

----------------------------------------------------------------------------
(* What a quit leaves behind                                               *)

\* A run, in flight or none.
Running == [kind : Kinds \cup {"none"}, at : {"none", "reading", "queued", "building", "engine"},
            upto : Nat, late : BOOLEAN]

Answers == {"no", "waiting", "woken", "asking", "running", "done", "unread"}

QuitTypes ==
  /\ edits \in Nat /\ published \in Int
  /\ run \in [Builds -> Running]
  /\ hold \in [Builds -> {"none", "backoff", "blocked", "backfill"}]
  /\ quit \in [Builds -> Answers]
  /\ owed \in [Builds -> Nat]

\* What is owed was captured; the publish a quit waits for covers it once it is
\* in the engine; a run that took a woken quit's place is late.
Owing ==
  \A l \in Builds :
    /\ owed[l] <= edits
    /\ quit[l] = "running" =>
         run[l].kind = "publish" /\ (At(l, "engine") => owed[l] <= run[l].upto)
    /\ quit[l] \in {"woken", "asking"} /\ ~Idle(l) => run[l].late

\* A lifecycle is asked once, while the host waits, and answers while it is up
\* only if it is current.
Asked ==
  /\ \A l \in Builds : quit[l] # "no" => quitting
  /\ \A l \in heard : l \in Builds /\ quit[l] = "no" /\ quitting
  /\ \A l \in Builds : registration[l] = "up" => Current(l)

QInv == QuitTypes /\ Owing /\ Asked

LeavesNothing ==
  \A l \in Builds :
    quit'[l] = "done" /\ quit[l] # "done" =>
      published' >= owed'[l] \/ Excused(l) \/ hold'[l] # "none"

\* What a quit depends on is left alone.
Aside == UNCHANGED <<edits, run, quit, owed, heard, quitting>>

\* A step that leaves runs and quits alone.
LEMMA AsideStep ==
  ASSUME QInv, Aside, hold' \in [Builds -> {"none", "backoff", "blocked", "backfill"}],
         published' \in Int,
         \A l \in Builds : registration'[l] = "up" => started'[l] = "on"
  PROVE  QInv' /\ LeavesNothing
<1>1. QuitTypes'
  BY DEF QInv, QuitTypes, Aside
<1>2. Owing'
  BY DEF QInv, Owing, Aside, Idle, At
<1>3. Asked'
  BY DEF QInv, Asked, Aside, Current
<1> QED
  BY <1>1, <1>2, <1>3 DEF QInv, LeavesNothing, Aside

\* A run starts, by a trigger or by the quit itself.
LEMMA StartStep ==
  ASSUME QInv, NEW l \in Builds, NEW kind \in Kinds, Starts(l, kind, FALSE),
         UNCHANGED <<edits, published, hold, quit, owed, heard, quitting, registration, started>>,
         Idle(l)
  PROVE  QInv' /\ LeavesNothing
<1> DEFINE new == [kind |-> kind, at |-> "reading", upto |-> 0,
                   late |-> ~FALSE /\ quit[l] \in {"woken", "asking"}]
<1>1. run' = [run EXCEPT ![l] = new]
  BY DEF Starts
<1>2. new \in Running
  BY DEF Running
<1>3. new.kind = kind /\ new.at = "reading" /\ (quit[l] \in {"woken", "asking"} => new.late)
  OBVIOUS
<1> HIDE DEF new
<1>4. \A m \in Builds : run'[m] = IF m = l THEN new ELSE run[m]
  BY <1>1 DEF QInv, QuitTypes
<1>5. QuitTypes'
  BY <1>1, <1>2 DEF QInv, QuitTypes
<1>6. quit[l] # "running"
  BY DEF QInv, Owing, Idle, NoRun, Kinds
<1>7. Owing'
  BY <1>3, <1>4, <1>6 DEF QInv, Owing, Idle, At
<1>8. Asked'
  BY DEF QInv, Asked, Current
<1> QED
  BY <1>5, <1>7, <1>8 DEF QInv, LeavesNothing

\* A run moves on: what it will cover is read when the engine is built.
LEMMA MoveStep ==
  ASSUME QInv, NEW l \in Builds, NEW next \in Running, run' = [run EXCEPT ![l] = next],
         ~Idle(l), next.kind = run[l].kind, next.late = run[l].late,
         next.at # "engine" \/ (next.kind = "publish" => next.upto = edits),
         UNCHANGED <<edits, published, hold, quit, owed, heard, quitting, registration, started>>
  PROVE  QInv' /\ LeavesNothing
<1>1. \A m \in Builds : run'[m] = IF m = l THEN next ELSE run[m]
  BY DEF QInv, QuitTypes
<1>2. QuitTypes'
  BY DEF QInv, QuitTypes
<1>3. Owing'
  BY <1>1 DEF QInv, Owing, Idle, At
<1>4. Asked'
  BY DEF QInv, Asked, Current
<1> QED
  BY <1>2, <1>3, <1>4 DEF QInv, LeavesNothing

\* A run ends: the quit that waited for it is done only if it covered what is
\* owed, left a hold, or was stopped.
LEMMA EndStep ==
  ASSUME QInv, NEW l \in Builds, RunEnds(l), hold' \in [Builds -> {"none", "backoff", "blocked", "backfill"}],
         published' \in Int,
         \/ ~Current(l) \/ hold'[l] # "none"
         \/ At(l, "engine") /\ published' = Later(published, run[l].upto),
         UNCHANGED <<edits, owed, heard, quitting, registration, started>>
  PROVE  QInv' /\ LeavesNothing
<1>1. /\ NoRun \in Running /\ run' = [run EXCEPT ![l] = NoRun]
      /\ quit' = [quit EXCEPT ![l] = IF @ = "waiting" THEN "woken"
                                     ELSE IF @ = "running" THEN "done" ELSE @]
  BY DEF RunEnds, NoRun, Running, Kinds
<1>2. /\ \A m \in Builds : run'[m] = IF m = l THEN NoRun ELSE run[m]
      /\ \A m \in Builds : quit'[m] = IF m # l THEN quit[m]
                                      ELSE IF quit[m] = "waiting" THEN "woken"
                                      ELSE IF quit[m] = "running" THEN "done" ELSE quit[m]
  BY <1>1 DEF QInv, QuitTypes
<1>3. QuitTypes'
  BY <1>1 DEF QInv, QuitTypes, Answers
<1>4. Owing'
  BY <1>2 DEF QInv, Owing, Idle, At
<1>5. Asked'
  BY <1>2 DEF QInv, Asked, Current
<1>6. LeavesNothing
  <2>1. SUFFICES ASSUME quit[l] = "running"
                 PROVE  published' >= owed'[l] \/ Excused(l) \/ hold'[l] # "none"
    BY <1>2 DEF LeavesNothing
  <2>2. CASE ~Current(l)
    BY <2>1, <2>2 DEF Excused
  <2>3. CASE At(l, "engine") /\ published' = Later(published, run[l].upto)
    <3>1. owed[l] <= run[l].upto /\ run[l].upto \in Nat /\ owed[l] \in Nat /\ published \in Int
      BY <2>1, <2>3 DEF QInv, Owing, QuitTypes, Running
    <3> QED
      BY <2>3, <3>1 DEF Later
  <2> QED
    BY <2>2, <2>3
<1> QED
  BY <1>3, <1>4, <1>5, <1>6 DEF QInv

\* The process ends: no quit is left.
LEMMA ExitStep ==
  ASSUME QInv, Exit
  PROVE  QInv' /\ LeavesNothing
<1>1. NoRun \in Running
  BY DEF NoRun, Running
<1>2. QuitTypes'
  BY <1>1 DEF Exit, work, QInv, QuitTypes, Answers
<1>3. Owing' /\ Asked'
  BY DEF Exit, work, QInv, QuitTypes, Owing, Asked, Idle, At
<1> QED
  BY <1>2, <1>3 DEF QInv, LeavesNothing, Exit

\* Nothing runs and nothing is owed at the start.
LEMMA QInit == Init => QInv
<1> SUFFICES ASSUME Init PROVE QInv
  OBVIOUS
<1>1. NoRun \in Running
  BY DEF NoRun, Running
<1>2. QuitTypes
  BY <1>1 DEF Init, QuitTypes, Answers
<1>3. Owing /\ Asked
  BY DEF Init, Owing, Asked, At
<1> QED
  BY <1>2, <1>3 DEF QInv

\* A run that builds or uses the engine is at the head of the lane.
Inside(l) == run[l].at \in {"building", "engine"}
InTurn ==
  /\ lane \in Seq(Int)
  /\ \A l \in Builds : Inside(l) => lane # << >> /\ Head(lane) = l

\* So it never meets another one in the engine.
LEMMA Apart ==
  ASSUME InTurn, NEW l \in Builds, At(l, "engine")
  PROVE  ~EngineTaken(l)
<1>1. Head(lane) = l /\ l # SyncNow
  BY BoundsAssumption DEF InTurn, Inside, At, SyncNow, Builds
<1>2. \A m \in Builds : At(m, "engine") => Head(lane) = m
  BY DEF InTurn, Inside, At
<1> QED
  BY <1>1, <1>2 DEF EngineTaken

\* Nobody joins or leaves the lane.
LEMMA TurnKept ==
  ASSUME InTurn, lane' = lane,
         \A l \in Builds : Inside(l)' => Inside(l) \/ (lane # << >> /\ Head(lane) = l)
  PROVE  InTurn'
BY DEF InTurn

\* Somebody joins the lane.
LEMMA TurnJoined ==
  ASSUME InTurn, NEW x \in Int, lane' = Append(lane, x),
         \A l \in Builds : Inside(l)' => Inside(l)
  PROVE  InTurn'
<1>1. lane \in Seq(Int)
  BY DEF InTurn
<1>2. /\ Append(lane, x) \in Seq(Int) /\ Append(lane, x) # << >>
      /\ lane # << >> => Head(Append(lane, x)) = Head(lane)
  BY <1>1
<1> QED
  BY <1>1, <1>2 DEF InTurn

\* The head leaves the lane: nobody else was inside.
LEMMA TurnLeft ==
  ASSUME InTurn, lane # << >>, LaneLeft,
         \A l \in Builds : Inside(l)' => Inside(l) /\ l # Head(lane)
  PROVE  InTurn'
<1>1. Tail(lane) \in Seq(Int)
  BY HeadTailProperties DEF InTurn
<1>2. \A l \in Builds : ~Inside(l)'
  BY DEF InTurn
<1> QED
  BY <1>1, <1>2 DEF InTurn, LaneLeft

\* The lane is empty at the start.
LEMMA TurnInit == Init => InTurn
<1>1. << >> \in Seq(Int)
  BY EmptySeq
<1> QED
  BY <1>1 DEF Init, InTurn, Inside, NoRun

\* Every step takes the lane in turn.
LEMMA TurnStep == QInv /\ InTurn /\ [Next]_vars => InTurn'
<1> SUFFICES ASSUME QInv, InTurn, [Next]_vars PROVE InTurn'
  OBVIOUS
<1>1. run \in [Builds -> Running] /\ MaxBuilds \in Int /\ Builds \subseteq Int
  BY BoundsAssumption DEF QInv, QuitTypes, Builds
<1>2. ASSUME NEW l \in Builds, NEW kind \in Kinds, NEW byQuit \in BOOLEAN, Starts(l, kind, byQuit)
      PROVE  InTurn'
  <2>1. lane' = lane /\ \A m \in Builds : Inside(m)' => Inside(m)
    BY <1>1, <1>2 DEF Starts, Inside
  <2> QED
    BY <2>1, TurnKept
<1>3. ASSUME NEW l \in Builds, RunEnds(l)
      PROVE  \A m \in Builds : Inside(m)' => Inside(m) /\ m # l
  BY <1>1, <1>3 DEF RunEnds, NoRun, Inside
<1>4. ASSUME NEW l \in Builds, RunEnds(l), LaneLeft, lane # << >>, Head(lane) = l
      PROVE  InTurn'
  BY <1>3, <1>4, TurnLeft
<1>5. ASSUME UNCHANGED <<run, lane>>
      PROVE  InTurn'
  BY <1>5, TurnKept DEF Inside
<1>6. ASSUME NEW l \in Builds, Runs(l)
      PROVE  InTurn'
  <2>1. CASE PullIfDue(l) \/ HeartbeatIfDue(l) \/ PollPublishes(l)
    BY <1>2, <2>1 DEF PullIfDue, HeartbeatIfDue, PollPublishes, Kinds
  <2>2. CASE Polls(l) \/ PollPasses(l) \/ BackoffEnds(l) \/ ManualAsks(l)
    BY <1>5, <2>2 DEF Polls, PollPasses, BackoffEnds, ManualAsks
  <2>3. CASE AsksLane(l)
    <3>1. lane' = Append(lane, l) /\ \A m \in Builds : Inside(m)' => Inside(m)
      BY <1>1, <2>3 DEF AsksLane, Advances, Inside, Running
    <3> QED
      BY <1>1, <3>1, TurnJoined
  <2>4. CASE TakesLane(l)
    <3>1. lane # << >> /\ Head(lane) = l
      BY <2>4 DEF TakesLane
    <3>2. CASE Current(l)
      <4>1. lane' = lane /\ \A m \in Builds \ {l} : Inside(m)' => Inside(m)
        BY <1>1, <2>4, <3>2 DEF TakesLane, Advances, Inside, Running
      <4> QED
        BY <3>1, <4>1, TurnKept
    <3>3. CASE ~Current(l)
      BY <1>4, <2>4, <3>1, <3>3 DEF TakesLane
    <3> QED
      BY <3>2, <3>3
  <2>5. CASE EngineBuilt(l)
    <3>1. lane # << >> /\ Head(lane) = l /\ Inside(l)
      BY <2>5 DEF EngineBuilt, At, Inside, InTurn
    <3>2. CASE Current(l)
      <4>1. lane' = lane /\ \A m \in Builds \ {l} : Inside(m)' => Inside(m)
        BY <1>1, <2>5, <3>2 DEF EngineBuilt, Inside, Running
      <4> QED
        BY <3>1, <4>1, TurnKept
    <3>3. CASE ~Current(l)
      BY <1>4, <2>5, <3>1, <3>3 DEF EngineBuilt
    <3> QED
      BY <3>2, <3>3
  <2>6. CASE Reports(l)
    <3>1. lane # << >> /\ Head(lane) = l /\ RunEnds(l) /\ LaneLeft
      BY <2>6 DEF Reports, At, Inside, InTurn
    <3> QED
      BY <1>4, <3>1
  <2>7. CASE Throws(l)
    <3>1. RunEnds(l)
      BY <2>7 DEF Throws
    <3>2. CASE At(l, "reading")
      <4>1. lane' = lane
        BY <2>7, <3>2 DEF Throws
      <4> QED
        BY <1>3, <3>1, <4>1, TurnKept
    <3>3. CASE ~At(l, "reading")
      <4>1. lane # << >> /\ Head(lane) = l /\ LaneLeft
        BY <2>7, <3>3 DEF Throws, At, Inside, InTurn
      <4> QED
        BY <1>4, <3>1, <4>1
    <3> QED
      BY <3>2, <3>3
  <2> QED
    BY <1>6, <2>1, <2>2, <2>3, <2>4, <2>5, <2>6, <2>7 DEF Runs
<1>7. ASSUME Exit
      PROVE  InTurn'
  <2>1. lane' = << >> /\ << >> \in Seq(Int)
    BY <1>7, EmptySeq DEF Exit
  <2>2. \A m \in Builds : ~Inside(m)'
    BY <1>7 DEF Exit, NoRun, Inside
  <2> QED
    BY <2>1, <2>2 DEF InTurn
<1>8. ASSUME NEW l \in Builds, Exits(l)
      PROVE  InTurn'
  <2>1. CASE QuitPublishes(l)
    BY <1>2, <1>5, <2>1 DEF QuitPublishes, Kinds
  <2>2. CASE AnswersExit(l)
    BY <1>7, <2>2 DEF AnswersExit
  <2>3. CASE TurnOn(l) \/ TurnOff(l) \/ Listens(l) \/ AsksHandshake(l) \/ Hears(l)
             \/ QuitLooks(l) \/ QuitPasses(l)
    BY <1>5, <2>3 DEF TurnOn, TurnOff, Listens, AsksHandshake, Hears, QuitLooks, QuitPasses
  <2> QED
    BY <1>8, <2>1, <2>2, <2>3 DEF Exits
<1>9. CASE BackupAsks
  <2>1. lane' = Append(lane, Backup) /\ run' = run /\ Backup \in Int
    BY <1>9 DEF BackupAsks, Backup
  <2> QED
    BY <2>1, TurnJoined DEF Inside
<1>10. CASE BackupEnds
  <2>1. lane # << >> /\ Head(lane) \notin Builds /\ LaneLeft /\ run' = run
    BY <1>10 DEF BackupEnds, Backup, Builds
  <2> QED
    BY <2>1, TurnLeft DEF Inside
<1>11. CASE ManualStarts
  <2>1. run' = run /\ (lane' = lane \/ lane' = Append(lane, SyncNow)) /\ SyncNow \in Int
    BY <1>1, <1>11 DEF ManualStarts, SyncNow
  <2> QED
    BY <1>5, <2>1, TurnJoined DEF Inside
<1>12. CASE ManualFinishes
  <2>1. lane # << >> /\ Head(lane) \notin Builds /\ LaneLeft /\ run' = run
    BY <1>1, <1>12 DEF ManualFinishes, SyncNow, Builds
  <2> QED
    BY <2>1, TurnLeft DEF Inside
<1>13. CASE HostApplies \/ CallAnswered \/ Edit
  BY <1>5, <1>13 DEF HostApplies, CallAnswered, Edit
<1>14. CASE Quitter \/ HostTimer
  BY <1>5, <1>7, <1>14 DEF Quitter, HostTimer
<1>15. CASE UNCHANGED vars
  BY <1>5, <1>15 DEF vars
<1> QED
  BY <1>6, <1>8, <1>9, <1>10, <1>11, <1>12, <1>13, <1>14, <1>15 DEF Next

\* The registrations of the actions that do not touch the runs.
LEMMA UpStep ==
  ASSUME QInv, HInv, NewInv,
         \/ \E l \in Builds : TurnOn(l) \/ TurnOff(l) \/ Listens(l) \/ AsksHandshake(l)
         \/ CallAnswered
  PROVE  \A l \in Builds : registration'[l] = "up" => started'[l] = "on"
<1> USE DEF Current
<1>1. CASE \E l \in Builds : TurnOn(l)
  BY <1>1 DEF TurnOn, HInv, HandshakeTypes, NewInv, QInv, Asked
<1>2. CASE \E l \in Builds : TurnOff(l)
  <2>1. PICK l \in Builds : TurnOff(l)
    BY <1>2
  <2>2. \A m \in Builds \ {l} : registration'[m] = registration[m] /\ started'[m] = started[m]
    BY <2>1 DEF TurnOff, Released, HInv, HandshakeTypes, NewInv
  <2>3. registration'[l] # "up"
    BY <2>1 DEF TurnOff, Released, HInv, HandshakeTypes
  <2> QED
    BY <2>2, <2>3 DEF QInv, Asked
<1>3. CASE \E l \in Builds : Listens(l) \/ AsksHandshake(l)
  BY <1>3 DEF Listens, AsksHandshake, HInv, HandshakeTypes, QInv, Asked
<1>4. CASE CallAnswered
  BY <1>4 DEF CallAnswered, Released, HInv, HandshakeTypes, QInv, Asked
<1> QED
  BY <1>1, <1>2, <1>3, <1>4

\* The steps of runs and triggers.
LEMMA QRuns ==
  ASSUME QInv, InTurn, NEW l \in Builds, Runs(l)
  PROVE  QInv' /\ LeavesNothing
<1> DEFINE Holds == {"none", "backoff", "blocked", "backfill"}
<1>1. /\ hold \in [Builds -> Holds] /\ published \in Int
      /\ \A m \in Builds : registration[m] = "up" => started[m] = "on"
  BY DEF QInv, QuitTypes, Asked, Current
<1>2. CASE PullIfDue(l) \/ HeartbeatIfDue(l)
  <2>1. /\ Idle(l) /\ \E kind \in Kinds : Starts(l, kind, FALSE)
        /\ UNCHANGED <<edits, published, hold, quit, owed, heard, quitting, registration, started>>
    BY <1>2 DEF PullIfDue, HeartbeatIfDue, MayRun, Kinds, changes, answers, Unregistered
  <2> QED
    BY <2>1, StartStep
<1>3. CASE PollPublishes(l)
  <2>1. /\ Idle(l) /\ Starts(l, "publish", FALSE) /\ "publish" \in Kinds
        /\ UNCHANGED <<edits, published, hold, quit, owed, heard, quitting, registration, started>>
    BY <1>3 DEF PollPublishes, ShouldPublish, MayRun, Kinds, work, answers, Unregistered
  <2> QED
    BY <2>1, StartStep
<1>4. CASE Polls(l) \/ PollPasses(l) \/ ManualAsks(l)
  <2>1. Aside /\ UNCHANGED <<hold, published, registration, started>>
    BY <1>4 DEF Polls, PollPasses, ManualAsks, changes, work, answers, Unregistered, Aside
  <2> QED
    BY <1>1, <2>1, AsideStep
<1>5. CASE BackoffEnds(l)
  <2>1. Aside /\ UNCHANGED <<published, registration, started>> /\ hold' = [hold EXCEPT ![l] = "none"]
    BY <1>5 DEF BackoffEnds, work, answers, Unregistered, Aside
  <2> QED
    BY <1>1, <2>1, AsideStep
<1>6. CASE TakesLane(l)
  <2>1. /\ ~Idle(l)
        /\ UNCHANGED <<edits, published, hold, owed, heard, quitting, registration, started>>
    BY <1>6 DEF TakesLane, Idle, At, NoRun, work, Unregistered
  <2>2. CASE Current(l)
    <3> DEFINE next == [run[l] EXCEPT !.at = "building"]
    <3>1. run[l] \in Running
      BY DEF QInv, QuitTypes
    <3>2. next \in Running /\ next.kind = run[l].kind /\ next.late = run[l].late /\ next.at = "building"
      BY <3>1 DEF Running
    <3>3. run' = [run EXCEPT ![l] = next] /\ quit' = quit
      BY <1>6, <2>2 DEF TakesLane, Advances
    <3> HIDE DEF next
    <3> QED
      BY <2>1, <3>2, <3>3, MoveStep
  <2>3. CASE ~Current(l)
    BY <1>1, <1>6, <2>1, <2>3, EndStep DEF TakesLane
  <2> QED
    BY <2>2, <2>3
<1>7. CASE EngineBuilt(l)
  <2>1. /\ ~Idle(l)
        /\ UNCHANGED <<edits, published, hold, owed, heard, quitting, registration, started>>
    BY <1>7 DEF EngineBuilt, Idle, At, NoRun, work, Unregistered
  <2>2. CASE Current(l)
    <3> DEFINE next == [run[l] EXCEPT !.at = "engine",
                                      !.upto = IF run[l].kind = "publish" THEN edits ELSE 0]
    <3>1. run[l] \in Running /\ edits \in Nat
      BY DEF QInv, QuitTypes
    <3>2. /\ next \in Running /\ next.kind = run[l].kind /\ next.late = run[l].late
          /\ next.kind = "publish" => next.upto = edits
      BY <3>1 DEF Running
    <3>3. run' = [run EXCEPT ![l] = next] /\ quit' = quit
      <4>1. /\ run' = [run EXCEPT ![l].at = "engine",
                                  ![l].upto = IF run[l].kind = "publish" THEN edits ELSE 0]
            /\ quit' = quit
        BY <1>7, <2>2 DEF EngineBuilt
      <4> QED
        BY <4>1 DEF QInv, QuitTypes
    <3> HIDE DEF next
    <3> QED
      BY <2>1, <3>2, <3>3, MoveStep
  <2>3. CASE ~Current(l)
    BY <1>1, <1>7, <2>1, <2>3, EndStep DEF EngineBuilt
  <2> QED
    BY <2>2, <2>3
<1>8. CASE Reports(l)
  <2>1. /\ RunEnds(l) /\ At(l, "engine")
        /\ UNCHANGED <<edits, owed, heard, quitting, registration, started>>
    BY <1>8 DEF Reports, Unregistered
  <2>2. run[l].upto \in Nat
    BY DEF QInv, QuitTypes, Running
  <2>3. hold' \in [Builds -> Holds] /\ published' \in Int
    BY <1>1, <1>8, <2>2 DEF Reports, Recorded, HeldBy, Later
  <2>4. \/ hold'[l] # "none"
        \/ published' = Later(published, run[l].upto)
    BY <1>1, <1>8 DEF Reports, Recorded, HeldBy
  <2> QED
    BY <2>1, <2>3, <2>4, EndStep
<1>9. CASE Throws(l)
  <2>1. /\ RunEnds(l)
        /\ UNCHANGED <<edits, published, owed, heard, quitting, registration, started>>
    BY <1>9 DEF Throws, Unregistered
  <2>2. At(l, "engine") => ~EngineTaken(l)
    BY Apart
  <2>3. hold' \in [Builds -> Holds] /\ (~Current(l) \/ hold'[l] # "none")
    BY <1>1, <1>9, <2>2 DEF Throws, Recorded, HeldBy
  <2> QED
    BY <1>1, <2>1, <2>3, EndStep
<1>10. CASE AsksLane(l)
  <2> DEFINE next == [run[l] EXCEPT !.at = "queued"]
  <2>1. run[l] \in Running
    BY DEF QInv, QuitTypes
  <2>2. next \in Running /\ next.kind = run[l].kind /\ next.late = run[l].late /\ next.at # "engine"
    BY <2>1 DEF Running
  <2>3. run' = [run EXCEPT ![l] = next] /\ ~Idle(l)
    BY <1>10 DEF AsksLane, Advances, Idle, At, NoRun
  <2>4. UNCHANGED <<edits, published, hold, quit, owed, heard, quitting, registration, started>>
    BY <1>10 DEF AsksLane, work, answers, Unregistered
  <2> HIDE DEF next
  <2> QED
    BY <2>2, <2>3, <2>4, MoveStep
<1> QED
  BY <1>2, <1>3, <1>4, <1>5, <1>6, <1>7, <1>8, <1>9, <1>10 DEF Runs

\* The steps of registrations and of the quit itself.
LEMMA QExits ==
  ASSUME QInv, HInv, NewInv, NEW l \in Builds, Exits(l)
  PROVE  QInv' /\ LeavesNothing
<1>1. /\ hold \in [Builds -> {"none", "backoff", "blocked", "backfill"}] /\ published \in Int
      /\ edits \in Nat /\ owed \in [Builds -> Nat] /\ run \in [Builds -> Running]
      /\ quit \in [Builds -> Answers]
  BY DEF QInv, QuitTypes
<1>2. CASE TurnOn(l) \/ TurnOff(l) \/ Listens(l) \/ AsksHandshake(l)
  <2>1. Aside /\ UNCHANGED <<hold, published>>
    BY <1>2 DEF TurnOn, TurnOff, Listens, AsksHandshake, Aside, work, answers
  <2>2. \A m \in Builds : registration'[m] = "up" => started'[m] = "on"
    BY <1>2, UpStep
  <2> QED
    BY <1>1, <2>1, <2>2, AsideStep
<1>3. CASE Hears(l)
  <2>1. /\ l \in heard /\ heard' = heard \ {l}
        /\ UNCHANGED <<edits, published, hold, run, started, registration, quitting>>
    BY <1>3 DEF Hears, work, host
  <2>2. quit[l] = "no" /\ quitting
    BY <2>1 DEF QInv, Asked
  <2>3. CASE Live(l)
    <3>1. owed' = [owed EXCEPT ![l] = edits] /\ quit' = [quit EXCEPT ![l] = QuitBegins(l)]
      BY <1>3, <2>3 DEF Hears
    <3>2. /\ QuitBegins(l) \in {"done", "woken", "waiting"}
          /\ QuitBegins(l) = "woken" => Idle(l)
          /\ QuitBegins(l) = "done" => ~Current(l) \/ hold[l] # "none"
      BY DEF QuitBegins
    <3>3. \A m \in Builds : /\ quit'[m] = IF m = l THEN QuitBegins(l) ELSE quit[m]
                            /\ owed'[m] = IF m = l THEN edits ELSE owed[m]
      BY <1>1, <3>1
    <3>4. QuitTypes'
      BY <1>1, <2>1, <3>1, <3>2 DEF QuitTypes, Answers
    <3>5. Owing'
      BY <1>1, <2>1, <3>2, <3>3 DEF QInv, Owing, Idle, At
    <3>6. Asked'
      BY <2>1, <2>2, <3>3 DEF QInv, Asked, Current
    <3>7. Excused(l) \/ hold[l] # "none" \/ QuitBegins(l) # "done"
      BY <2>3, <3>2 DEF Live, Excused, QInv, Asked
    <3>8. LeavesNothing
      BY <2>1, <3>3, <3>7 DEF LeavesNothing
    <3> QED
      BY <3>4, <3>5, <3>6, <3>8 DEF QInv
  <2>4. CASE ~Live(l)
    <3>1. UNCHANGED <<quit, owed>>
      BY <1>3, <2>4 DEF Hears
    <3> QED
      BY <2>1, <3>1 DEF QInv, QuitTypes, Owing, Asked, Idle, At, Current, LeavesNothing
  <2> QED
    BY <2>3, <2>4
<1>4. CASE QuitLooks(l)
  <2>1. /\ quit[l] = "woken"
        /\ quit' = [quit EXCEPT ![l] =
             IF Current(l) /\ hold[l] # "blocked" /\ Idle(l) THEN "asking" ELSE "done"]
        /\ UNCHANGED <<edits, published, hold, run, owed, heard, started, registration, quitting>>
    BY <1>4 DEF QuitLooks, work, host
  <2>2. \A m \in Builds : quit'[m] = IF m # l THEN quit[m] ELSE
          IF Current(l) /\ hold[l] # "blocked" /\ Idle(l) THEN "asking" ELSE "done"
    BY <1>1, <2>1
  <2>3. QuitTypes'
    BY <1>1, <2>1 DEF QuitTypes, Answers
  <2>4. Owing'
    BY <2>1, <2>2 DEF QInv, Owing, Idle, At
  <2>5. Asked'
    BY <2>1, <2>2 DEF QInv, Asked, Current
  <2>6. ~Idle(l) => run[l].late
    BY <2>1 DEF QInv, Owing
  <2>7. LeavesNothing
    BY <2>1, <2>2, <2>6 DEF LeavesNothing, Excused
  <2> QED
    BY <2>3, <2>4, <2>5, <2>7 DEF QInv
<1>5. CASE QuitPublishes(l)
  <2>1. /\ quit[l] = "asking"
        /\ UNCHANGED <<edits, published, hold, owed, heard, started, registration, quitting>>
    BY <1>5 DEF QuitPublishes, work, host
  <2>2. CASE ShouldPublish(l)
    <3> DEFINE new == [kind |-> "publish", at |-> "reading", upto |-> 0,
                       late |-> ~TRUE /\ quit[l] \in {"woken", "asking"}]
    <3>1. run' = [run EXCEPT ![l] = new] /\ quit' = [quit EXCEPT ![l] = "running"]
      BY <1>5, <2>2 DEF QuitPublishes, Starts
    <3>2. new \in Running /\ new.kind = "publish" /\ new.at = "reading"
      BY DEF Running, Kinds
    <3> HIDE DEF new
    <3>3. \A m \in Builds : /\ run'[m] = IF m = l THEN new ELSE run[m]
                            /\ quit'[m] = IF m = l THEN "running" ELSE quit[m]
      BY <1>1, <3>1
    <3>4. QuitTypes'
      BY <1>1, <2>1, <3>1, <3>2 DEF QuitTypes, Answers
    <3>5. Owing'
      BY <2>1, <3>2, <3>3 DEF QInv, Owing, Idle, At
    <3>6. Asked'
      BY <2>1, <3>3 DEF QInv, Asked, Current
    <3>7. LeavesNothing
      BY <3>3 DEF LeavesNothing
    <3> QED
      BY <3>4, <3>5, <3>6, <3>7 DEF QInv
  <2>3. CASE ~ShouldPublish(l)
    <3>1. run' = run /\ quit' = [quit EXCEPT ![l] = "done"]
      BY <1>5, <2>3 DEF QuitPublishes
    <3>2. \A m \in Builds : quit'[m] = IF m = l THEN "done" ELSE quit[m]
      BY <1>1, <3>1
    <3>3. QuitTypes'
      BY <1>1, <2>1, <3>1 DEF QuitTypes, Answers
    <3>4. Owing'
      BY <2>1, <3>1, <3>2 DEF QInv, Owing, Idle, At
    <3>5. Asked'
      BY <2>1, <3>2 DEF QInv, Asked, Current
    <3>6. (~Idle(l) => run[l].late) /\ owed[l] <= edits
      BY <2>1 DEF QInv, Owing
    <3>7. ~Pending => published >= owed[l]
      BY <1>1, <3>6 DEF Pending
    <3>8. published >= owed[l] \/ Excused(l)
      BY <2>1, <2>3, <3>6, <3>7 DEF ShouldPublish, MayRun, Excused
    <3>9. LeavesNothing
      BY <2>1, <3>2, <3>8 DEF LeavesNothing
    <3> QED
      BY <3>3, <3>4, <3>5, <3>9 DEF QInv
  <2> QED
    BY <2>2, <2>3
<1>6. CASE QuitPasses(l)
  <2>1. /\ quit[l] = "asking" /\ quit' = [quit EXCEPT ![l] = "unread"]
        /\ UNCHANGED <<edits, published, hold, run, owed, heard, started, registration, quitting>>
    BY <1>6 DEF QuitPasses, host
  <2>2. \A m \in Builds : quit'[m] = IF m = l THEN "unread" ELSE quit[m]
    BY <1>1, <2>1
  <2>3. QuitTypes'
    BY <1>1, <2>1 DEF QInv, QuitTypes, Answers
  <2>4. Owing'
    BY <2>1, <2>2 DEF QInv, Owing, Idle, At
  <2>5. Asked'
    BY <2>1, <2>2 DEF QInv, Asked, Current
  <2>6. LeavesNothing
    BY <2>2 DEF LeavesNothing
  <2> QED
    BY <2>3, <2>4, <2>5, <2>6 DEF QInv
<1>7. CASE AnswersExit(l)
  BY <1>7, ExitStep DEF AnswersExit
<1> QED
  BY <1>2, <1>3, <1>4, <1>5, <1>6, <1>7 DEF Exits

\* Every step keeps the invariant, and a quit it ends leaves nothing.
LEMMA QNext ==
  ASSUME QInv, InTurn, HInv, NewInv, Next
  PROVE  QInv' /\ LeavesNothing
<1>1. /\ hold \in [Builds -> {"none", "backoff", "blocked", "backfill"}] /\ published \in Int
      /\ \A m \in Builds : registration[m] = "up" => started[m] = "on"
  BY DEF QInv, QuitTypes, Asked, Current
<1>2. CASE HostApplies \/ BackupAsks \/ BackupEnds
  <2>1. Aside /\ UNCHANGED <<hold, published, started, registration>>
    BY <1>2 DEF HostApplies, BackupAsks, BackupEnds, Aside, work, changes, answers, Unregistered
  <2> QED
    BY <1>1, <2>1, AsideStep
<1>3. CASE CallAnswered
  <2>1. Aside /\ UNCHANGED <<hold, published>>
    BY <1>3 DEF CallAnswered, Aside, work, answers
  <2>2. \A m \in Builds : registration'[m] = "up" => started'[m] = "on"
    BY <1>3, UpStep
  <2> QED
    BY <1>1, <2>1, <2>2, AsideStep
<1>4. CASE ManualStarts
  <2>1. Aside /\ UNCHANGED <<published, started, registration>>
    BY <1>4 DEF ManualStarts, Aside, answers, Unregistered
  <2>2. hold' \in [Builds -> {"none", "backoff", "blocked", "backfill"}]
    BY <1>1, <1>4 DEF ManualStarts
  <2> QED
    BY <1>1, <2>1, <2>2, AsideStep
<1>5. CASE ManualFinishes
  <2>1. Aside /\ UNCHANGED <<started, registration>>
    BY <1>5 DEF ManualFinishes, Aside, answers, Unregistered
  <2>2. hold' \in [Builds -> {"none", "backoff", "blocked", "backfill"}]
    BY <1>1, <1>5 DEF ManualFinishes, HeldBy
  <2>3. published' \in Int
    BY <1>1, <1>5 DEF ManualFinishes, Later
  <2> QED
    BY <1>1, <2>1, <2>2, <2>3, AsideStep
<1>6. CASE Edit
  <2>1. /\ edits' = edits + 1
        /\ UNCHANGED <<published, hold, run, quit, owed, heard, started, registration, quitting>>
    BY <1>6 DEF Edit, answers, Unregistered
  <2>2. QuitTypes'
    BY <2>1 DEF QInv, QuitTypes
  <2>3. Owing'
    BY <2>1 DEF QInv, QuitTypes, Owing, Idle, At
  <2>4. Asked'
    BY <2>1 DEF QInv, Asked, Current
  <2> QED
    BY <2>1, <2>2, <2>3, <2>4 DEF QInv, LeavesNothing
<1>7. CASE Quitter /\ ~Exit
  <2>1. /\ ~quitting /\ quitting' = TRUE /\ heard' \subseteq Builds
        /\ UNCHANGED <<edits, published, hold, run, quit, owed, started, registration>>
    BY <1>7 DEF Quitter, work, host
  <2>2. \A l \in Builds : quit[l] = "no"
    BY <2>1 DEF QInv, Asked
  <2> QED
    BY <2>1, <2>2 DEF QInv, QuitTypes, Owing, Asked, Idle, At, Current, LeavesNothing
<1>8. CASE Exit
  BY <1>8, ExitStep
<1> QED
  BY <1>2, <1>3, <1>4, <1>5, <1>6, <1>7, <1>8, QRuns, QExits DEF Next, HostTimer

\* The invariant of quits is inductive, given the others.
LEMMA QStep == QInv /\ InTurn /\ HInv /\ NewInv /\ [Next]_vars => QInv'
<1> SUFFICES ASSUME QInv, InTurn, HInv, NewInv, [Next]_vars PROVE QInv'
  OBVIOUS
<1>1. CASE UNCHANGED vars
  BY <1>1 DEF vars, QInv, QuitTypes, Owing, Asked, Idle, At, Current
<1> QED
  BY <1>1, QNext

\* An answered Quitter has published what was captured when it was heard, unless
\* the excuses the code has for it hold (lifecycle.ts, quit).
THEOREM QuitHolds == Spec => QuitLeavesNothing
<1>1. QInv /\ InTurn /\ HInv /\ NewInv /\ [Next]_vars
        => [\A l \in Builds :
              quit'[l] = "done" /\ quit[l] # "done" =>
                published' >= owed'[l] \/ Excused(l) \/ hold'[l] # "none"]_quit
  BY QNext DEF LeavesNothing, vars
<1>2. Init => NewInv
  BY DEF Init, NewInv
<1> QED
  BY <1>1, <1>2, HInit, HNext, NewStep, QInit, TurnInit, QStep, TurnStep, PTL DEF Spec, QuitLeavesNothing

\* Only the engine's building puts a run in the engine, for a current lifecycle.
LEMMA EntersEngine ==
  ASSUME QInv, Next, NEW l \in Builds, At(l, "engine")', ~At(l, "engine")
  PROVE  Current(l)
<1>1. run \in [Builds -> Running]
  BY DEF QInv, QuitTypes
<1>2. run' # run
  BY DEF At
<1>3. ASSUME NEW m \in Builds, NEW kind \in Kinds, NEW byQuit \in BOOLEAN, Starts(m, kind, byQuit)
      PROVE  FALSE
  BY <1>1, <1>3 DEF Starts, At
<1>4. ASSUME NEW m \in Builds, RunEnds(m)
      PROVE  FALSE
  BY <1>1, <1>4 DEF RunEnds, NoRun, At
<1>5. ~Exit
  BY DEF Exit, NoRun, At
<1>6. ASSUME NEW m \in Builds, Runs(m)
      PROVE  Current(l)
  <2>1. CASE EngineBuilt(m)
    <3>1. Current(m)
      BY <1>4, <2>1 DEF EngineBuilt
    <3>2. m = l
      BY <1>1, <2>1, <3>1 DEF EngineBuilt, At
    <3> QED
      BY <3>1, <3>2
  <2>2. CASE TakesLane(m)
    <3>1. Advances(m, "building")
      BY <1>4, <2>2 DEF TakesLane
    <3>2. run'[l].at = IF m = l THEN "building" ELSE run[l].at
      BY <1>1, <3>1 DEF Advances, Running
    <3> QED
      BY <3>2 DEF At
  <2>3. ~AsksLane(m)
    <3>1. ASSUME AsksLane(m)
          PROVE  run'[l].at = IF m = l THEN "queued" ELSE run[l].at
      BY <1>1, <3>1 DEF AsksLane, Advances, Running
    <3> QED
      BY <3>1 DEF At
  <2>4. ~Reports(m) /\ ~Throws(m)
    BY <1>4 DEF Reports, Throws
  <2>5. ~PullIfDue(m) /\ ~HeartbeatIfDue(m) /\ ~PollPublishes(m)
    BY <1>3 DEF PullIfDue, HeartbeatIfDue, PollPublishes, Kinds
  <2>6. ~Polls(m) /\ ~PollPasses(m) /\ ~BackoffEnds(m) /\ ~ManualAsks(m)
    BY <1>2 DEF Polls, PollPasses, BackoffEnds, ManualAsks
  <2> QED
    BY <1>6, <2>1, <2>2, <2>3, <2>4, <2>5, <2>6 DEF Runs
<1>7. ASSUME NEW m \in Builds, Exits(m)
      PROVE  FALSE
  <2>1. ~QuitPublishes(m)
    BY <1>2, <1>3 DEF QuitPublishes, Kinds
  <2>2. /\ ~TurnOn(m) /\ ~TurnOff(m) /\ ~Listens(m) /\ ~AsksHandshake(m)
        /\ ~Hears(m) /\ ~QuitLooks(m) /\ ~QuitPasses(m)
    BY <1>2 DEF TurnOn, TurnOff, Listens, AsksHandshake, Hears, QuitLooks, QuitPasses
  <2> QED
    BY <1>5, <1>7, <2>1, <2>2 DEF Exits, AnswersExit
<1>8. ~HostApplies /\ ~CallAnswered /\ ~BackupAsks /\ ~BackupEnds /\ ~ManualStarts
      /\ ~ManualFinishes /\ ~Edit /\ ~Quitter /\ ~HostTimer
  BY <1>2, <1>5 DEF HostApplies, CallAnswered, BackupAsks, BackupEnds, ManualStarts,
                    ManualFinishes, Edit, Quitter, HostTimer
<1> QED
  BY <1>6, <1>7, <1>8 DEF Next

\* No run of a stopped lifecycle reaches the engine, whatever it waited for
\* (lifecycle.ts, execute).
THEOREM OffHolds == Spec => OffStaysQuiet
<1>1. QInv /\ [Next]_vars
        => [\A l \in Builds : At(l, "engine")' /\ ~At(l, "engine") => Current(l)]_run
  BY EntersEngine DEF vars
<1>2. Init => NewInv
  BY DEF Init, NewInv
<1> QED
  BY <1>1, <1>2, HInit, HNext, NewStep, QInit, TurnInit, QStep, TurnStep, PTL DEF Spec, OffStaysQuiet
=============================================================================
