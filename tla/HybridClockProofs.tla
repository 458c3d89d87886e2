------------------------- MODULE HybridClockProofs -------------------------
(***************************************************************************)
(* What the clocks of HybridClock promise, for every counter width.        *)
(***************************************************************************)
EXTENDS HybridClock, TLAPS

\* A clock, or none.
Clock == Hlc \cup {NoClock}

\* The parts of a clock are integers, and those of a missing one precede them.
LEMMA ClockParts ==
  ASSUME NEW c \in Clock
  PROVE  /\ c.physicalMs \in Int
         /\ c.counter \in Int
         /\ c.deviceId \in Int
         /\ c = NoClock <=> c.physicalMs < 0
         /\ c = NoClock => c.physicalMs = -1 /\ c.counter = 0 /\ c.deviceId = 0
BY DEF Clock, Hlc, NoClock

\* Two clocks with the same parts are the same.
LEMMA SameClock ==
  ASSUME NEW a \in Clock, NEW b \in Clock,
         a.physicalMs = b.physicalMs, a.counter = b.counter,
         a.deviceId = b.deviceId
  PROVE  a = b
<1>1. CASE a \in Hlc /\ b \in Hlc
  BY <1>1 DEF Hlc
<1>2. CASE a = NoClock \/ b = NoClock
  BY <1>2 DEF Clock, Hlc, NoClock
<1> QED
  BY <1>1, <1>2 DEF Clock

\* compareHlc is a total order.
THEOREM ClockOrder ==
  ASSUME NEW a \in Clock, NEW b \in Clock, NEW c \in Clock
  PROVE  /\ ~Before(a, a)
         /\ Before(a, b) => ~Before(b, a)
         /\ ~Before(a, b) /\ ~Before(b, a) => a = b
         /\ Before(a, b) /\ Before(b, c) => Before(a, c)
         /\ AtMost(a, b) /\ AtMost(b, c) => AtMost(a, c)
<1>1. ~Before(a, b) /\ ~Before(b, a) => a = b
  BY ClockParts, SameClock DEF Before, Earlier
<1> QED
  BY <1>1, ClockParts DEF Before, AtMost, Earlier

\* finishStep: the result fits, and is where it would be with a wider counter.
LEMMA FinishedStep ==
  ASSUME NEW p \in Nat, NEW n \in Nat
  PROVE  /\ FinishStep(p, n) \in HlcState
         /\ n <= MaxCounter => FinishStep(p, n) = [physicalMs |-> p, counter |-> n]
         /\ n > MaxCounter =>
              FinishStep(p, n) = [physicalMs |-> p + 1, counter |-> 0]
BY CounterAssumption DEF FinishStep, HlcState

\* tickHlc: the clock issued fits its text form and is later than the state,
\* even if the wall clock stood still or went backwards.
THEOREM TickIsLater ==
  ASSUME NEW state \in HlcState, NEW time \in Nat
  PROVE  /\ TickHlc(state, time) \in HlcState
         /\ Earlier(state, TickHlc(state, time))
<1>1. state.physicalMs \in Nat /\ state.counter \in Nat
      /\ state.counter <= MaxCounter
  BY CounterAssumption DEF HlcState
<1>2. CASE time > state.physicalMs
  BY <1>1, <1>2, FinishedStep, CounterAssumption DEF TickHlc, Earlier
<1>3. CASE ~(time > state.physicalMs)
  <2>1. /\ FinishStep(state.physicalMs, state.counter + 1) \in HlcState
        /\ Earlier(state, FinishStep(state.physicalMs, state.counter + 1))
    <3>1. state.counter + 1 \in Nat
      BY <1>1
    <3>2. CASE state.counter + 1 <= MaxCounter
      BY <1>1, <3>1, <3>2, FinishedStep DEF Earlier
    <3>3. CASE state.counter + 1 > MaxCounter
      BY <1>1, <3>1, <3>3, FinishedStep DEF Earlier
    <3> QED
      BY <1>1, <3>2, <3>3, CounterAssumption
  <2> QED
    BY <2>1, <1>3 DEF TickHlc
<1> QED
  BY <1>2, <1>3

\* receiveHlc: the state comes after the remote clock and after the old one.
THEOREM ReceiveIsLater ==
  ASSUME NEW state \in HlcState, NEW remote \in Hlc, NEW time \in Nat
  PROVE  /\ ReceiveHlc(state, remote, time) \in HlcState
         /\ Earlier(state, ReceiveHlc(state, remote, time))
         /\ Earlier(remote, ReceiveHlc(state, remote, time))
<1>1. /\ state.physicalMs \in Nat /\ state.counter \in 0 .. MaxCounter
      /\ remote.physicalMs \in Nat /\ remote.counter \in 0 .. MaxCounter
  BY DEF HlcState, Hlc
<1> DEFINE p == Larger(Larger(state.physicalMs, remote.physicalMs), time)
<1>2. /\ p \in Nat
      /\ p >= state.physicalMs
      /\ p >= remote.physicalMs
  BY <1>1 DEF Larger
<1> HIDE DEF p
<1> DEFINE n == CASE state.physicalMs = p /\ remote.physicalMs = p ->
                       Larger(state.counter, remote.counter) + 1
                  [] state.physicalMs = p /\ remote.physicalMs # p ->
                       state.counter + 1
                  [] state.physicalMs # p /\ remote.physicalMs = p ->
                       remote.counter + 1
                  [] OTHER -> 0
<1>3. /\ n \in Nat
      /\ state.physicalMs = p => n > state.counter
      /\ remote.physicalMs = p => n > remote.counter
  <2>1. CASE state.physicalMs = p /\ remote.physicalMs = p
    BY <2>1, <1>1, CounterAssumption DEF Larger
  <2>2. CASE state.physicalMs = p /\ remote.physicalMs # p
    BY <2>2, <1>1, CounterAssumption
  <2>3. CASE state.physicalMs # p /\ remote.physicalMs = p
    BY <2>3, <1>1, CounterAssumption
  <2>4. CASE state.physicalMs # p /\ remote.physicalMs # p
    BY <2>4
  <2> QED
    BY <2>1, <2>2, <2>3, <2>4
<1>4. ReceiveHlc(state, remote, time) = FinishStep(p, n)
  BY DEF ReceiveHlc, p
<1> HIDE DEF n
<1>5. /\ FinishStep(p, n) \in HlcState
      /\ Earlier(state, FinishStep(p, n))
      /\ Earlier(remote, FinishStep(p, n))
  <2>1. CASE n <= MaxCounter
    <3>1. FinishStep(p, n) = [physicalMs |-> p, counter |-> n]
      BY <2>1, <1>2, <1>3, FinishedStep
    <3> QED
      BY <3>1, <1>1, <1>2, <1>3, FinishedStep DEF Earlier
  <2>2. CASE n > MaxCounter
    <3>1. FinishStep(p, n) = [physicalMs |-> p + 1, counter |-> 0]
      BY <2>2, <1>2, <1>3, FinishedStep
    <3> QED
      BY <3>1, <1>1, <1>2, <1>3, FinishedStep DEF Earlier
  <2> QED
    BY <2>1, <2>2, <1>3, CounterAssumption
<1> QED
  BY <1>4, <1>5
=============================================================================
