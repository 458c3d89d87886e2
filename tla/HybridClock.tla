---------------------------- MODULE HybridClock ----------------------------
(***************************************************************************)
(* The hybrid logical clocks of lib/sync/hlc.ts: pure functions on a       *)
(* device's clock state and on the clocks it issues.  A clock is the       *)
(* record of its three parts; its text form sorts the same way, because    *)
(* both numbers have a fixed width.  A device id is a number that orders   *)
(* like the text.  The range check on physicalMs (year 33658) is left out. *)
(***************************************************************************)
EXTENDS Integers

CONSTANT MaxCounter  \* HLC_MAX_COUNTER, 0xffffff in the code

ASSUME CounterAssumption == MaxCounter \in Nat

HlcState == [physicalMs : Nat, counter : 0 .. MaxCounter]
Hlc      == [physicalMs : Nat, counter : 0 .. MaxCounter, deviceId : Nat]

InitialHlcState == [physicalMs |-> 0, counter |-> 0]

\* The null that loses to any clock.
NoClock == [physicalMs |-> -1, counter |-> 0, deviceId |-> 0]

EncodeHlc(state, device) ==
  [physicalMs |-> state.physicalMs,
   counter    |-> state.counter,
   deviceId   |-> device]

\* Order of two states, or of two clocks whatever their devices.
Earlier(a, b) ==
  \/ a.physicalMs < b.physicalMs
  \/ a.physicalMs = b.physicalMs /\ a.counter < b.counter

\* compareHlc(a, b) < 0
Before(a, b) ==
  \/ Earlier(a, b)
  \/ ~Earlier(b, a) /\ a.deviceId < b.deviceId

AtMost(a, b) == ~Before(b, a)

Larger(m, n) == IF m < n THEN n ELSE m

\* Bug: the counter runs past its width.
UnboundedStep(physicalMs, counter) ==
  [physicalMs |-> physicalMs, counter |-> counter]

FinishStep(physicalMs, counter) ==
  IF counter > MaxCounter
  THEN [physicalMs |-> physicalMs + 1, counter |-> 0]
  ELSE [physicalMs |-> physicalMs, counter |-> counter]

\* Bug: the counter is only kept for received clocks.
WallClockTick(state, now) ==
  FinishStep(Larger(state.physicalMs, now), 0)

TickHlc(state, now) ==
  IF now > state.physicalMs
  THEN FinishStep(now, 0)
  ELSE FinishStep(state.physicalMs, state.counter + 1)

ReceiveHlc(state, remote, now) ==
  LET physicalMs == Larger(Larger(state.physicalMs, remote.physicalMs), now)
      mine       == state.physicalMs = physicalMs
      theirs     == remote.physicalMs = physicalMs
  IN  FinishStep(physicalMs,
        CASE mine /\ theirs  -> Larger(state.counter, remote.counter) + 1
          [] mine /\ ~theirs -> state.counter + 1
          [] ~mine /\ theirs -> remote.counter + 1
          [] OTHER           -> 0)
=============================================================================
