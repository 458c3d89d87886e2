--------------------------- MODULE SyncLifecycle ---------------------------
(***************************************************************************)
(* The automatic triggers of multi-device sync and the tray's Quitter:     *)
(* lifecycle.ts decides when a pull or a publish runs, use-sync-automation *)
(* builds and stops lifecycles as settings change, quit-publish.ts         *)
(* registers each of them with the host's exit handshake, and              *)
(* desktop_shell.rs waits for the webview's answer.  A lifecycle is        *)
(* started and stopped once, so a run is stale when it is stopped.  Time   *)
(* appears as choice: a poll that is not due yet, a backoff that ends, the *)
(* 3 s cap, the host's 4 s timer.                                          *)
(***************************************************************************)
EXTENDS Naturals, Sequences

CONSTANTS
  MaxBuilds,  \* bound: lifecycles built in one session
  MaxEdits,   \* bound: local changes captured
  MaxFaults,  \* bound: runs that fail
  MaxTriggers \* bound: polls, pulls, heartbeats, backups and manual syncs asked for

ASSUME BoundsAssumption ==
  /\ MaxBuilds \in Nat \ {0}
  /\ MaxEdits \in Nat
  /\ MaxFaults \in Nat
  /\ MaxTriggers \in Nat

Builds == 1 .. MaxBuilds

\* The queue of the exclusive lane holds runs, a backup, the user's own sync.
Backup == 0
SyncNow == MaxBuilds + 1

VARIABLES
  edits, published,  \* changes captured, and how many of them are published
  faults, triggers,
  started,           \* per lifecycle: "new", "on" or "off"
  hold,              \* per lifecycle: what its last run keeps the triggers from
  run,               \* per lifecycle: the run in flight
  polling,           \* per lifecycle: a poll is reading pendingChanges
  quit,              \* per lifecycle: where its answer to a Quitter stands
  owed,              \* per lifecycle: changes captured when it heard Quitter
  registration,      \* per lifecycle: its place in the exit handshake
  lane,              \* the exclusive lane, its head running
  manual,            \* "Synchroniser maintenant"
  bridge,            \* what the host offers: "none", "events", "commands"
  calls,             \* handshake calls, sent one after another
  handshake,         \* the host waits for an answer
  quitting, heard,   \* a Quitter waits; the listeners its event is yet to reach
  exited

changes == <<edits, published, faults>>
work == <<edits, published, faults, triggers>>
answers == <<quit, owed, heard>>
host == <<bridge, calls, handshake, registration>>
vars == <<edits, published, faults, triggers, started, hold, run, polling, quit, owed,
          registration, lane, manual, bridge, calls, handshake, quitting,
          heard, exited>>

Kinds == {"pull", "publish"}
NoSync == [at |-> "idle", of |-> 0, upto |-> 0]
NoRun == [kind |-> "none", at |-> "none", upto |-> 0, late |-> FALSE]

TypeOK ==
  /\ edits \in 0 .. MaxEdits /\ published \in 0 .. edits
  /\ faults \in 0 .. MaxFaults /\ triggers \in 0 .. MaxTriggers
  /\ started \in [Builds -> {"new", "on", "off"}]
  /\ hold \in [Builds -> {"none", "backoff", "blocked", "backfill"}]
  /\ run \in [Builds -> {NoRun} \cup
                [kind : Kinds, at : {"reading", "queued", "building", "engine"},
                 upto : 0 .. MaxEdits, late : BOOLEAN]]
  /\ polling \in [Builds -> BOOLEAN]
  /\ quit \in [Builds -> {"no", "waiting", "woken", "asking", "running", "done", "unread"}]
  /\ owed \in [Builds -> 0 .. MaxEdits]
  /\ registration \in [Builds -> {"none", "loading", "listening", "calling",
                                  "up", "stopping", "gone"}]
  /\ lane \in Seq(0 .. MaxBuilds + 1)
  /\ manual \in [at : {"idle", "waiting", "woken", "busy"},
                 of : 0 .. MaxBuilds, upto : 0 .. MaxEdits]
  /\ bridge \in {"none", "events", "commands"}
  /\ calls \in Seq([by : Builds, on : BOOLEAN, applied : BOOLEAN])
  /\ {handshake, quitting, exited} \subseteq BOOLEAN
  /\ heard \subseteq Builds

Init ==
  /\ edits = 0 /\ published = 0 /\ faults = 0 /\ triggers = 0
  /\ started = [l \in Builds |-> "new"]
  /\ hold = [l \in Builds |-> "none"]
  /\ run = [l \in Builds |-> NoRun]
  /\ polling = [l \in Builds |-> FALSE]
  /\ quit = [l \in Builds |-> "no"]
  /\ owed = [l \in Builds |-> 0]
  /\ registration = [l \in Builds |-> "none"]
  /\ lane = << >>
  /\ manual = NoSync
  /\ bridge \in {"none", "events", "commands"}
  /\ calls = << >>
  /\ handshake = FALSE /\ quitting = FALSE /\ heard = {} /\ exited = FALSE

Idle(l) == run[l] = NoRun
Pending == published < edits
Busy == manual.at = "busy"
At(l, place) == run[l].at = place

\* Whether work begun under lifecycle l is still wanted.
Current(l) == started[l] = "on"

(***************************************************************************)
(* The exit handshake: counted registrations and the calls sent for them.  *)
(***************************************************************************)
Attached(l) == registration[l] \in {"listening", "calling", "up", "stopping"}
Live(l) == registration[l] \in {"listening", "calling", "up"}
Counted(l) == registration[l] \in {"calling", "up"}
LastCounted(l) == \A m \in Builds \ {l} : ~Counted(m)
Call(l, on) == [by |-> l, on |-> on, applied |-> FALSE]

\* A mutant: every remover tells the host to stop waiting.
ReleasedAlone(l, rest) ==
  /\ registration' = [registration EXCEPT ![l] = "stopping"]
  /\ calls' = Append(rest, Call(l, FALSE))

\* The remover of l: inert at once, and the last one tells the host first.
Released(l, rest) ==
  IF LastCounted(l)
    THEN /\ registration' = [registration EXCEPT ![l] = "stopping"]
         /\ calls' = Append(rest, Call(l, FALSE))
    ELSE /\ registration' = [registration EXCEPT ![l] = "gone"]
         /\ calls' = rest

\* The bridge is loaded and the host attaches the listener, or neither exists.
Listens(l) ==
  /\ registration[l] = "loading"
  /\ registration' = [registration EXCEPT
       ![l] = IF bridge = "none" THEN "gone" ELSE "listening"]
  /\ UNCHANGED <<work, started, hold, run, polling, answers, lane, manual,
                 bridge, calls, handshake, quitting, exited>>

AsksHandshake(l) ==
  /\ registration[l] = "listening"
  /\ registration' = [registration EXCEPT ![l] = "calling"]
  /\ calls' = Append(calls, Call(l, TRUE))
  /\ UNCHANGED <<work, started, hold, run, polling, answers, lane, manual,
                 bridge, handshake, quitting, exited>>

\* desktop_set_exit_handshake.
HostApplies ==
  /\ calls # << >> /\ bridge = "commands" /\ ~Head(calls).applied
  /\ handshake' = Head(calls).on
  /\ calls' = [calls EXCEPT ![1].applied = TRUE]
  /\ UNCHANGED <<work, started, hold, run, polling, answers, registration,
                 lane, manual, bridge, quitting, exited>>

\* A registration that is made hands its remover to the hook, which uses it at
\* once if it was cleaned up meanwhile; one whose command fails is undone.
CallAnswered ==
  /\ calls # << >>
  /\ Head(calls).applied \/ bridge = "events"
  /\ LET l == Head(calls).by
     IN IF ~Head(calls).on
          THEN /\ registration' = [registration EXCEPT ![l] = "gone"]
               /\ calls' = Tail(calls)
          ELSE IF Current(l) /\ Head(calls).applied
            THEN /\ registration' = [registration EXCEPT ![l] = "up"]
                 /\ calls' = Tail(calls)
            ELSE Released(l, Tail(calls))
  /\ UNCHANGED <<work, started, hold, run, polling, answers, lane, manual,
                 bridge, handshake, quitting, exited>>

(***************************************************************************)
(* The hook: sync is turned on, off, or its settings change.               *)
(***************************************************************************)
NextBuild(l) == started[l] = "new" /\ \A m \in 1 .. l - 1 : started[m] # "new"

TurnOn(l) ==
  /\ NextBuild(l) /\ \A m \in Builds : ~Current(m)
  /\ started' = [started EXCEPT ![l] = "on"]
  /\ registration' = [registration EXCEPT ![l] = "loading"]
  /\ UNCHANGED <<work, hold, run, polling, answers, lane, manual, bridge,
                 calls, handshake, quitting, exited>>

\* The cleanup removes a finished registration and stops the lifecycle; one
\* still in the making stays until it is made.
TurnOff(l) ==
  /\ Current(l)
  /\ started' = [started EXCEPT ![l] = "off"]
  /\ IF registration[l] = "up"
       THEN Released(l, calls)
       ELSE UNCHANGED <<registration, calls>>
  /\ UNCHANGED <<work, hold, run, polling, answers, lane, manual, bridge,
                 handshake, quitting, exited>>

(***************************************************************************)
(* Runs: one at a time per lifecycle, each in the exclusive lane.          *)
(***************************************************************************)
MayRun(l) == Current(l) /\ hold[l] # "blocked" /\ Idle(l) /\ ~Busy

\* execute: the run is in flight and reads the status.  It is late if a woken
\* Quitter was about to publish.
Starts(l, kind, byQuit) ==
  /\ run' = [run EXCEPT ![l] =
       [kind |-> kind, at |-> "reading", upto |-> 0,
        late |-> ~byQuit /\ quit[l] \in {"woken", "asking"}]]
  /\ UNCHANGED lane

\* The run of l is over: a Quitter or a manual sync that waited for it goes on.
RunEnds(l) ==
  /\ run' = [run EXCEPT ![l] = NoRun]
  /\ quit' = [quit EXCEPT ![l] = IF @ = "waiting" THEN "woken"
                                 ELSE IF @ = "running" THEN "done" ELSE @]
  /\ manual' = IF manual.at = "waiting" /\ manual.of = l
                 THEN [manual EXCEPT !.at = "woken"] ELSE manual

Advances(l, place) == run' = [run EXCEPT ![l].at = place]
LaneLeft == lane' = Tail(lane)
HeldBy(class) == CASE class = "ok" -> "none" [] class = "retry" -> "backoff"
                   [] OTHER -> class
Recorded(l, class) == hold' = [hold EXCEPT ![l] = HeldBy(class)]
Triggered == triggers < MaxTriggers /\ triggers' = triggers + 1
Fails == faults < MaxFaults /\ faults' = faults + 1
Later(a, b) == IF a > b THEN a ELSE b

Unregistered == UNCHANGED <<registration, bridge, calls, handshake, quitting, exited>>

\* Focus, a visible page or the hourly timer.
PullIfDue(l) ==
  /\ Triggered
  /\ MayRun(l) /\ hold[l] # "backoff"
  /\ Starts(l, "pull", FALSE)
  /\ UNCHANGED <<changes, started, hold, polling, answers, manual>>
  /\ Unregistered

\* The manifest heartbeat runs the publish path with nothing pending.
HeartbeatIfDue(l) ==
  /\ Triggered
  /\ MayRun(l) /\ hold[l] = "none"
  /\ Starts(l, "publish", FALSE)
  /\ UNCHANGED <<changes, started, hold, polling, answers, manual>>
  /\ Unregistered

\* The 15 s poll, blur and startup: publishIfDue looks, then reads the changes.
Polls(l) ==
  /\ Triggered
  /\ Current(l) /\ hold[l] # "blocked" /\ Idle(l) /\ ~polling[l]
  /\ polling' = [polling EXCEPT ![l] = TRUE]
  /\ UNCHANGED <<changes, started, hold, run, answers, lane, manual>>
  /\ Unregistered

ShouldPublish(l) == Pending /\ hold[l] # "backoff" /\ MayRun(l)

\* The changes are read: execute looks again and drops a trigger that is late.
PollPublishes(l) ==
  /\ polling[l] /\ ShouldPublish(l)
  /\ polling' = [polling EXCEPT ![l] = FALSE]
  /\ Starts(l, "publish", FALSE)
  /\ UNCHANGED <<work, started, hold, answers, manual>>
  /\ Unregistered

\* Nothing to publish, the first change is not two minutes old, or the read
\* failed, which counts as nothing to publish.
PollPasses(l) ==
  /\ polling[l]
  /\ polling' = [polling EXCEPT ![l] = FALSE]
  /\ UNCHANGED <<work, started, hold, run, answers, lane, manual>>
  /\ Unregistered

\* The status is read: the run waits for the lane.
AsksLane(l) ==
  /\ At(l, "reading")
  /\ Advances(l, "queued")
  /\ lane' = Append(lane, l)
  /\ UNCHANGED <<work, started, hold, polling, answers, manual>>
  /\ Unregistered

\* It has the lane: a stale run ends here.
TakesLane(l) ==
  /\ At(l, "queued") /\ lane # << >> /\ Head(lane) = l
  /\ IF Current(l)
       THEN Advances(l, "building") /\ UNCHANGED <<quit, manual, lane>>
       ELSE RunEnds(l) /\ LaneLeft
  /\ UNCHANGED <<work, started, hold, polling, owed, heard>>
  /\ Unregistered

\* A mutant: only the lane is checked.
EngineBuiltUnchecked(l) ==
  /\ At(l, "building")
  /\ run' = [run EXCEPT ![l].at = "engine",
                       ![l].upto = IF run[l].kind = "publish" THEN edits ELSE 0]
  /\ UNCHANGED <<work, started, hold, polling, answers, manual, lane>>
  /\ Unregistered

\* The engine is built, and the run looks once more whether it is stale.
EngineBuilt(l) ==
  /\ At(l, "building")
  /\ IF Current(l)
       THEN /\ run' = [run EXCEPT ![l].at = "engine", ![l].upto = IF run[l].kind = "publish" THEN edits ELSE 0]
            /\ UNCHANGED <<quit, manual, lane>>
       ELSE RunEnds(l) /\ LaneLeft
  /\ UNCHANGED <<work, started, hold, polling, owed, heard>>
  /\ Unregistered

\* A report: a publish that went well covers what was captured when it began.
Reports(l) ==
  /\ At(l, "engine")
  /\ RunEnds(l) /\ LaneLeft
  /\ \/ /\ Recorded(l, "ok")
        /\ published' = Later(published, run[l].upto)
        /\ UNCHANGED faults
     \/ /\ \E class \in {"retry", "blocked", "backfill"} : Recorded(l, class)
        /\ Fails
        /\ UNCHANGED published
  /\ UNCHANGED <<triggers, edits, started, polling, owed, heard>>
  /\ Unregistered

\* The engine refuses a run while another kind is in it (already_running).
EngineTaken(l) ==
  \/ \E m \in Builds \ {l} : At(m, "engine") /\ run[m].kind # run[l].kind
  \/ Busy /\ lane # << >> /\ Head(lane) = SyncNow

\* The read, the building or the engine throws.  Nothing is recorded of a stopped
\* lifecycle, nor when the engine was taken.
Throws(l) ==
  /\ Fails
  /\ run[l].at \in {"reading", "building", "engine"}
  /\ RunEnds(l)
  /\ IF At(l, "reading") THEN UNCHANGED lane ELSE LaneLeft
  /\ IF Current(l) /\ ~(At(l, "engine") /\ EngineTaken(l))
       THEN \E class \in {"retry", "blocked"} : Recorded(l, class)
       ELSE UNCHANGED hold
  /\ UNCHANGED <<triggers, edits, published, started, polling, owed, heard>>
  /\ Unregistered

BackoffEnds(l) ==
  /\ hold[l] = "backoff"
  /\ hold' = [hold EXCEPT ![l] = "none"]
  /\ UNCHANGED <<work, started, run, polling, answers, lane, manual>>
  /\ Unregistered

(***************************************************************************)
(* The lane's other users, and the user's own sync.                        *)
(***************************************************************************)
BackupAsks ==
  /\ Triggered
  /\ \A i \in 1 .. Len(lane) : lane[i] # Backup
  /\ lane' = Append(lane, Backup)
  /\ UNCHANGED <<changes, started, hold, run, polling, answers, manual>>
  /\ Unregistered

BackupEnds ==
  /\ lane # << >> /\ Head(lane) = Backup
  /\ LaneLeft
  /\ UNCHANGED <<work, started, hold, run, polling, answers, manual>>
  /\ Unregistered

\* It waits for the automatic run in flight, if there is one.
ManualAsks(l) ==
  /\ Triggered
  /\ manual.at = "idle" /\ Current(l)
  /\ manual' = [at |-> IF Idle(l) THEN "woken" ELSE "waiting", of |-> l, upto |-> 0]
  /\ UNCHANGED <<changes, started, hold, run, polling, answers, lane>>
  /\ Unregistered

\* It holds the controller, lifts the hold of the lifecycle there is now, and
\* waits for the lane with an engine, or no engine can be built.
ManualStarts ==
  /\ manual.at = "woken"
  /\ \E l \in Builds \cup {0} :
       /\ IF l = 0 THEN \A m \in Builds : ~Current(m) ELSE Current(l)
       /\ hold' = [m \in Builds |->
            IF m = l /\ hold[m] \in {"backoff", "blocked"} THEN "none" ELSE hold[m]]
       /\ \/ /\ manual' = [at |-> "busy", of |-> l, upto |-> edits]
             /\ lane' = Append(lane, SyncNow)
             /\ UNCHANGED faults
          \/ /\ Fails
             /\ manual' = NoSync
             /\ UNCHANGED lane
  /\ UNCHANGED <<triggers, edits, published, started, run, polling, answers>>
  /\ Unregistered

\* It covers at least what was captured when it began.
ManualFinishes ==
  /\ Busy /\ lane # << >> /\ Head(lane) = SyncNow
  /\ manual' = NoSync
  /\ LaneLeft
  /\ \/ /\ \E k \in manual.upto .. edits : published' = Later(published, k)
        /\ hold' = [m \in Builds |-> IF m = manual.of THEN "none" ELSE hold[m]]
        /\ UNCHANGED faults
     \/ /\ Fails
        /\ \E class \in {"retry", "blocked", "backfill"} :
             hold' = [m \in Builds |-> IF m = manual.of THEN HeldBy(class) ELSE hold[m]]
        /\ UNCHANGED published
  /\ UNCHANGED <<triggers, edits, started, run, polling, answers>>
  /\ Unregistered

Edit ==
  /\ edits < MaxEdits
  /\ edits' = edits + 1
  /\ UNCHANGED <<published, faults, triggers, started, hold, run, polling, answers, lane, manual>>
  /\ Unregistered

(***************************************************************************)
(* The tray's Quitter.                                                     *)
(***************************************************************************)

\* The process ends, and its memory with it.
Exit ==
  /\ exited' = TRUE
  /\ started' = [l \in Builds |-> "off"] /\ hold' = [l \in Builds |-> "none"]
  /\ run' = [l \in Builds |-> NoRun] /\ polling' = [l \in Builds |-> FALSE]
  /\ quit' = [l \in Builds |-> "no"] /\ owed' = [l \in Builds |-> 0]
  /\ registration' = [l \in Builds |-> "gone"]
  /\ lane' = << >> /\ manual' = NoSync /\ calls' = << >>
  /\ handshake' = FALSE /\ quitting' = FALSE /\ heard' = {}
  /\ UNCHANGED <<work, bridge>>

\* The host exits at once, or emits its event to the listeners there are.
Quitter ==
  IF handshake /\ ~quitting
    THEN /\ quitting' = TRUE
         /\ heard' = {l \in Builds : Attached(l)}
         /\ UNCHANGED <<work, started, hold, run, polling, quit, owed, lane,
                        manual, host, exited>>
    ELSE Exit

\* The host's 4 s are over.
HostTimer == quitting /\ Exit

\* A mutant: quit does not wait for the run in flight.
QuitBeginsAtOnce(l) ==
  IF ~Current(l) \/ hold[l] \in {"blocked", "backoff"} THEN "done" ELSE "woken"

\* quit does nothing for a lifecycle that is stopped, blocked or backing off.
QuitBegins(l) ==
  IF ~Current(l) \/ hold[l] \in {"blocked", "backoff"} THEN "done"
  ELSE IF Idle(l) THEN "woken" ELSE "waiting"

\* The event reaches a listener; only a live registration's answers.
Hears(l) ==
  /\ l \in heard
  /\ heard' = heard \ {l}
  /\ IF Live(l)
       THEN /\ owed' = [owed EXCEPT ![l] = edits]
            /\ quit' = [quit EXCEPT ![l] = QuitBegins(l)]
       ELSE UNCHANGED <<quit, owed>>
  /\ UNCHANGED <<work, started, hold, run, polling, lane, manual, host, quitting, exited>>

\* publishIfDue("quit"), after the run that was in flight.
QuitLooks(l) ==
  /\ quit[l] = "woken"
  /\ quit' = [quit EXCEPT ![l] =
       IF Current(l) /\ hold[l] # "blocked" /\ Idle(l) THEN "asking" ELSE "done"]
  /\ UNCHANGED <<work, started, hold, run, polling, owed, heard, lane, manual>>
  /\ UNCHANGED <<host, quitting, exited>>

\* The changes are read.
QuitPublishes(l) ==
  /\ quit[l] = "asking"
  /\ IF ShouldPublish(l)
       THEN /\ Starts(l, "publish", TRUE)
            /\ quit' = [quit EXCEPT ![l] = "running"]
       ELSE UNCHANGED <<run, lane>> /\ quit' = [quit EXCEPT ![l] = "done"]
  /\ UNCHANGED <<work, started, hold, polling, owed, heard, manual>>
  /\ UNCHANGED <<host, quitting, exited>>

\* The read failed, which counts as nothing to publish: the quit is over.
QuitPasses(l) ==
  /\ Fails
  /\ quit[l] = "asking"
  /\ quit' = [quit EXCEPT ![l] = "unread"]
  /\ UNCHANGED <<triggers, edits, published, started, hold, run, polling, owed, heard, lane, manual>>
  /\ UNCHANGED <<host, quitting, exited>>

\* Its quit is over, or the 3 s cap is: desktop_exit.
AnswersExit(l) == quit[l] # "no" /\ Exit

Runs(l) ==
  \/ PullIfDue(l) \/ HeartbeatIfDue(l) \/ Polls(l) \/ PollPublishes(l)
  \/ PollPasses(l) \/ AsksLane(l) \/ TakesLane(l) \/ EngineBuilt(l)
  \/ Reports(l) \/ Throws(l) \/ BackoffEnds(l) \/ ManualAsks(l)

Exits(l) ==
  \/ TurnOn(l) \/ TurnOff(l) \/ Listens(l) \/ AsksHandshake(l)
  \/ Hears(l) \/ QuitLooks(l) \/ QuitPublishes(l) \/ QuitPasses(l) \/ AnswersExit(l)

Next ==
  /\ ~exited
  /\ \/ \E l \in Builds : Runs(l) \/ Exits(l)
     \/ HostApplies \/ CallAnswered \/ BackupAsks \/ BackupEnds
     \/ ManualStarts \/ ManualFinishes
     \/ Edit \/ Quitter \/ HostTimer

Spec == Init /\ [][Next]_vars

(***************************************************************************)
(* Properties                                                              *)
(***************************************************************************)

\* The host waits for an answer whenever a registration is up, and never when
\* no listener is attached, however registrations overlap when the lifecycle is
\* rebuilt (quit-publish.ts, release and sendHandshake).
HandshakeMatches ==
  /\ (\E l \in Builds : registration[l] = "up") => handshake
  /\ handshake => \E l \in Builds : Attached(l)

\* Sync that is off stays off: no run of a stopped lifecycle reaches the engine,
\* however long it waited behind a backup or for the engine (lifecycle.ts, execute).
OffStaysQuiet ==
  [][\A l \in Builds :
       At(l, "engine")' /\ ~At(l, "engine") => Current(l)]_run

\* Why a quit may return early with changes left: the last run failed, the user's
\* own sync runs, the lifecycle was stopped under it, or another trigger took
\* its place after it woke, or it was still being registered when it was stopped.
\* Another run in the engine is no excuse: the lane keeps them apart.
Excused(l) ==
  \/ hold[l] # "none" \/ Busy
  \/ run[l].late
  \/ ~Current(l) /\ (quit[l] # "no" \/ registration[l] \in {"listening", "calling"})

\* A Quitter that is answered before the cap leaves nothing that was captured
\* when it was heard, whatever was in flight (lifecycle.ts, quit), and an inert
\* registration answers nothing (quit-publish.ts, release).  A quit that could
\* not read what is to be published ends as "unread" and promises nothing
\* (lifecycle.ts, publishIfDue).
QuitLeavesNothing ==
  [][\A l \in Builds :
       quit'[l] = "done" /\ quit[l] # "done" =>
         published' >= owed'[l] \/ Excused(l) \/ hold'[l] # "none"]_quit
=============================================================================
