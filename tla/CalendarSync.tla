---------------------------- MODULE CalendarSync ----------------------------
(***************************************************************************)
(* One-way mirroring of dated tasks into a Google calendar:                *)
(* src/lib/calendar/ (planner.ts, reconciler.ts, google-calendar-api.ts,   *)
(* connect.ts, mutations.ts) with the promotion capture of                 *)
(* src/lib/gtd/scheduled.ts and the link table of the repository.          *)
(*                                                                         *)
(* An occurrence is a task and a local day.  A run reads the settings and  *)
(* the links, then the tasks, plans, and executes one action after the     *)
(* other: a remote call, then the write of the link, each under the check  *)
(* that the connection is still the one it read.  Between any two steps    *)
(* the user edits, promotes, connects, disconnects or clears a calendar,   *)
(* the day ends, an answer is lost, or the process ends.                   *)
(***************************************************************************)
EXTENDS Naturals, Functions, FiniteSetsExt

CONSTANTS
    Tasks,
    Texts,        \* bodies an event may have, but for its task and day
    MaxActions,   \* CALENDAR_SYNC_MAX_ACTIONS_PER_RUN
    DeleteLimit,  \* deletes that never ask for a confirmation
    StaleDays,    \* CALENDAR_SYNC_PENDING_STALENESS_DAYS
    Dates,        \* bound: the days the user gives tasks
    LastDay,      \* bound: days that pass
    MaxEdits,     \* bound: actions of the user
    MaxFaults     \* bound: lost or refused calls, failed writes, crashes

Days == 1 .. LastDay
NoDay == 0
Occurrences == Tasks \X Dates
NoEvent == 0

ASSUME BoundsAssumption ==
    /\ MaxActions \in Nat \ {0} /\ DeleteLimit \in Nat /\ StaleDays \in Nat
    /\ LastDay \in Nat \ {0} /\ Dates \subseteq Nat \ {0} /\ MaxEdits \in Nat /\ MaxFaults \in Nat

VARIABLES
    \* ---- the database
    settings,  \* enabled, connection state, calendar, deletes to confirm
    tasks,     \* row present, day it is eligible on, body
    links,     \* calendar_sync_links, by occurrence
    recurring, \* the tasks that recurrence generates; never changes
    \* ---- Google
    calendars, \* the calendars that exist
    events,    \* the events in them
    made,      \* calendars made so far
    \* ---- the process
    run,       \* the reconcile in flight
    cooldown,  \* rateLimitCooldownUntil is ahead
    today,
    \* ---- observers
    unseen,    \* occurrences whose event changed without their link learning it
    takenBack, \* occurrences the user gave up: left, moved, or removed in Google
    overwritten, \* captured occurrences whose link a run wrote over
    edits, faults

google == <<calendars, events, made>>
db == <<settings, tasks, links, recurring>>
vars == <<db, google, run, cooldown, today, unseen, takenBack, overwritten, edits, faults>>

NoLinks == [o \in {} |-> 0]
NoRun == [phase |-> "idle"]
NoAct == [do |-> "none"]

\* A connected calendar that mirrors nothing yet.
Init ==
    /\ settings = [on |-> TRUE, state |-> "active", cal |-> 1, asked |-> 0]
    /\ tasks = [t \in Tasks |-> [row |-> TRUE, day |-> NoDay, text |-> CHOOSE x \in Texts : TRUE]]
    /\ recurring \in SUBSET Tasks
    /\ links = NoLinks /\ calendars = {1} /\ events = {} /\ made = 1
    /\ run = NoRun /\ cooldown = FALSE /\ today = 1
    /\ unseen = {} /\ takenBack = {} /\ overwritten = {} /\ edits = 0 /\ faults = 0

(***************************************************************************)
(* The plan                                                                *)
(***************************************************************************)
Detached(l) == l.state \in {"promoted", "final"}

Act(do, o, text, l, to) ==
    [do |-> do, key |-> o, text |-> text, event |-> l.event,
     waiting |-> l.backoff = "waiting", to |-> to]
NewLink(text) ==
    [state |-> "pending", event |-> NoEvent, text |-> text, backoff |-> "none"]

\* A captured occurrence: its event is made or changed from the snapshot.
Materialized(o, l, day) ==
    IF day > o[2] + StaleDays
    THEN Act(IF l.event = NoEvent THEN "purge" ELSE "detach", o, l.text, l, "promoted")
    ELSE IF l.event = NoEvent THEN Act("create", o, l.text, l, "promoted")
                              ELSE Act("update", o, l.text, l, "synced")

\* Pass 1: what becomes of a link whose task is not eligible on its day.
LeftBehind(o, l, T, day) ==
    LET moved == T[o[1]].day # NoDay
        again == o[1] \in recurring
        delete == Act("delete", o, l.text, l, "none")
    IN  CASE l.state = "final" -> {}
          [] l.state = "promoted" -> IF moved /\ ~again THEN {delete} ELSE {}
          [] l.state = "pending" ->
               IF moved /\ ~again
               THEN {IF l.event = NoEvent THEN Act("purge", o, l.text, l, "none") ELSE delete}
               ELSE {Materialized(o, l, day)}
          [] OTHER ->
               IF moved /\ again /\ o[2] <= day THEN {Act("detach", o, l.text, l, "promoted")}
               ELSE IF moved \/ o[2] > day THEN {delete}
               ELSE {Act("detach", o, l.text, l, "final")}

\* A mutant: a failed create is not planned again.
WantedOnce(o, L, text) ==
    IF o \notin DOMAIN L THEN {Act("create", o, text, NewLink(text), "synced")}
    ELSE IF L[o].state = "final" \/ L[o].event = NoEvent \/ L[o].text = text THEN {}
    ELSE {Act("update", o, text, L[o], "synced")}
\* Pass 2: what an eligible occurrence needs.
Wanted(o, L, text) ==
    IF o \notin DOMAIN L THEN {Act("create", o, text, NewLink(text), "synced")}
    ELSE LET l == L[o]
         IN  IF l.state = "final" THEN {}
             ELSE IF l.event = NoEvent THEN {Act("create", o, text, l, "synced")}
             ELSE IF l.state = "pending" \/ l.text # text
                  THEN {Act("update", o, text, l, "synced")} ELSE {}

Plan(L, T, day) ==
    UNION ({LeftBehind(o, L[o], T, day) : o \in {x \in DOMAIN L : T[x[1]].day # x[2]}}
             \cup {Wanted(<<t, T[t].day>>, L, T[t].text) : t \in {x \in Tasks : T[x].day # NoDay}})

OfKind(plan, dos) == {a \in plan : a.do \in dos}
MassDelete(plan, L) ==
    LET n == Cardinality(OfKind(plan, {"delete"}))
        active == Cardinality({o \in DOMAIN L : ~Detached(L[o])})
    IN  n > DeleteLimit /\ 4 * n > active

\* Creates come first, then updates, deletes, detaches and purges.
FirstOf(plan) ==
    LET kinds == <<"create", "update", "delete", "detach", "purge">>
        left == {i \in 1 .. 5 : OfKind(plan, {kinds[i]}) # {}}
    IN  IF left = {} THEN {} ELSE OfKind(plan, {kinds[Min(left)]})

(***************************************************************************)
(* The user, the day, and Google's own interface                           *)
(***************************************************************************)
Edits == edits < MaxEdits /\ edits' = edits + 1
Local == UNCHANGED <<google, run, cooldown, faults, overwritten>>
TakenBack(os) == takenBack' = takenBack \cup os
\* The occurrence a task has now, if it has one.
Present(t) == {<<t, d>> : d \in {tasks[t].day} \ {NoDay}}

Schedule(t, d) ==
    /\ Edits /\ Local /\ d >= today /\ tasks[t].row /\ tasks[t].day # d
    /\ tasks' = [tasks EXCEPT ![t].day = d]
    /\ TakenBack(Present(t))
    /\ UNCHANGED <<settings, links, recurring, today, unseen>>
Rewrite(t, x) ==
    /\ Edits /\ Local /\ tasks[t].day # NoDay /\ tasks[t].text # x
    /\ tasks' = [tasks EXCEPT ![t].text = x]
    /\ UNCHANGED <<settings, links, recurring, today, unseen, takenBack>>
\* Completed, cancelled, moved out of its bucket, or its row deleted.
Leave(t, row) ==
    /\ Edits /\ Local /\ tasks[t].row /\ (tasks[t].day # NoDay \/ ~row)
    /\ tasks' = [tasks EXCEPT ![t].day = NoDay, ![t].row = row]
    /\ TakenBack(Present(t))
    /\ UNCHANGED <<settings, links, recurring, today, unseen>>

Saved(o, l) == [x \in DOMAIN links \cup {o} |-> IF x = o THEN l ELSE links[x]]
\* updatedAt is now: a link that has failures waits again.
Touched(l) == [l EXCEPT !.backoff = IF @ = "none" THEN "none" ELSE "waiting"]

CaptureActive == settings.on /\ settings.state \in {"active", "needs_confirmation"}
Captured(o, text) ==
    LET l == IF o \in DOMAIN links THEN links[o] ELSE NewLink(text)
    IN  IF l.state = "final" \/ (l.state = "promoted" /\ l.event # NoEvent /\ l.text = text)
        THEN l
        ELSE IF l.state = "synced" /\ l.text = text
        THEN Touched([l EXCEPT !.state = "promoted"])
        ELSE Touched([l EXCEPT !.state = "pending", !.text = text])

\* A due Scheduled task becomes a Next Action and loses its date; nothing makes
\* this happen, so a Planned task, which keeps its date, is covered too.
Promote(t) ==
    LET o == <<t, tasks[t].day>>
    IN  /\ tasks[t].day \in 1 .. today
        /\ tasks' = [tasks EXCEPT ![t].day = NoDay]
        /\ IF CaptureActive
             THEN links' = Saved(o, Captured(o, tasks[t].text)) /\ TakenBack({})
             ELSE links' = links /\ TakenBack({o})
        /\ Local /\ UNCHANGED <<settings, recurring, today, unseen, edits>>

DayEnds ==
    /\ today < LastDay /\ today' = today + 1
    /\ Local /\ UNCHANGED <<db, unseen, takenBack, edits>>
TimePasses ==
    /\ cooldown' = FALSE
    /\ links' = [o \in DOMAIN links |->
                    [links[o] EXCEPT !.backoff = IF @ = "waiting" THEN "over" ELSE @]]
    /\ UNCHANGED <<settings, tasks, recurring, google, run, today, unseen, takenBack, overwritten,
                  edits, faults>>

\* saveSettings bumps the generation and clears every link with a new calendar.
NewIdentity(c) ==
    /\ settings' = [on |-> TRUE, state |-> "active", cal |-> c, asked |-> 0]
    /\ links' = NoLinks /\ unseen' = {} /\ takenBack' = {} /\ overwritten' = {}
ConnectSameAccount ==
    /\ Edits /\ settings' = [settings EXCEPT !.on = TRUE, !.state = "active", !.asked = 0]
    /\ settings' # settings
    /\ Local /\ UNCHANGED <<tasks, links, recurring, today, unseen, takenBack>>
ConnectOtherAccount ==
    /\ Edits /\ made' = made + 1 /\ calendars' = calendars \cup {made'}
    /\ NewIdentity(made')
    /\ UNCHANGED <<tasks, recurring, events, run, cooldown, today, faults>>
Disconnect ==
    /\ Edits /\ settings.state # "disconnected"
    /\ settings' = [settings EXCEPT !.on = FALSE, !.state = "disconnected", !.asked = 0]
    /\ Local /\ UNCHANGED <<tasks, links, recurring, today, unseen, takenBack>>
Toggle ==
    /\ Edits /\ settings' = [settings EXCEPT !.on = ~@]
    /\ Local /\ UNCHANGED <<tasks, links, recurring, today, unseen, takenBack>>

\* The user clears an event or the calendar in Google.  Nothing is read from
\* Google between an answer and the write of its link, so that is no moment.
UserRemoves(es, cs) ==
    /\ Edits /\ run.phase # "writing"
    /\ events' = events \ es /\ calendars' = calendars \ cs
    /\ LET keys == {e.key : e \in {x \in es : x.cal = settings.cal}}
       IN  unseen' = unseen \cup keys /\ TakenBack(keys)
    /\ UNCHANGED <<db, made, run, cooldown, today, overwritten, faults>>

(***************************************************************************)
(* A run                                                                   *)
(***************************************************************************)
Fails == faults < MaxFaults /\ faults' = faults + 1
\* What a step of a run leaves alone unless it says otherwise.
Calm == UNCHANGED <<tasks, recurring, today, takenBack, edits>>
Quiet == Calm /\ UNCHANGED <<settings, links, google, cooldown, unseen, overwritten>>

MayRun(trigger) ==
    /\ settings.on
    /\ CASE trigger = "automatic" -> ~cooldown /\ settings.state = "active"
         [] trigger = "syncNow" -> settings.state \in {"active", "needs_confirmation"}
         [] trigger = "confirmMassDelete" -> settings.state = "needs_confirmation"

\* The settings and the links are read before the tasks.
Reads(trigger, confirmed, recovered) ==
    run' = [phase |-> "reading", trigger |-> trigger, confirmed |-> confirmed,
            recovered |-> recovered, cal |-> settings.cal, state |-> settings.state,
            links |-> links, plan |-> {}, used |-> 0, act |-> NoAct, hit |-> NoEvent,
            sure |-> FALSE]

\* Single flight: a call made during a run joins it.
Reconcile(trigger) ==
    /\ run = NoRun /\ MayRun(trigger)
    /\ Reads(trigger, IF trigger = "confirmMassDelete" THEN settings.asked ELSE 0, FALSE)
    /\ Quiet /\ UNCHANGED faults

\* A mutant: connected, whichever calendar it is.
StillConnected == settings.on /\ settings.state # "disconnected"
SameConnection ==
    /\ settings.on /\ settings.state # "disconnected"
    /\ settings.cal = run.cal /\ settings.state = run.state
Unguarded == run.phase \in {"idle", "reading", "inserting", "again"}
\* A step under withCurrentConnection for another connection ends the run.
Stops == ~Unguarded /\ ~SameConnection /\ run' = NoRun /\ Quiet /\ UNCHANGED faults
Guarded(phase) == run.phase = phase /\ SameConnection

ReadsTasks ==
    LET plan == Plan(run.links, tasks, today)
        emptied == run.links # NoLinks /\ \A t \in Tasks : ~tasks[t].row
        n == Cardinality(OfKind(plan, {"delete"}))
        asks == MassDelete(plan, run.links) /\ n > run.confirmed
    IN  /\ run.phase = "reading"
        /\ run' = IF emptied THEN [run EXCEPT !.phase = "asking", !.links = NoLinks]
                  ELSE IF asks THEN [run EXCEPT !.phase = "asking", !.used = n, !.links = NoLinks]
                  ELSE [run EXCEPT !.phase = "working", !.plan = plan, !.links = NoLinks]
        /\ Quiet /\ UNCHANGED faults
\* Nothing is executed: the deletes wait for the user, or there is no task.
Asks ==
    /\ Guarded("asking") /\ run' = NoRun
    /\ settings' = [settings EXCEPT !.asked = run.used,
                       !.state = IF run.used = 0 THEN @ ELSE "needs_confirmation"]
    /\ Calm /\ UNCHANGED <<links, google, cooldown, unseen, overwritten, faults>>

\* ---- one action of the plan
Exhausted == run.used >= MaxActions
Chosen(a, do) == Guarded("working") /\ a \in FirstOf(run.plan) /\ a.do = do
Remote(a, do) ==
    /\ Chosen(a, do) /\ ~Exhausted /\ ~a.waiting /\ (do = "create" \/ a.event # NoEvent)
After(a, phase) ==
    [run EXCEPT !.plan = @ \ {a}, !.act = a, !.used = @ + 1, !.phase = phase]

\* The budget is spent: creates, updates and deletes are left to a later run.
LeavesTheRest ==
    /\ Guarded("working") /\ Exhausted
    /\ OfKind(run.plan, {"create", "update", "delete"}) # {}
    /\ run' = [run EXCEPT !.plan = OfKind(@, {"detach", "purge"})]
    /\ Quiet /\ UNCHANGED faults
SkipsForBackoff(a) ==
    /\ Guarded("working") /\ a \in FirstOf(run.plan) /\ a.waiting /\ ~Exhausted
    /\ a.do \in {"create", "update"} \/ (a.do = "delete" /\ a.event # NoEvent)
    /\ run' = [run EXCEPT !.plan = @ \ {a}]
    /\ Quiet /\ UNCHANGED faults

\* A call that was refused, or whose answer was lost.
Refused(r) ==
    /\ Fails
    /\ \/ run' = [r EXCEPT !.phase = "failing"]
       \/ run' = [r EXCEPT !.phase = "limited", !.plan = {}]
       \/ run' = [r EXCEPT !.phase = "unauthorized", !.plan = {}]
NotFound(r, phase) ==
    run' = IF r.recovered THEN [r EXCEPT !.phase = "failing"]
                          ELSE [r EXCEPT !.phase = phase]
CalendarThere == run.cal \in calendars
\* A mutant: looks for an event like the one it would insert.
AtAlike(o) == {e \in events : e.cal = run.cal /\ e.key = o /\ e.text = tasks[o[1]].text}
At(o) == {e \in events : e.cal = run.cal /\ e.key = o}

\* createOrAdoptEvent: the lookup adopts the lowest id and deletes the rest.
Looks(a) ==
    /\ Remote(a, "create")
    /\ LET hits == At(a.key)
           lowest == Min({e.id : e \in hits})
           r == After(a, "inserting")
       IN  \/ ~CalendarThere /\ NotFound(r, "recovering") /\ UNCHANGED <<google, faults>>
           \/ CalendarThere /\ hits = {} /\ run' = r /\ UNCHANGED <<google, faults>>
           \/ /\ hits # {} /\ run' = [r EXCEPT !.phase = "writing", !.hit = lowest, !.sure = FALSE]
              /\ events' = events \ {e \in hits : e.id # lowest}
              /\ UNCHANGED <<calendars, made, faults>>
           \/ Refused(r) /\ UNCHANGED google
    /\ Calm /\ UNCHANGED <<settings, links, cooldown, unseen, overwritten>>

Unsettled(o) == IF run.cal = settings.cal THEN unseen \cup {o} ELSE unseen
Changes(es) == events' = es /\ unseen' = Unsettled(run'.act.key) /\ UNCHANGED <<calendars, made>>
Changeless == UNCHANGED <<google, unseen>>

Linked == {links[o].event : o \in DOMAIN links}
UnusedId ==
    CHOOSE i \in 1 .. Cardinality(events) + Cardinality(DOMAIN links) + 1 :
        i \notin {e.id : e \in events} \cup Linked
Inserts ==
    LET e == [id |-> UnusedId, cal |-> run.cal, key |-> run.act.key, text |-> run.act.text]
    IN  /\ run.phase = "inserting"
        /\ \/ /\ CalendarThere
              /\ run' = [run EXCEPT !.phase = "writing", !.hit = e.id, !.sure = TRUE]
              /\ Changes(events \cup {e}) /\ UNCHANGED faults
           \/ CalendarThere /\ Fails /\ run' = [run EXCEPT !.phase = "failing"]
              /\ Changes(events \cup {e})
           \/ ~CalendarThere /\ NotFound(run, "recovering_late") /\ Changeless /\ UNCHANGED faults
           \/ Refused(run) /\ Changeless
        /\ Calm /\ UNCHANGED <<settings, links, cooldown, overwritten>>

Patches(a) ==
    /\ Remote(a, "update")
    /\ LET es == {e \in events : e.cal = run.cal /\ e.id = a.event}
           r == [After(a, "writing") EXCEPT !.hit = a.event, !.sure = TRUE]
           patched == (events \ es) \cup {[e EXCEPT !.text = a.text] : e \in es}
       IN  \/ es # {} /\ run' = r /\ Changes(patched) /\ UNCHANGED faults
           \/ es # {} /\ Fails /\ run' = [r EXCEPT !.phase = "failing"] /\ Changes(patched)
           \/ es = {} /\ run' = [r EXCEPT !.phase = "missing"] /\ Changeless /\ UNCHANGED faults
           \/ Refused(r) /\ Changeless
    /\ Calm /\ UNCHANGED <<settings, links, cooldown, overwritten>>

Deletes(a) ==
    /\ Remote(a, "delete")
    /\ LET left == {e \in events : e.cal # run.cal \/ e.id # a.event}
           r == [After(a, "writing") EXCEPT !.sure = TRUE]
       IN  \/ run' = r /\ Changes(left) /\ UNCHANGED faults
           \/ Fails /\ run' = [r EXCEPT !.phase = "failing"] /\ Changes(left)
           \/ Refused(r) /\ Changeless
    /\ Calm /\ UNCHANGED <<settings, links, cooldown, overwritten>>

\* ---- the link of the action
SavedLink(state, backoff, event) ==
    Saved(run.act.key,
          [state |-> state, event |-> event, text |-> run.act.text, backoff |-> backoff])
\* A captured occurrence loses its capture, unless it is dated again and live.
Overwrites ==
    LET kept == {"pending", "promoted"}
        lost(o) == /\ links[o].state \in kept /\ links'[o].state \notin kept
                   /\ links'[o].state = "final" \/ tasks[o[1]].day # o[2]
    IN  overwritten' = overwritten \cup {o \in DOMAIN links \cap DOMAIN links' : lost(o)}
Without(f, o) == Restrict(f, DOMAIN f \ {o})
Writes ==
    /\ Guarded("writing")
    /\ \/ /\ run' = [run EXCEPT !.phase = "working", !.act = NoAct, !.hit = NoEvent]
          /\ links' = IF run.act.do = "delete" THEN Without(links, run.act.key)
                      ELSE SavedLink(run.act.to, "none", run.hit)
          /\ unseen' = IF run.sure THEN unseen \ {run.act.key} ELSE unseen
          /\ UNCHANGED faults
       \/ Fails /\ run' = [run EXCEPT !.phase = "failing"] /\ UNCHANGED <<links, unseen>>
    /\ Overwrites /\ Calm /\ UNCHANGED <<settings, google, cooldown>>
\* A failure that cannot be recorded either is passed over.
RecordsFailure ==
    /\ Guarded("failing")
    /\ run' = [run EXCEPT !.phase = "working", !.act = NoAct, !.hit = NoEvent]
    /\ \/ links' = SavedLink("failed", "waiting", run.act.event) /\ UNCHANGED faults
       \/ Fails /\ UNCHANGED links
    /\ Overwrites /\ Calm /\ UNCHANGED <<settings, google, cooldown, unseen>>

Detach(o, state) ==
    IF o \in DOMAIN links THEN [links EXCEPT ![o] = [Touched(@) EXCEPT !.state = state]] ELSE links
MissingRemote ==
    /\ Guarded("missing") /\ links' = Detach(run.act.key, "final")
    /\ run' = [run EXCEPT !.phase = "working", !.act = NoAct, !.hit = NoEvent]
    /\ Overwrites /\ Calm /\ UNCHANGED <<settings, google, cooldown, unseen, faults>>
\* Actions that ask nothing of Google.
ActsLocally(a) ==
    /\ \/ Chosen(a, "detach") /\ links' = Detach(a.key, a.to)
       \/ Chosen(a, "purge") /\ links' = Without(links, a.key)
       \/ Chosen(a, "delete") /\ ~Exhausted /\ a.event = NoEvent
          /\ links' = Without(links, a.key)
    /\ run' = [run EXCEPT !.plan = @ \ {a}]
    /\ Overwrites /\ Calm /\ UNCHANGED <<settings, google, cooldown, unseen, faults>>

\* ---- the calendar itself is gone: a new one, then the run once more
MakesCalendar ==
    /\ \/ /\ Guarded("recovering") \/ Guarded("recovering_late")
          /\ made' = made + 1 /\ calendars' = calendars \cup {made'}
          /\ run' = [run EXCEPT !.phase = "adopting", !.hit = made'] /\ UNCHANGED faults
       \/ Guarded("recovering") /\ Refused(run) /\ UNCHANGED <<made, calendars>>
       \/ /\ Guarded("recovering_late") /\ Fails /\ run' = NoRun /\ UNCHANGED <<made, calendars>>
    /\ Calm /\ UNCHANGED <<settings, links, events, cooldown, unseen, overwritten>>
AdoptsCalendar ==
    /\ Guarded("adopting")
    /\ settings' = [settings EXCEPT !.cal = run.hit, !.asked = 0]
    /\ links' = NoLinks /\ unseen' = {} /\ takenBack' = {} /\ overwritten' = {}
    /\ run' = [run EXCEPT !.phase = "again", !.hit = NoEvent, !.act = NoAct, !.plan = {}]
    /\ UNCHANGED <<tasks, recurring, today, edits, google, cooldown, faults>>
StartsAgain ==
    /\ run.phase = "again"
    /\ IF MayRun(run.trigger) THEN Reads(run.trigger, run.confirmed, TRUE) ELSE run' = NoRun
    /\ Quiet /\ UNCHANGED faults

Finishes ==
    /\ \/ Guarded("working") /\ run.plan = {}
       \/ Guarded("limited") \/ Guarded("unauthorized")
    /\ settings' = [settings EXCEPT !.asked = 0,
          !.state = IF run.phase = "unauthorized" THEN "reconnect_required" ELSE "active"]
    /\ cooldown' = (cooldown \/ run.phase = "limited")
    /\ run' = NoRun /\ Calm /\ UNCHANGED <<links, google, unseen, overwritten, faults>>

\* The process ends; the next one has neither a run nor a cooldown.
Crash ==
    /\ Fails /\ (run # NoRun \/ cooldown)
    /\ run' = NoRun /\ cooldown' = FALSE
    /\ Calm /\ UNCHANGED <<settings, links, google, unseen, overwritten>>

RunStep ==
    \/ ReadsTasks \/ Asks \/ LeavesTheRest \/ Inserts \/ Writes \/ RecordsFailure
    \/ MissingRemote \/ MakesCalendar \/ AdoptsCalendar \/ StartsAgain \/ Finishes \/ Stops
    \/ \E a \in (IF run.phase = "working" THEN FirstOf(run.plan) ELSE {}) :
          SkipsForBackoff(a) \/ Looks(a) \/ Patches(a) \/ Deletes(a) \/ ActsLocally(a)
UserStep ==
    \/ \E t \in Tasks :
          \/ \E d \in Dates : Schedule(t, d)
          \/ \E x \in Texts : Rewrite(t, x)
          \/ \E row \in BOOLEAN : Leave(t, row)
          \/ Promote(t)
    \/ ConnectSameAccount \/ ConnectOtherAccount \/ Disconnect \/ Toggle
    \/ \E e \in events : UserRemoves({e}, {})
    \/ \E c \in calendars : UserRemoves({e \in events : e.cal = c}, {c})
    \/ \E trigger \in {"syncNow", "confirmMassDelete"} : Reconcile(trigger)
Next == RunStep \/ UserStep \/ Reconcile("automatic") \/ DayEnds \/ TimePasses \/ Crash

Spec == Init /\ [][Next]_vars
\* A run proceeds, the backstop timer comes round, and waits come to an end;
\* the user, the day and the faults are free.
FairSpec ==
    /\ Spec
    /\ WF_vars(RunStep)
    /\ WF_vars(Reconcile("automatic"))
    /\ WF_vars(TimePasses)

(***************************************************************************)
(* Properties                                                              *)
(***************************************************************************)
Connection == [on : BOOLEAN, cal : Nat, asked : Nat,
               state : {"active", "needs_confirmation", "reconnect_required", "disconnected"}]

\* Every variable keeps its type.
TypeOK ==
    /\ settings \in Connection
    /\ tasks \in [Tasks -> [row : BOOLEAN, day : Dates \cup {NoDay}, text : Texts]]
    /\ recurring \subseteq Tasks
    /\ DOMAIN links \subseteq Occurrences
    /\ \A o \in DOMAIN links :
          links[o] \in [state : {"pending", "synced", "failed", "promoted", "final"}, event : Nat,
                        text : Texts, backoff : {"none", "waiting", "over"}]
    /\ events \subseteq [id : Nat \ {0}, cal : 1 .. made, key : Occurrences, text : Texts]
    /\ calendars \subseteq 1 .. made /\ settings.cal \in 1 .. made
    /\ cooldown \in BOOLEAN /\ today \in Days
    /\ unseen \cup takenBack \cup overwritten \subseteq Occurrences
    /\ edits \in 0 .. MaxEdits /\ faults \in 0 .. MaxFaults

\* A calendar never shows an occurrence twice, whatever answers, link writes
\* and processes were lost and whichever account was connected in between:
\* createOrAdoptEvent looks before it inserts, and runs never overlap.
OneEvent ==
    \A e, f \in events : e.cal = f.cal /\ e.key = f.key => e = f

\* Where no answer or link write was lost, the links and the connected
\* calendar tell the same story: a link's event is there, for its occurrence
\* and, once synced, with the body recorded; and every event has its link.
\* A run that outlives its connection must not write into the new one's table.
LinksTellTheTruth ==
    /\ \A o \in DOMAIN links \ unseen :
          links[o].event # NoEvent =>
             \E e \in events : /\ e.id = links[o].event /\ e.cal = settings.cal /\ e.key = o
                               /\ links[o].state = "synced" => e.text = links[o].text
    /\ \A e \in events :
          e.cal = settings.cal /\ e.key \notin unseen =>
             e.key \in DOMAIN links /\ links[e.key].event = e.id

\* While the account stays connected, the links settle: every occurrence that
\* is wanted has an event recorded for its present body, and no live link is
\* kept for an occurrence that is not wanted.  Wanted and yet given up for good
\* is only what the user took back before, and what was captured and then
\* written over by a run: there the code departs from its comments, by which a
\* captured occurrence stays reclaimable (reconciler.ts, the update's link).
\* Only a database without a single task is left as it is (the empty-set valve).
Connected == settings.on /\ settings.state = "active"
Settled ==
    \/ \A t \in Tasks : ~tasks[t].row
    \/ /\ \A t \in Tasks : tasks[t].day # NoDay =>
             LET o == <<t, tasks[t].day>>
             IN  /\ o \in DOMAIN links
                 /\ IF links[o].state = "final" THEN o \in takenBack \cup overwritten
                    ELSE links[o].event # NoEvent /\ links[o].text = tasks[t].text
       /\ \A o \in DOMAIN links : ~Detached(links[o]) => tasks[o[1]].day = o[2]
LinksSettle == <>[]Connected => <>[]Settled
=============================================================================
