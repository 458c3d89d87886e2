------------------------- MODULE CalendarSyncProofs -------------------------
(* What the calendar's mirror promises, for any tasks, texts, limits and   *)
(* bounds.                                                                 *)
EXTENDS CalendarSync, FiniteSetTheorems, TLAPS

----------------------------------------------------------------------------
(* No occurrence shows twice                                               *)

\* A run in flight has all of its fields.
Shape ==
    run = NoRun \/
    run = [phase |-> run.phase, trigger |-> run.trigger, confirmed |-> run.confirmed,
           recovered |-> run.recovered, cal |-> run.cal, state |-> run.state,
           links |-> run.links, plan |-> run.plan, used |-> run.used, act |-> run.act,
           hit |-> run.hit, sure |-> run.sure]

EventShape ==
    \A e \in events : e = [id |-> e.id, cal |-> e.cal, key |-> e.key, text |-> e.text]

\* What the lookup found still holds when the insert is sent: runs are alone.
LookedFirst ==
    run.phase = "inserting" => \A e \in events : e.cal = run.cal => e.key # run.act.key

OInv == Shape /\ EventShape /\ LookedFirst /\ OneEvent

\* A step that moves neither the run nor an event.
LEMMA Unmoved ==
    ASSUME OInv, UNCHANGED <<run, events>>
    PROVE  OInv'
BY DEF OInv, Shape, EventShape, LookedFirst, OneEvent

\* A step of a run that changes no event and does not start an insert.
LEMMA Calmly ==
    ASSUME OInv, events' \subseteq events, Shape', run'.phase # "inserting"
    PROVE  OInv'
BY DEF OInv, EventShape, LookedFirst, OneEvent

\* Every step keeps what the lookup of a run relies on.
LEMMA ONext == OInv /\ [Next]_vars => OInv'
<1> SUFFICES ASSUME OInv, [Next]_vars PROVE OInv'
  OBVIOUS
<1>0. OneEvent
  BY DEF OInv
<1>1. CASE UNCHANGED vars
  BY <1>1, Unmoved DEF vars, google
<1>2. CASE \E t \in Tasks :
             \/ \E d \in Dates : Schedule(t, d)
             \/ \E x \in Texts : Rewrite(t, x)
             \/ \E row \in BOOLEAN : Leave(t, row)
             \/ Promote(t)
  BY <1>2, Unmoved DEF Schedule, Rewrite, Leave, Promote, Local, google
<1>3. CASE ConnectSameAccount \/ ConnectOtherAccount \/ Disconnect \/ Toggle
           \/ DayEnds \/ TimePasses
  BY <1>3, Unmoved DEF ConnectSameAccount, ConnectOtherAccount, Disconnect, Toggle,
       DayEnds, TimePasses, Local, google
<1>4. ASSUME NEW es \in SUBSET events, NEW cs, UserRemoves(es, cs) PROVE OInv'
  <2>1. run' = run /\ events' \subseteq events
    BY <1>4 DEF UserRemoves
  <2> QED
    BY <2>1 DEF OInv, Shape, EventShape, LookedFirst, OneEvent
<1>5. ASSUME NEW trigger, Reconcile(trigger) PROVE OInv'
  <2>1. Shape' /\ run'.phase = "reading" /\ events' = events
    BY <1>5 DEF Reconcile, Reads, Shape, Quiet, google
  <2> QED
    BY <2>1, Calmly
<1>6. CASE Crash
  BY <1>6, Calmly DEF Crash, Shape, NoRun, google
<1>7. CASE ReadsTasks
  <2>1. run # NoRun
    BY <1>7 DEF ReadsTasks, NoRun
  <2>2. Shape' /\ run'.phase # "inserting" /\ events' = events
    BY <1>7, <2>1 DEF OInv, Shape, ReadsTasks, Quiet, google
  <2> QED
    BY <2>2, Calmly
<1>8. CASE Asks \/ Stops
  BY <1>8, Calmly DEF Asks, Stops, Quiet, Shape, NoRun, google
<1>9. CASE LeavesTheRest \/ \E a : SkipsForBackoff(a)
  <2>1. run # NoRun /\ run.phase = "working" /\ events' = events
    BY <1>9 DEF LeavesTheRest, SkipsForBackoff, Guarded, NoRun, Quiet, google
  <2>2. Shape' /\ run'.phase = "working"
    BY <1>9, <2>1 DEF OInv, Shape, LeavesTheRest, SkipsForBackoff
  <2> QED
    BY <2>1, <2>2, Calmly
<1>10. ASSUME NEW a, ActsLocally(a) PROVE OInv'
  <2>1. run # NoRun /\ run.phase = "working" /\ events' = events
    BY <1>10 DEF ActsLocally, Chosen, Guarded, NoRun, google
  <2>2. Shape' /\ run'.phase = "working"
    BY <1>10, <2>1 DEF OInv, Shape, ActsLocally
  <2> QED
    BY <2>1, <2>2, Calmly
<1>11. CASE Writes \/ RecordsFailure \/ MissingRemote
  <2>1. run # NoRun /\ events' = events
    BY <1>11 DEF Writes, RecordsFailure, MissingRemote, Guarded, NoRun, google
  <2>2. Shape' /\ run'.phase \in {"working", "failing"}
    BY <1>11, <2>1 DEF OInv, Shape, Writes, RecordsFailure, MissingRemote
  <2> QED
    BY <2>1, <2>2, Calmly
<1>12. CASE MakesCalendar \/ AdoptsCalendar \/ StartsAgain \/ Finishes
  <2>1. run.phase # "idle" /\ events' = events
    BY <1>12 DEF MakesCalendar, AdoptsCalendar, StartsAgain, Finishes, Guarded, Quiet, google
  <2>2. run # NoRun
    BY <2>1 DEF NoRun
  <2>3. CASE MakesCalendar
    <3>0. \/ run' = NoRun
          \/ run' = [run EXCEPT !.phase = "adopting", !.hit = made']
          \/ Refused(run)
      BY <2>3 DEF MakesCalendar
    <3>1. run' = NoRun \/ run'.phase \in {"adopting", "failing", "limited", "unauthorized"}
      BY <2>2, <3>0 DEF OInv, Shape, Refused
    <3>3. run'.phase # "inserting"
      BY <3>1 DEF NoRun
    <3>2. Shape'
      BY <2>2, <3>0 DEF OInv, Shape, Refused, NoRun
    <3> QED
      BY <2>1, <3>2, <3>3, Calmly
  <2>4. CASE AdoptsCalendar
    <3>1. Shape' /\ run'.phase # "inserting"
      BY <2>2, <2>4 DEF OInv, Shape, AdoptsCalendar
    <3> QED
      BY <2>1, <3>1, Calmly
  <2>5. CASE StartsAgain
    <3>1. Shape' /\ run'.phase # "inserting"
      BY <2>5 DEF Shape, StartsAgain, Reads, NoRun
    <3> QED
      BY <2>1, <3>1, Calmly
  <2>6. CASE Finishes
    <3>1. Shape' /\ run'.phase # "inserting"
      BY <2>6 DEF Shape, Finishes, NoRun
    <3> QED
      BY <2>1, <3>1, Calmly
  <2> QED
    BY <1>12, <2>3, <2>4, <2>5, <2>6
<1>13. ASSUME NEW a, Looks(a) PROVE OInv'
  <2>1. run # NoRun
    BY <1>13 DEF Looks, Remote, Chosen, Guarded, NoRun
  <2>2. Shape' /\ events' \subseteq events
    BY <1>13, <2>1 DEF OInv, Shape, Looks, NotFound, Refused, After, google
  <2>3. run'.phase = "inserting" =>
          run'.cal = run.cal /\ run'.act.key = a.key /\ At(a.key) = {} /\ events' = events
    BY <1>13, <2>1 DEF OInv, Shape, Looks, NotFound, Refused, After, google
  <2> QED
    BY <2>2, <2>3 DEF OInv, EventShape, LookedFirst, OneEvent, At
<1>14. ASSUME NEW a, Patches(a) PROVE OInv'
  <2>1. run # NoRun
    BY <1>14 DEF Patches, Remote, Chosen, Guarded, NoRun
  <2>2. Shape' /\ run'.phase # "inserting"
    BY <1>14, <2>1 DEF OInv, Shape, Patches, Refused, After
  <2> DEFINE es == {e \in events : e.cal = run.cal /\ e.id = a.event}
             patched == (events \ es) \cup {[e EXCEPT !.text = a.text] : e \in es}
  <2>3. events' = events \/ events' = patched
    BY <1>14 DEF Patches, Changes, Changeless, google
  <2>4. \A e \in es : [e EXCEPT !.text = a.text] =
                      [id |-> e.id, cal |-> e.cal, key |-> e.key, text |-> a.text]
    BY DEF OInv, EventShape
  <2>5. \A x \in patched : \E e \in events :
          /\ x.cal = e.cal /\ x.key = e.key
          /\ x = IF e \in es THEN [e EXCEPT !.text = a.text] ELSE e
    BY <2>4
  <2>7. \A x, y \in patched : x.cal = y.cal /\ x.key = y.key => x = y
    BY <1>0, <2>5 DEF OneEvent
  <2>6. \A e \in patched : e = [id |-> e.id, cal |-> e.cal, key |-> e.key, text |-> e.text]
    BY <2>4 DEF OInv, EventShape
  <2> HIDE DEF patched
  <2> QED
    BY <2>2, <2>3, <2>6, <2>7 DEF OInv, EventShape, LookedFirst, OneEvent
<1>15. ASSUME NEW a, Deletes(a) PROVE OInv'
  <2>1. run # NoRun
    BY <1>15 DEF Deletes, Remote, Chosen, Guarded, NoRun
  <2>2. Shape' /\ run'.phase # "inserting" /\ events' \subseteq events
    BY <1>15, <2>1 DEF OInv, Shape, Deletes, Refused, After, Changes, Changeless, google
  <2> QED
    BY <2>2, Calmly
<1>16. CASE Inserts
  <2>0. run.phase = "inserting"
    BY <1>16 DEF Inserts
  <2>1. run # NoRun
    BY <2>0 DEF NoRun
  <2>2. Shape' /\ run'.phase # "inserting"
    BY <1>16, <2>1 DEF OInv, Shape, Inserts, NotFound, Refused
  <2> DEFINE new == [id |-> UnusedId, cal |-> run.cal, key |-> run.act.key,
                     text |-> run.act.text]
  <2>3. events' = events \/ events' = events \cup {new}
    BY <1>16 DEF Inserts, Changes, Changeless, google
  <2>4. \A e \in events : ~(e.cal = run.cal /\ e.key = run.act.key)
    BY <2>0 DEF OInv, LookedFirst
  <2> QED
    BY <2>2, <2>3, <2>4 DEF OInv, EventShape, LookedFirst, OneEvent
<1> QED
  BY <1>1, <1>2, <1>3, <1>4, <1>5, <1>6, <1>7, <1>8, <1>9, <1>10, <1>11, <1>12, <1>13,
     <1>14, <1>15, <1>16 DEF Next, RunStep, UserStep

----------------------------------------------------------------------------
(* What the links tell                                                     *)

\* The event a table of links records for an occurrence.
EventOf(L, o) == IF o \in DOMAIN L THEN L[o].event ELSE NoEvent

\* A link and the settings have all of their fields.
LinkShape ==
    /\ links = [o \in DOMAIN links |-> links[o]]
    /\ \A o \in DOMAIN links :
          /\ links[o] = [state |-> links[o].state, event |-> links[o].event,
                         text |-> links[o].text, backoff |-> links[o].backoff]
          /\ links[o].event \in Nat

SettingsShape ==
    settings = [on |-> settings.on, state |-> settings.state, cal |-> settings.cal,
                asked |-> settings.asked]

\* Events are told apart by their ids, and calendars by their numbers.
Numbered ==
    /\ IsFiniteSet(events) /\ IsFiniteSet(DOMAIN links)
    /\ made \in Nat /\ settings.cal \in 1 .. made
    /\ \A e \in events : e.id \in Nat \ {0} /\ e.cal \in 1 .. made
    /\ \A e, f \in events : e.id = f.id => e = f

\* A link's event is for its occurrence, and the connected calendar has no other.
LinkedEvents ==
    \A o \in DOMAIN links, e \in events :
        /\ links[o].event = e.id => e.key = o
        /\ links[o].event # NoEvent /\ e.cal = settings.cal /\ e.key = o => e.id = links[o].event

\* What a run for the connected calendar has read or planned agrees with the links.
PlanAgrees ==
    /\ run.phase = "reading" =>
          \A o \in DOMAIN links \cup DOMAIN run.links : EventOf(run.links, o) = EventOf(links, o)
    /\ \A a \in run.plan :
          /\ a.event = EventOf(links, a.key)
          /\ a.do \in {"create", "purge"} => a.event = NoEvent
          /\ a.do = "detach" => a.to # "synced"
          /\ \A b \in run.plan : a.key = b.key => a = b

Acting == {"inserting", "writing", "failing", "missing", "recovering"}

\* So does the action it executes; before its link is written, Google has done it.
ActAgrees ==
    /\ run.phase \in Acting =>
          /\ run.act.event = EventOf(links, run.act.key)
          /\ \A a \in run.plan : a.key # run.act.key
    /\ run.phase = "inserting" => run.act.event = NoEvent /\ run.act.do = "create"
    /\ run.phase = "writing" =>
          /\ IF run.act.do = "delete"
             THEN \A e \in events : ~(e.cal = run.cal /\ e.key = run.act.key)
             ELSE \E e \in events : /\ e.id = run.hit /\ e.cal = run.cal /\ e.key = run.act.key
                                    /\ run.sure => e.text = run.act.text
          /\ run.sure \/ run.act.key \in unseen

\* A run for another calendar is held to nothing but its calendar's number.
RunAgrees ==
    run # NoRun =>
       /\ run.cal \in 1 .. made
       /\ run.phase = "adopting" => run.hit \in 1 .. made /\ \A e \in events : e.cal # run.hit
       /\ run.cal = settings.cal => PlanAgrees /\ ActAgrees

\* The links, the events and the settings, with no run in sight.
Story == LinkShape /\ SettingsShape /\ Numbered /\ LinkedEvents /\ LinksTellTheTruth

CInv == OInv /\ Story /\ RunAgrees

\* Nothing is linked yet.
LEMMA CInit == Init => CInv
<1> SUFFICES ASSUME Init PROVE CInv
  OBVIOUS
<1>1. /\ links = NoLinks /\ DOMAIN links = {} /\ events = {} /\ made = 1 /\ unseen = {} /\ run = NoRun
      /\ settings = [on |-> TRUE, state |-> "active", cal |-> 1, asked |-> 0]
  BY DEF Init, NoLinks
<1>2. OInv
  BY <1>1 DEF OInv, Shape, EventShape, LookedFirst, OneEvent, NoRun
<1>3. LinkShape /\ SettingsShape
  BY <1>1 DEF LinkShape, SettingsShape, NoLinks
<1>4. Numbered
  BY <1>1, FS_EmptySet DEF Numbered
<1>5. LinkedEvents /\ LinksTellTheTruth /\ RunAgrees
  BY <1>1 DEF LinkedEvents, LinksTellTheTruth, RunAgrees
<1> QED
  BY <1>2, <1>3, <1>4, <1>5 DEF CInv, Story

\* The planner does not connect: what becomes of one link is one action at most.
LEMMA LeftBehindIs ==
    ASSUME NEW o, NEW l, NEW T, NEW day, NEW a \in LeftBehind(o, l, T, day)
    PROVE  /\ a.key = o /\ a.event = l.event
           /\ a.do \in {"create", "purge"} => a.event = NoEvent
           /\ a.do = "detach" => a.to # "synced"
           /\ \A b \in LeftBehind(o, l, T, day) : b = a
<1> DEFINE delete == Act("delete", o, l.text, l, "none")
           purge == Act("purge", o, l.text, l, "none")
<1>1. \A do, text, to : LET x == Act(do, o, text, l, to) IN
          x.do = do /\ x.key = o /\ x.event = l.event /\ x.to = to
  BY DEF Act
<1> DEFINE Fine(x) == /\ x.key = o /\ x.event = l.event
                      /\ x.do \in {"create", "purge"} => x.event = NoEvent
                      /\ x.do = "detach" => x.to # "synced"
<1>2. Fine(delete)
  BY DEF Act
<1>3. l.event = NoEvent => Fine(purge)
  BY DEF Act
<1>4. Fine(Materialized(o, l, day))
  BY DEF Act, Materialized
<1>5. /\ Fine(Act("detach", o, l.text, l, "promoted"))
      /\ Fine(Act("detach", o, l.text, l, "final"))
  BY DEF Act
<1>6. \E x : LeftBehind(o, l, T, day) \subseteq {x} /\ (LeftBehind(o, l, T, day) = {x} => Fine(x))
  <2> HIDE DEF Fine
  <2>1. CASE l.state = "final"
    BY <2>1 DEF LeftBehind
  <2>2. CASE l.state = "promoted"
    <3>1. LeftBehind(o, l, T, day) = {} \/ LeftBehind(o, l, T, day) = {delete}
      BY <2>2 DEF LeftBehind
    <3> QED
      BY <1>2, <3>1
  <2>3. CASE l.state = "pending"
    <3>1. \/ LeftBehind(o, l, T, day) = {delete}
          \/ LeftBehind(o, l, T, day) = {purge} /\ l.event = NoEvent
          \/ LeftBehind(o, l, T, day) = {Materialized(o, l, day)}
      BY <2>3 DEF LeftBehind
    <3> QED
      BY <1>2, <1>3, <1>4, <3>1
  <2>4. CASE l.state \notin {"final", "promoted", "pending"}
    <3>1. \/ LeftBehind(o, l, T, day) = {delete}
          \/ LeftBehind(o, l, T, day) = {Act("detach", o, l.text, l, "promoted")}
          \/ LeftBehind(o, l, T, day) = {Act("detach", o, l.text, l, "final")}
      BY <2>4 DEF LeftBehind
    <3> QED
      BY <1>2, <1>5, <3>1
  <2> QED
    BY <2>1, <2>2, <2>3, <2>4
<1> QED
  BY <1>6

\* What an eligible occurrence needs is one action at most.
LEMMA WantedIs ==
    ASSUME NEW o, NEW L, NEW text, NEW a \in Wanted(o, L, text)
    PROVE  /\ a.key = o /\ a.event = EventOf(L, o)
           /\ a.do \in {"create", "purge"} => a.event = NoEvent
           /\ a.do = "detach" => a.to # "synced"
           /\ \A b \in Wanted(o, L, text) : b = a
<1>1. CASE o \notin DOMAIN L
  <2>1. Wanted(o, L, text) = {Act("create", o, text, NewLink(text), "synced")}
    BY <1>1 DEF Wanted
  <2>2. NewLink(text).event = NoEvent
    BY DEF NewLink
  <2> QED
    BY <1>1, <2>1, <2>2 DEF Act, EventOf
<1>2. CASE o \in DOMAIN L
  <2>1. \/ Wanted(o, L, text) = {}
        \/ Wanted(o, L, text) = {Act("create", o, text, L[o], "synced")} /\ L[o].event = NoEvent
        \/ Wanted(o, L, text) = {Act("update", o, text, L[o], "synced")}
    BY <1>2 DEF Wanted
  <2> QED
    BY <1>2, <2>1 DEF Act, EventOf
<1> QED
  BY <1>1, <1>2

\* A plan has one action for an occurrence, with the event that its link records.
LEMMA PlanIs ==
    ASSUME NEW L, NEW T, NEW day, NEW a \in Plan(L, T, day)
    PROVE  /\ a.event = EventOf(L, a.key)
           /\ a.do \in {"create", "purge"} => a.event = NoEvent
           /\ a.do = "detach" => a.to # "synced"
           /\ \A b \in Plan(L, T, day) : a.key = b.key => a = b
<1>1. \A x \in Plan(L, T, day) :
          \/ \E o \in DOMAIN L : T[o[1]].day # o[2] /\ x \in LeftBehind(o, L[o], T, day)
          \/ \E t \in Tasks : T[t].day # NoDay /\ x \in Wanted(<<t, T[t].day>>, L, T[t].text)
  BY DEF Plan
<1>2. \A o : \A x \in LeftBehind(o, L[o], T, day) :
          /\ x.key = o /\ x.event = L[o].event
          /\ x.do \in {"create", "purge"} => x.event = NoEvent
          /\ x.do = "detach" => x.to # "synced"
          /\ \A y \in LeftBehind(o, L[o], T, day) : y = x
  BY LeftBehindIs
<1>3. \A t : \A x \in Wanted(<<t, T[t].day>>, L, T[t].text) :
          /\ x.key = <<t, T[t].day>> /\ x.event = EventOf(L, x.key)
          /\ x.do \in {"create", "purge"} => x.event = NoEvent
          /\ x.do = "detach" => x.to # "synced"
          /\ \A y \in Wanted(<<t, T[t].day>>, L, T[t].text) : y = x
  BY WantedIs
<1>4. ASSUME NEW b \in Plan(L, T, day), a.key = b.key
      PROVE  a = b
  <2>1. CASE \E o \in DOMAIN L : T[o[1]].day # o[2] /\ a \in LeftBehind(o, L[o], T, day)
    <3>1. PICK o \in DOMAIN L : T[o[1]].day # o[2] /\ a \in LeftBehind(o, L[o], T, day)
      BY <2>1
    <3>2. a.key = o
      BY <1>2, <3>1
    <3>3. ASSUME NEW t \in Tasks, b \in Wanted(<<t, T[t].day>>, L, T[t].text)
          PROVE  FALSE
      <4>1. o = <<t, T[t].day>>
        BY <1>3, <1>4, <3>2, <3>3
      <4> QED
        BY <3>1, <4>1
    <3>4. PICK o2 \in DOMAIN L : b \in LeftBehind(o2, L[o2], T, day)
      BY <1>1, <3>3
    <3>5. o2 = o
      BY <1>2, <1>4, <3>2, <3>4
    <3> QED
      BY <1>2, <3>1, <3>4, <3>5
  <2>2. CASE \E t \in Tasks : T[t].day # NoDay /\ a \in Wanted(<<t, T[t].day>>, L, T[t].text)
    <3>1. PICK t \in Tasks : a \in Wanted(<<t, T[t].day>>, L, T[t].text)
      BY <2>2
    <3>2. a.key = <<t, T[t].day>>
      BY <1>3, <3>1
    <3>3. ASSUME NEW o \in DOMAIN L, T[o[1]].day # o[2], b \in LeftBehind(o, L[o], T, day)
          PROVE  FALSE
      <4>1. o = <<t, T[t].day>>
        BY <1>2, <1>4, <3>2, <3>3
      <4> QED
        BY <3>3, <4>1
    <3>4. PICK t2 \in Tasks : b \in Wanted(<<t2, T[t2].day>>, L, T[t2].text)
      BY <1>1, <3>3
    <3>5. <<t2, T[t2].day>> = <<t, T[t].day>>
      BY <1>3, <1>4, <3>2, <3>4
    <3>6. t2 = t
      BY <3>5
    <3> QED
      BY <1>3, <3>1, <3>4, <3>6
  <2> QED
    BY <1>1, <2>1, <2>2
<1>5. /\ a.event = EventOf(L, a.key)
      /\ a.do \in {"create", "purge"} => a.event = NoEvent
      /\ a.do = "detach" => a.to # "synced"
  <2>1. CASE \E o \in DOMAIN L : a \in LeftBehind(o, L[o], T, day)
    BY <1>2, <2>1 DEF EventOf
  <2>2. CASE \E t \in Tasks : a \in Wanted(<<t, T[t].day>>, L, T[t].text)
    BY <1>3, <2>2
  <2> QED
    BY <1>1, <2>1, <2>2
<1> QED
  BY <1>4, <1>5

\* Google gives an event an id that no other event and no link has.
LEMMA UnusedIdIs ==
    ASSUME Numbered
    PROVE  /\ UnusedId \in Nat \ {0}
           /\ \A e \in events : e.id # UnusedId
           /\ \A o \in DOMAIN links : links[o].event # UnusedId
<1> DEFINE ids == {e.id : e \in events}
           n == Cardinality(events) + Cardinality(DOMAIN links) + 1
<1>1. /\ IsFiniteSet(events) /\ IsFiniteSet(DOMAIN links)
      /\ Cardinality(events) \in Nat /\ Cardinality(DOMAIN links) \in Nat
  BY FS_CardinalityType DEF Numbered
<1>2. IsFiniteSet(ids) /\ Cardinality(ids) <= Cardinality(events)
  <2>1. [e \in events |-> e.id] \in Surjection(events, ids)
    BY DEF Surjection
  <2> HIDE DEF ids
  <2> QED
    BY <1>1, <2>1, FS_Surjection
<1>3. IsFiniteSet(Linked) /\ Cardinality(Linked) <= Cardinality(DOMAIN links)
  <2>1. [o \in DOMAIN links |-> links[o].event] \in Surjection(DOMAIN links, Linked)
    BY DEF Surjection, Linked
  <2> QED
    BY <1>1, <2>1, FS_Surjection
<1> HIDE DEF ids
<1>4. /\ Cardinality(ids) \in Nat /\ Cardinality(Linked) \in Nat
      /\ Cardinality(ids \cap Linked) \in Nat
  <2>1. IsFiniteSet(ids \cap Linked)
    BY <1>2, FS_Subset
  <2> QED
    BY <1>2, <1>3, <2>1, FS_CardinalityType
<1>5. /\ IsFiniteSet(ids \cup Linked)
      /\ Cardinality(ids \cup Linked) = Cardinality(ids) + Cardinality(Linked) - Cardinality(ids \cap Linked)
  BY <1>2, <1>3, FS_Union
<1>6. Cardinality(ids \cup Linked) < n
  BY <1>1, <1>2, <1>3, <1>4, <1>5
<1>7. ~(1 .. n \subseteq ids \cup Linked)
  <2> SUFFICES ASSUME 1 .. n \in SUBSET (ids \cup Linked)
               PROVE  FALSE
    OBVIOUS
  <2>1. Cardinality(1 .. n) <= Cardinality(ids \cup Linked)
    BY <1>5, FS_Subset
  <2>2. Cardinality(1 .. n) = n
    BY <1>1, FS_Interval
  <2>3. n \in Nat /\ Cardinality(ids \cup Linked) \in Nat
    BY <1>1, <1>5, FS_CardinalityType
  <2> QED
    BY <1>6, <2>1, <2>2, <2>3
<1>8. \E i \in 1 .. n : i \notin ids \cup Linked
  BY <1>7
<1>9. UnusedId \in 1 .. n /\ UnusedId \notin ids \cup Linked
  <2>1. UnusedId = CHOOSE i \in 1 .. n : i \notin ids \cup Linked
    BY DEF UnusedId, ids
  <2> HIDE DEF n
  <2> QED
    BY <1>8, <2>1
<1> QED
  BY <1>1, <1>9 DEF ids, Linked

\* Steps that leave the events alone, and each occurrence with the event it has.
LEMMA LinksKept ==
    ASSUME Story, UNCHANGED <<events, unseen>>, settings'.cal = settings.cal,
           made' \in Nat, made <= made', SettingsShape', LinkShape', IsFiniteSet(DOMAIN links'),
           \A o : EventOf(links', o) = EventOf(links, o),
           \A o \in DOMAIN links' : links'[o].state = "synced" /\ links'[o].event # NoEvent =>
              o \in DOMAIN links /\ links[o].state = "synced" /\ links[o].text = links'[o].text
    PROVE  Story'
<1>1. \A o \in DOMAIN links' : links'[o].event # NoEvent =>
          o \in DOMAIN links /\ links[o].event = links'[o].event
  BY DEF EventOf
<1>2. \A o \in DOMAIN links : links[o].event # NoEvent =>
          o \in DOMAIN links' /\ links'[o].event = links[o].event
  BY DEF EventOf
<1>3. Numbered'
  <2>1. /\ IsFiniteSet(events) /\ made \in Nat /\ settings.cal \in 1 .. made
        /\ \A e \in events : e.id \in Nat \ {0} /\ e.cal \in 1 .. made
        /\ \A e, f \in events : e.id = f.id => e = f
    BY DEF Story, Numbered
  <2>2. 1 .. made \subseteq 1 .. made'
    BY <2>1
  <2> QED
    BY <2>1, <2>2 DEF Numbered
<1>4. \A e \in events : e.id # NoEvent
  BY DEF Story, Numbered, NoEvent
<1>5. LinkedEvents'
  <2> SUFFICES ASSUME NEW o \in DOMAIN links', NEW e \in events
               PROVE  /\ links'[o].event = e.id => e.key = o
                      /\ links'[o].event # NoEvent /\ e.cal = settings.cal /\ e.key = o =>
                            e.id = links'[o].event
    BY DEF LinkedEvents
  <2> QED
    BY <1>1, <1>4 DEF Story, LinkedEvents
<1>6. LinksTellTheTruth'
  <2>1. ASSUME NEW o \in DOMAIN links' \ unseen, links'[o].event # NoEvent
        PROVE  \E e \in events :
                  /\ e.id = links'[o].event /\ e.cal = settings.cal /\ e.key = o
                  /\ links'[o].state = "synced" => e.text = links'[o].text
    <3>1. o \in DOMAIN links \ unseen /\ links[o].event = links'[o].event
      BY <1>1, <2>1
    <3>2. PICK e \in events : /\ e.id = links[o].event /\ e.cal = settings.cal /\ e.key = o
                              /\ links[o].state = "synced" => e.text = links[o].text
      BY <2>1, <3>1 DEF Story, LinksTellTheTruth
    <3> QED
      BY <2>1, <3>1, <3>2
  <2>2. ASSUME NEW e \in events, e.cal = settings.cal, e.key \notin unseen
        PROVE  e.key \in DOMAIN links' /\ links'[e.key].event = e.id
    <3>1. e.key \in DOMAIN links /\ links[e.key].event = e.id
      BY <2>2 DEF Story, LinksTellTheTruth
    <3> QED
      BY <1>2, <1>4, <3>1
  <2> QED
    BY <2>1, <2>2 DEF LinksTellTheTruth
<1> QED
  BY <1>3, <1>5, <1>6 DEF Story

\* Steps that touch no link and no event.
LEMMA StoryKept ==
    ASSUME Story, UNCHANGED <<links, events, unseen>>, settings'.cal = settings.cal,
           made' \in Nat, made <= made', SettingsShape'
    PROVE  Story'
<1>1. LinkShape' /\ IsFiniteSet(DOMAIN links')
  BY DEF Story, LinkShape, Numbered
<1> QED
  BY <1>1, LinksKept

\* Steps of others that keep the calendar, and each occurrence with the event it has.
LEMMA RunKept ==
    ASSUME RunAgrees, UNCHANGED <<run, events, unseen>>, settings'.cal = settings.cal,
           made \in Nat, made' \in Nat, made <= made',
           \A o : EventOf(links', o) = EventOf(links, o)
    PROVE  RunAgrees'
<1> SUFFICES ASSUME run # NoRun
             PROVE  RunAgrees'
  BY DEF RunAgrees
<1>1. run.cal \in 1 .. made' /\ (run.phase = "adopting" =>
          run.hit \in 1 .. made' /\ \A e \in events : e.cal # run.hit)
  BY DEF RunAgrees
<1>2. ASSUME run.cal = settings.cal PROVE PlanAgrees' /\ ActAgrees'
  <2>1. PlanAgrees /\ ActAgrees
    BY <1>2 DEF RunAgrees
  <2>2. PlanAgrees'
    <3>1. run.phase = "reading" => \A o \in DOMAIN links' \cup DOMAIN run.links :
             EventOf(run.links, o) = EventOf(links', o)
      <4>1. ASSUME run.phase = "reading", NEW o PROVE EventOf(run.links, o) = EventOf(links', o)
        BY <2>1, <4>1 DEF PlanAgrees, EventOf
      <4> QED
        BY <4>1
    <3> QED
      BY <2>1, <3>1 DEF PlanAgrees
  <2>3. ActAgrees'
    BY <2>1 DEF ActAgrees
  <2> QED
    BY <2>2, <2>3
<1> QED
  BY <1>1, <1>2 DEF RunAgrees

\* Steps of the run that keep the calendar and plan nothing new.
LEMMA RunMoves ==
    ASSUME RunAgrees, run # NoRun, run'.cal = run.cal, settings'.cal = settings.cal,
           made \in Nat, made' \in Nat, made <= made', run'.phase \notin {"reading", "adopting"},
           run.cal = settings.cal =>
              /\ run'.plan \subseteq run.plan /\ ActAgrees'
              /\ \A a \in run'.plan : EventOf(links', a.key) = EventOf(links, a.key)
    PROVE  RunAgrees'
<1>1. run.cal \in 1 .. made'
  BY DEF RunAgrees
<1>2. ASSUME run.cal = settings.cal PROVE PlanAgrees' /\ ActAgrees'
  <2>1. PlanAgrees
    BY <1>2 DEF RunAgrees
  <2> QED
    BY <1>2, <2>1 DEF PlanAgrees
<1> QED
  BY <1>1, <1>2 DEF RunAgrees

\* A run of which only an action planned for nothing else is in hand.
LEMMA Chooses ==
    ASSUME CInv, NEW a \in run.plan, run # NoRun, run.cal = settings.cal
    PROVE  /\ a.event = EventOf(links, a.key)
           /\ a.do \in {"create", "purge"} => a.event = NoEvent
           /\ a.do = "detach" => a.to # "synced"
           /\ \A b \in run.plan \ {a} : b.key # a.key
BY DEF CInv, RunAgrees, PlanAgrees

\* What the steps below need of the shapes.
LEMMA Shapes ==
    ASSUME CInv
    PROVE  /\ Story /\ RunAgrees /\ OneEvent /\ LookedFirst /\ EventShape /\ made \in Nat
           /\ settings.cal \in 1 .. made /\ SettingsShape /\ LinkShape
           /\ IsFiniteSet(DOMAIN links) /\ IsFiniteSet(events)
           /\ \A o : EventOf(links, o) \in Nat
<1>1. /\ Story /\ RunAgrees /\ OneEvent /\ LookedFirst /\ EventShape /\ made \in Nat
      /\ settings.cal \in 1 .. made /\ SettingsShape /\ LinkShape
      /\ IsFiniteSet(DOMAIN links) /\ IsFiniteSet(events)
  BY DEF CInv, Story, OInv, Numbered
<1>2. \A o : EventOf(links, o) \in Nat
  BY <1>1 DEF LinkShape, EventOf, NoEvent
<1> QED
  BY <1>1, <1>2

\* What the user does to tasks and to the connection, but for another account, tells no link
\* anything; neither does the day.
LEMMA UserTells ==
    ASSUME CInv, UNCHANGED <<run, links, events, made, unseen>>,
           \/ settings' = settings
           \/ ConnectSameAccount \/ Disconnect \/ Toggle
    PROVE  Story' /\ RunAgrees'
<1>1. SettingsShape' /\ settings'.cal = settings.cal
  BY Shapes DEF SettingsShape, ConnectSameAccount, Disconnect, Toggle
<1>2. Story' /\ made <= made'
  BY <1>1, Shapes, StoryKept
<1> QED
  BY <1>1, <1>2, Shapes, RunKept

\* Waits come to an end.
LEMMA TimeTells ==
    ASSUME CInv, TimePasses
    PROVE  Story' /\ RunAgrees'
<1>1. /\ UNCHANGED <<run, events, made, settings, unseen>> /\ made <= made'
      /\ links' = [o \in DOMAIN links |->
                     [links[o] EXCEPT !.backoff = IF @ = "waiting" THEN "over" ELSE @]]
  BY Shapes DEF TimePasses, google
<1>2. DOMAIN links' = DOMAIN links /\ \A o \in DOMAIN links :
         \E b : links'[o] = [state |-> links[o].state, event |-> links[o].event,
                             text |-> links[o].text, backoff |-> b]
  BY <1>1, Shapes DEF LinkShape
<1>3. LinkShape'
  <2>1. links' = [o \in DOMAIN links' |-> links'[o]]
    BY <1>1
  <2> QED
    BY <1>2, <2>1, Shapes DEF LinkShape
<1>4. \A o : EventOf(links', o) = EventOf(links, o)
  BY <1>2 DEF EventOf
<1>5. SettingsShape'
  BY <1>1, Shapes DEF SettingsShape
<1>6. \A o \in DOMAIN links' : links'[o].state = "synced" /\ links'[o].event # NoEvent =>
         o \in DOMAIN links /\ links[o].state = "synced" /\ links[o].text = links'[o].text
  BY <1>2
<1>7. IsFiniteSet(DOMAIN links') /\ made' \in Nat
  BY <1>1, <1>2, Shapes
<1>8. Story'
  BY <1>1, <1>3, <1>4, <1>5, <1>6, <1>7, Shapes, LinksKept
<1> QED
  BY <1>1, <1>4, <1>8, Shapes, RunKept

\* A captured link keeps its event, and is not called synced.
LEMMA CapturedIs ==
    ASSUME CInv, NEW o, NEW text
    PROVE  /\ Captured(o, text) = [state |-> Captured(o, text).state, event |-> EventOf(links, o),
                                   text |-> Captured(o, text).text,
                                   backoff |-> Captured(o, text).backoff]
           /\ Captured(o, text).state # "synced"
<1> DEFINE l == IF o \in DOMAIN links THEN links[o] ELSE NewLink(text)
<1>1. l = [state |-> l.state, event |-> EventOf(links, o), text |-> l.text, backoff |-> l.backoff]
  BY Shapes DEF LinkShape, NewLink, EventOf
<1>2. Captured(o, text) =
        IF l.state = "final" \/ (l.state = "promoted" /\ l.event # NoEvent /\ l.text = text)
        THEN l
        ELSE IF l.state = "synced" /\ l.text = text
        THEN Touched([l EXCEPT !.state = "promoted"])
        ELSE Touched([l EXCEPT !.state = "pending", !.text = text])
  BY DEF Captured
<1> HIDE DEF l
<1>3. \E s, x, b : /\ Captured(o, text) = [state |-> s, event |-> EventOf(links, o),
                                          text |-> x, backoff |-> b]
                  /\ s # "synced"
  <2>1. CASE Captured(o, text) = l /\ l.state \in {"final", "promoted"}
    <3>1. l.state # "synced"
      BY <2>1
    <3> QED
      BY <1>1, <2>1, <3>1
  <2>2. CASE Captured(o, text) = Touched([l EXCEPT !.state = "promoted"])
    <3>1. [l EXCEPT !.state = "promoted"] =
            [state |-> "promoted", event |-> EventOf(links, o), text |-> l.text,
             backoff |-> l.backoff]
      BY <1>1
    <3> QED
      BY <2>2, <3>1 DEF Touched
  <2>3. CASE Captured(o, text) = Touched([l EXCEPT !.state = "pending", !.text = text])
    <3>1. [l EXCEPT !.state = "pending", !.text = text] =
            [state |-> "pending", event |-> EventOf(links, o), text |-> text,
             backoff |-> l.backoff]
      <4>1. PICK p : p = [l EXCEPT !.state = "pending"]
        OBVIOUS
      <4>2. p = [state |-> "pending", event |-> EventOf(links, o), text |-> l.text,
                 backoff |-> l.backoff]
        BY <1>1, <4>1
      <4>3. [p EXCEPT !.text = text] =
              [state |-> "pending", event |-> EventOf(links, o), text |-> text,
               backoff |-> l.backoff]
        BY <4>2
      <4> QED
        BY <4>1, <4>3
    <3>2. \E b : Captured(o, text) =
            [state |-> "pending", event |-> EventOf(links, o), text |-> text, backoff |-> b]
      <4>1. PICK p : p = [l EXCEPT !.state = "pending", !.text = text]
        OBVIOUS
      <4>2. Captured(o, text) = Touched(p)
        BY <2>3, <4>1
      <4>3. p = [state |-> "pending", event |-> EventOf(links, o), text |-> text,
                 backoff |-> l.backoff]
        BY <3>1, <4>1
      <4> QED
        BY <4>2, <4>3 DEF Touched
    <3>3. "pending" # "synced"
      OBVIOUS
    <3>4. PICK b : Captured(o, text) =
            [state |-> "pending", event |-> EventOf(links, o), text |-> text, backoff |-> b]
      BY <3>2
    <3> QED
      BY <3>3, <3>4, Zenon
  <2> QED
    BY <1>2, <2>1, <2>2, <2>3
<1> QED
  BY <1>3

\* A link saved with the event it had keeps the story: what it says of the body counts only
\* once it is called synced.
LEMMA SavedTells ==
    ASSUME CInv, UNCHANGED <<events, made, settings, unseen>>, NEW o, NEW l,
           l = [state |-> l.state, event |-> EventOf(links, o), text |-> l.text,
                backoff |-> l.backoff],
           l.state # "synced", links' = Saved(o, l)
    PROVE  Story' /\ \A x : EventOf(links', x) = EventOf(links, x)
<1>1. /\ DOMAIN links' = DOMAIN links \cup {o} /\ links'[o] = l
      /\ \A x \in DOMAIN links : x # o => links'[x] = links[x]
  BY DEF Saved
<1>2. \A x : EventOf(links', x) = EventOf(links, x)
  BY <1>1 DEF EventOf
<1>3. LinkShape'
  <2>1. links' = [x \in DOMAIN links' |-> links'[x]]
    BY DEF Saved
  <2>2. \A x \in DOMAIN links' :
           /\ links'[x] = [state |-> links'[x].state, event |-> links'[x].event,
                           text |-> links'[x].text, backoff |-> links'[x].backoff]
           /\ links'[x].event \in Nat
    <3>1. l.event \in Nat
      BY Shapes
    <3> QED
      BY <1>1, <3>1, Shapes DEF LinkShape
  <2> QED
    BY <2>1, <2>2 DEF LinkShape
<1>4. IsFiniteSet(DOMAIN links')
  BY <1>1, Shapes, FS_AddElement
<1>5. SettingsShape' /\ made' \in Nat /\ made <= made'
  BY Shapes DEF SettingsShape
<1>6. \A x \in DOMAIN links' : links'[x].state = "synced" /\ links'[x].event # NoEvent =>
         x \in DOMAIN links /\ links[x].state = "synced" /\ links[x].text = links'[x].text
  BY <1>1
<1> QED
  BY <1>2, <1>3, <1>4, <1>5, <1>6, Shapes, LinksKept

\* A promotion captures an occurrence whose event, if it has one, stays its own.
LEMMA PromoteTells ==
    ASSUME CInv, NEW t, Promote(t)
    PROVE  Story' /\ RunAgrees'
<1> DEFINE o == <<t, tasks[t].day>>
           l == Captured(o, tasks[t].text)
<1>1. /\ UNCHANGED <<run, events, made, settings, unseen>> /\ made <= made'
      /\ links' = links \/ links' = Saved(o, l)
  BY Shapes DEF Promote, Local, google
<1>2. CASE links' = links
  BY <1>1, <1>2, UserTells
<1>3. CASE links' = Saved(o, l)
  <2>1. /\ l = [state |-> l.state, event |-> EventOf(links, o), text |-> l.text,
                backoff |-> l.backoff]
        /\ l.state # "synced"
    BY CapturedIs
  <2> HIDE DEF l, o
  <2>2. Story' /\ \A x : EventOf(links', x) = EventOf(links, x)
    BY <1>1, <1>3, <2>1, SavedTells
  <2> QED
    BY <1>1, <2>2, Shapes, RunKept
<1> QED
  BY <1>1, <1>2, <1>3

\* Another account comes with a calendar of its own, and with no links.
LEMMA OtherAccountTells ==
    ASSUME CInv, ConnectOtherAccount
    PROVE  Story' /\ RunAgrees'
<1>1. /\ made' = made + 1 /\ links' = NoLinks /\ unseen' = {} /\ UNCHANGED <<run, events>>
      /\ settings' = [on |-> TRUE, state |-> "active", cal |-> made + 1, asked |-> 0]
  BY DEF ConnectOtherAccount, NewIdentity
<1>2. /\ settings'.cal = made + 1 /\ settings'.cal \in 1 .. made' /\ made' \in Nat
      /\ 1 .. made \subseteq 1 .. made' /\ \A c \in 1 .. made : c # settings'.cal
  BY <1>1, Shapes
<1>3. DOMAIN links' = {} /\ IsFiniteSet(DOMAIN links')
  BY <1>1, FS_EmptySet DEF NoLinks
<1>4. Numbered'
  BY <1>1, <1>2, <1>3 DEF CInv, Story, Numbered
<1>5. LinkShape' /\ SettingsShape' /\ LinkedEvents'
  BY <1>1, <1>3 DEF LinkShape, SettingsShape, LinkedEvents, NoLinks
<1>6. \A e \in events : e.cal # settings'.cal
  BY <1>2 DEF CInv, Story, Numbered
<1>7. LinksTellTheTruth'
  BY <1>1, <1>3, <1>6 DEF LinksTellTheTruth
<1>8. RunAgrees'
  BY <1>1, <1>2, Shapes DEF RunAgrees
<1> QED
  BY <1>4, <1>5, <1>7, <1>8 DEF Story

\* What the user clears in Google is unseen, unless it is between an answer and its link.
LEMMA RemovalTells ==
    ASSUME CInv, NEW es \in SUBSET events, NEW cs, UserRemoves(es, cs)
    PROVE  Story' /\ RunAgrees'
<1>1. /\ events' = events \ es /\ UNCHANGED <<links, settings, made, run>>
      /\ run.phase # "writing"
      /\ unseen' = unseen \cup {e.key : e \in {x \in es : x.cal = settings.cal}}
  BY DEF UserRemoves, db
<1>2. IsFiniteSet(events') /\ events' \subseteq events
  BY <1>1, Shapes, FS_Subset
<1>3. LinkShape' /\ SettingsShape' /\ Numbered' /\ LinkedEvents'
  BY <1>1, <1>2 DEF CInv, Story, LinkShape, SettingsShape, Numbered, LinkedEvents
<1>4. LinksTellTheTruth'
  <2>1. ASSUME NEW o \in DOMAIN links \ unseen', links[o].event # NoEvent
        PROVE  \E e \in events' :
                  /\ e.id = links[o].event /\ e.cal = settings.cal /\ e.key = o
                  /\ links[o].state = "synced" => e.text = links[o].text
    <3>1. PICK e \in events : /\ e.id = links[o].event /\ e.cal = settings.cal /\ e.key = o
                              /\ links[o].state = "synced" => e.text = links[o].text
      BY <1>1, <2>1 DEF CInv, Story, LinksTellTheTruth
    <3>2. e \notin es
      BY <1>1, <2>1, <3>1
    <3> QED
      BY <1>1, <3>1, <3>2
  <2>2. ASSUME NEW e \in events', e.cal = settings.cal, e.key \notin unseen'
        PROVE  e.key \in DOMAIN links /\ links[e.key].event = e.id
    BY <1>1, <1>2, <2>2 DEF CInv, Story, LinksTellTheTruth
  <2> QED
    BY <1>1, <2>1, <2>2 DEF LinksTellTheTruth
<1>5. RunAgrees'
  BY <1>1, <1>2, Shapes DEF RunAgrees, PlanAgrees, ActAgrees
<1> QED
  BY <1>3, <1>4, <1>5 DEF Story

\* A run that ends leaves nothing to agree with.
LEMMA EndTells ==
    ASSUME CInv, run' = NoRun, UNCHANGED <<links, events, made, unseen>>,
           settings'.cal = settings.cal, SettingsShape'
    PROVE  Story' /\ RunAgrees'
<1>1. made <= made' /\ made' \in Nat
  BY Shapes
<1>2. Story'
  BY <1>1, Shapes, StoryKept
<1>3. RunAgrees'
  BY DEF RunAgrees
<1> QED
  BY <1>2, <1>3

\* The run stops, asks, finishes or dies.
LEMMA EndsTell ==
    ASSUME CInv, Stops \/ Asks \/ Finishes \/ Crash
    PROVE  Story' /\ RunAgrees'
<1>1. run' = NoRun /\ UNCHANGED <<links, events, made, unseen>>
  BY DEF Stops, Asks, Finishes, Crash, Quiet, google
<1>2. settings'.cal = settings.cal /\ SettingsShape'
  BY Shapes DEF SettingsShape, Stops, Asks, Finishes, Crash, Quiet
<1> QED
  BY <1>1, <1>2, EndTells

\* A run begins with the links as they are, and plans nothing yet.
LEMMA ReadsTell ==
    ASSUME CInv, NEW trigger, NEW confirmed, NEW recovered, Reads(trigger, confirmed, recovered),
           Quiet
    PROVE  Story' /\ RunAgrees'
<1>1. /\ UNCHANGED <<links, events, made, unseen, settings>>
      /\ run'.cal = settings.cal /\ run'.phase = "reading" /\ run'.links = links /\ run'.plan = {}
  BY DEF Reads, Quiet, google
<1>2. made <= made' /\ made' \in Nat /\ SettingsShape' /\ settings.cal \in 1 .. made'
  BY <1>1, Shapes DEF SettingsShape
<1>3. Story'
  BY <1>1, <1>2, Shapes, StoryKept
<1>4. RunAgrees'
  BY <1>1, <1>2 DEF RunAgrees, PlanAgrees, ActAgrees, Acting
<1> QED
  BY <1>3, <1>4

\* A run starts, or starts again with the calendar it has made.
LEMMA StartsTell ==
    ASSUME CInv, StartsAgain \/ \E trigger \in {"automatic", "syncNow", "confirmMassDelete"} :
                                   Reconcile(trigger)
    PROVE  Story' /\ RunAgrees'
<1>1. Quiet
  BY DEF StartsAgain, Reconcile
<1>2. run' = NoRun \/ \E trigger, confirmed, recovered : Reads(trigger, confirmed, recovered)
  BY DEF StartsAgain, Reconcile
<1>3. CASE run' = NoRun
  <2>1. UNCHANGED <<links, events, made, unseen, settings>> /\ SettingsShape'
    BY <1>1, Shapes DEF Quiet, google, SettingsShape
  <2> QED
    BY <1>3, <2>1, EndTells
<1> QED
  BY <1>1, <1>2, <1>3, ReadsTell

\* The plan is made of links that still have the events read.
LEMMA PlansTell ==
    ASSUME CInv, ReadsTasks
    PROVE  Story' /\ RunAgrees'
<1> DEFINE plan == Plan(run.links, tasks, today)
<1>1. /\ UNCHANGED <<links, events, made, unseen, settings>> /\ run.phase = "reading"
  BY DEF ReadsTasks, Quiet, google
<1>2. run # NoRun
  BY <1>1 DEF NoRun
<1>3. \/ run' = [run EXCEPT !.phase = "asking", !.links = NoLinks]
      \/ \E n : run' = [run EXCEPT !.phase = "asking", !.used = n, !.links = NoLinks]
      \/ run' = [run EXCEPT !.phase = "working", !.plan = plan, !.links = NoLinks]
  BY DEF ReadsTasks
<1>4. /\ run'.cal = run.cal /\ run'.phase \in {"asking", "working"}
      /\ run'.plan = run.plan \/ run'.plan = plan
  BY <1>2, <1>3 DEF CInv, OInv, Shape
<1>5. made <= made' /\ made' \in Nat /\ SettingsShape'
  BY <1>1, Shapes DEF SettingsShape
<1>6. Story'
  BY <1>1, <1>5, Shapes, StoryKept
<1>7. ASSUME run.cal = settings.cal
      PROVE  PlanAgrees' /\ ActAgrees'
  <2>1. PlanAgrees
    BY <1>2, <1>7 DEF CInv, RunAgrees
  <2>2. \A a \in plan : /\ a.event = EventOf(run.links, a.key)
                        /\ a.do \in {"create", "purge"} => a.event = NoEvent
                        /\ a.do = "detach" => a.to # "synced"
                        /\ \A b \in plan : a.key = b.key => a = b
    BY PlanIs
  <2>3. \A o : EventOf(run.links, o) = EventOf(links, o)
    BY <1>1, <2>1 DEF PlanAgrees, EventOf
  <2> HIDE DEF plan
  <2>4. PlanAgrees'
    BY <1>1, <1>4, <2>1, <2>2, <2>3 DEF PlanAgrees
  <2>5. ActAgrees'
    BY <1>4 DEF ActAgrees, Acting
  <2> QED
    BY <2>4, <2>5
<1>8. RunAgrees'
  <2>1. run.cal \in 1 .. made'
    BY <1>1, <1>2 DEF CInv, RunAgrees
  <2> QED
    BY <1>1, <1>4, <1>7, <2>1 DEF RunAgrees
<1> QED
  BY <1>6, <1>8

\* Actions that are not taken.
LEMMA SkipsTell ==
    ASSUME CInv, LeavesTheRest \/ \E a : SkipsForBackoff(a)
    PROVE  Story' /\ RunAgrees'
<1>1. UNCHANGED <<links, events, made, unseen, settings>> /\ run.phase = "working"
  BY DEF LeavesTheRest, SkipsForBackoff, Guarded, Quiet, google
<1>2. run # NoRun
  BY <1>1 DEF NoRun
<1>3. run' = [run EXCEPT !.plan = run'.plan] /\ run'.plan \subseteq run.plan
  BY <1>2 DEF LeavesTheRest, SkipsForBackoff, OfKind, CInv, OInv, Shape
<1>4. run'.cal = run.cal /\ run'.phase = "working"
  BY <1>1, <1>2, <1>3 DEF CInv, OInv, Shape
<1>5. made <= made' /\ made' \in Nat /\ SettingsShape'
  BY <1>1, Shapes DEF SettingsShape
<1>6. Story'
  BY <1>1, <1>5, Shapes, StoryKept
<1>7. ActAgrees'
  BY <1>4 DEF ActAgrees, Acting
<1>8. RunAgrees'
  BY <1>1, <1>2, <1>3, <1>4, <1>5, <1>7, Shapes, RunMoves
<1> QED
  BY <1>6, <1>8

\* A detached link keeps its event.
LEMMA DetachTells ==
    ASSUME CInv, UNCHANGED <<events, made, settings, unseen>>, NEW o, NEW state,
           state # "synced", links' = Detach(o, state)
    PROVE  Story' /\ \A x : EventOf(links', x) = EventOf(links, x)
<1>1. CASE o \notin DOMAIN links
  <2>1. links' = links /\ settings' = settings /\ made <= made'
    BY <1>1, Shapes DEF Detach
  <2>2. SettingsShape' /\ settings'.cal = settings.cal /\ made' \in Nat
    BY <2>1, Shapes DEF SettingsShape
  <2>3. Story'
    BY <2>1, <2>2, Shapes, StoryKept
  <2> QED
    BY <2>1, <2>3
<1>2. CASE o \in DOMAIN links
  <2>1. PICK l : l = links[o]
    OBVIOUS
  <2>2. l = [state |-> l.state, event |-> EventOf(links, o), text |-> l.text,
             backoff |-> l.backoff]
    BY <1>2, <2>1, Shapes DEF LinkShape, EventOf
  <2>3. PICK m : m = [Touched(l) EXCEPT !.state = state]
    OBVIOUS
  <2>4. Touched(l) = [state |-> l.state, event |-> EventOf(links, o), text |-> l.text,
                       backoff |-> IF l.backoff = "none" THEN "none" ELSE "waiting"]
    BY <2>2 DEF Touched
  <2>5. m = [state |-> state, event |-> EventOf(links, o), text |-> m.text, backoff |-> m.backoff]
    BY <2>3, <2>4
  <2>6. links' = [links EXCEPT ![o] = m]
    BY <1>2, <2>1, <2>3 DEF Detach
  <2>7. links = [x \in DOMAIN links |-> links[x]]
    BY Shapes DEF LinkShape
  <2>8. links' = Saved(o, m)
    BY <1>2, <2>6, <2>7 DEF Saved
  <2>9. m.state # "synced" /\ m.event = EventOf(links, o)
    BY <2>5
  <2>10. m = [state |-> m.state, event |-> EventOf(links, o), text |-> m.text,
              backoff |-> m.backoff]
    BY <2>5
  <2> QED
    BY <2>8, <2>9, <2>10, SavedTells
<1> QED
  BY <1>1, <1>2

\* A link without an event is not missed.
LEMMA WithoutTells ==
    ASSUME CInv, UNCHANGED <<events, made, settings, unseen>>, NEW o,
           EventOf(links, o) = NoEvent, links' = Without(links, o)
    PROVE  Story' /\ \A x : EventOf(links', x) = EventOf(links, x)
<1>1. DOMAIN links' = DOMAIN links \ {o} /\ \A x \in DOMAIN links' : links'[x] = links[x]
  BY DEF Without, Restrict
<1>2. \A x : EventOf(links', x) = EventOf(links, x)
  BY <1>1 DEF EventOf
<1>3. LinkShape'
  <2>1. links' = [x \in DOMAIN links' |-> links'[x]]
    BY DEF Without, Restrict
  <2> QED
    BY <1>1, <2>1, Shapes DEF LinkShape
<1>4. IsFiniteSet(DOMAIN links')
  BY <1>1, Shapes, FS_Subset
<1>5. SettingsShape' /\ settings'.cal = settings.cal /\ made' \in Nat /\ made <= made'
  BY Shapes DEF SettingsShape
<1>6. \A x \in DOMAIN links' : links'[x].state = "synced" /\ links'[x].event # NoEvent =>
         x \in DOMAIN links /\ links[x].state = "synced" /\ links[x].text = links'[x].text
  BY <1>1
<1> QED
  BY <1>2, <1>3, <1>4, <1>5, <1>6, Shapes, LinksKept

\* The run goes on to the next action, with each link on the event it had.
LEMMA OnTells ==
    ASSUME CInv, run # NoRun, UNCHANGED <<made, settings>>, run'.cal = run.cal,
           run'.phase = "working", run'.plan \subseteq run.plan,
           \A o : EventOf(links', o) = EventOf(links, o)
    PROVE  RunAgrees'
<1>1. ActAgrees'
  BY DEF ActAgrees, Acting
<1>2. made <= made'
  BY Shapes
<1> QED
  BY <1>1, <1>2, Shapes, RunMoves

\* A failure is recorded over the event that the link has.
LEMMA FailureTells ==
    ASSUME CInv, RecordsFailure
    PROVE  Story' /\ RunAgrees'
<1>1. /\ run.phase = "failing" /\ run.cal = settings.cal
      /\ UNCHANGED <<events, made, settings, unseen>>
      /\ run' = [run EXCEPT !.phase = "working", !.act = NoAct, !.hit = NoEvent]
      /\ links' = SavedLink("failed", "waiting", run.act.event) \/ links' = links
  BY DEF RecordsFailure, Guarded, SameConnection, google
<1>2. run # NoRun
  BY <1>1 DEF NoRun
<1>3. run'.cal = run.cal /\ run'.phase = "working" /\ run'.plan = run.plan
  BY <1>1, <1>2 DEF CInv, OInv, Shape
<1>4. run.act.event = EventOf(links, run.act.key)
  BY <1>1, <1>2 DEF CInv, RunAgrees, ActAgrees, Acting
<1>5. Story' /\ \A x : EventOf(links', x) = EventOf(links, x)
  <2>1. CASE links' = links
    <3>1. SettingsShape' /\ settings'.cal = settings.cal /\ made' \in Nat /\ made <= made'
      BY <1>1, Shapes DEF SettingsShape
    <3> QED
      BY <1>1, <2>1, <3>1, Shapes, StoryKept
  <2>2. CASE links' = SavedLink("failed", "waiting", run.act.event)
    <3>1. PICK l : l = [state |-> "failed", event |-> EventOf(links, run.act.key),
                        text |-> run.act.text, backoff |-> "waiting"]
      OBVIOUS
    <3>2. links' = Saved(run.act.key, l)
      BY <1>4, <2>2, <3>1 DEF SavedLink
    <3>3. /\ l = [state |-> l.state, event |-> EventOf(links, run.act.key), text |-> l.text,
                  backoff |-> l.backoff]
          /\ l.state # "synced"
      BY <3>1
    <3> QED
      BY <1>1, <3>2, <3>3, SavedTells
  <2> QED
    BY <1>1, <2>1, <2>2
<1> QED
  BY <1>1, <1>2, <1>3, <1>5, OnTells

\* An event that is gone leaves its link for good, still on that event.
LEMMA MissingTells ==
    ASSUME CInv, MissingRemote
    PROVE  Story' /\ RunAgrees'
<1>1. /\ run.phase = "missing"
      /\ UNCHANGED <<events, made, settings, unseen>>
      /\ run' = [run EXCEPT !.phase = "working", !.act = NoAct, !.hit = NoEvent]
      /\ links' = Detach(run.act.key, "final")
  BY DEF MissingRemote, Guarded, google
<1>2. run # NoRun
  BY <1>1 DEF NoRun
<1>3. run'.cal = run.cal /\ run'.phase = "working" /\ run'.plan = run.plan
  BY <1>1, <1>2 DEF CInv, OInv, Shape
<1>4. Story' /\ \A x : EventOf(links', x) = EventOf(links, x)
  BY <1>1, DetachTells
<1> QED
  BY <1>1, <1>2, <1>3, <1>4, OnTells

\* What is done without Google drops no link that has an event.
LEMMA LocalTells ==
    ASSUME CInv, NEW a, ActsLocally(a)
    PROVE  Story' /\ RunAgrees'
<1>1. /\ run.phase = "working" /\ run.cal = settings.cal /\ a \in run.plan
      /\ UNCHANGED <<events, made, settings, unseen>>
      /\ run' = [run EXCEPT !.plan = @ \ {a}]
      /\ \/ a.do = "detach" /\ links' = Detach(a.key, a.to)
         \/ a.do = "purge" /\ links' = Without(links, a.key)
         \/ a.event = NoEvent /\ links' = Without(links, a.key)
  <2>1. /\ run.phase = "working" /\ run.cal = settings.cal /\ a \in FirstOf(run.plan)
        /\ UNCHANGED <<events, made, settings, unseen>>
        /\ run' = [run EXCEPT !.plan = @ \ {a}]
        /\ \/ a.do = "detach" /\ links' = Detach(a.key, a.to)
           \/ a.do = "purge" /\ links' = Without(links, a.key)
           \/ a.event = NoEvent /\ links' = Without(links, a.key)
    BY DEF ActsLocally, Chosen, Guarded, SameConnection, google
  <2>2. a \in run.plan
    BY <2>1 DEF FirstOf, OfKind
  <2> QED
    BY <2>1, <2>2
<1>2. run # NoRun
  BY <1>1 DEF NoRun
<1>3. run'.cal = run.cal /\ run'.phase = "working" /\ run'.plan \subseteq run.plan
  BY <1>1, <1>2 DEF CInv, OInv, Shape
<1>4. /\ a.event = EventOf(links, a.key)
      /\ a.do = "purge" => a.event = NoEvent
      /\ a.do = "detach" => a.to # "synced"
  BY <1>1, <1>2, Chooses
<1>5. Story' /\ \A x : EventOf(links', x) = EventOf(links, x)
  <2>1. CASE a.do = "detach" /\ links' = Detach(a.key, a.to)
    BY <1>1, <1>4, <2>1, DetachTells
  <2>2. CASE EventOf(links, a.key) = NoEvent /\ links' = Without(links, a.key)
    BY <1>1, <2>2, WithoutTells
  <2> QED
    BY <1>1, <1>4, <2>1, <2>2
<1> QED
  BY <1>1, <1>2, <1>3, <1>5, OnTells

\* Google changes only for occurrences that are unseen from then on.
LEMMA EventsMove ==
    ASSUME CInv, UNCHANGED <<links, settings, made>>, unseen \subseteq unseen',
           IsFiniteSet(events'), LinkedEvents',
           \A e \in events' : e.id \in Nat \ {0} /\ e.cal \in 1 .. made,
           \A e, f \in events' : e.id = f.id => e = f,
           \A e : e.cal = settings.cal /\ e.key \notin unseen' => (e \in events' <=> e \in events)
    PROVE  Story'
<1>1. LinkShape' /\ SettingsShape' /\ Numbered'
  BY DEF CInv, Story, LinkShape, SettingsShape, Numbered
<1>2. ASSUME NEW o \in DOMAIN links \ unseen', links[o].event # NoEvent
      PROVE  \E e \in events' :
                /\ e.id = links[o].event /\ e.cal = settings.cal /\ e.key = o
                /\ links[o].state = "synced" => e.text = links[o].text
  <2>1. PICK e \in events : /\ e.id = links[o].event /\ e.cal = settings.cal /\ e.key = o
                            /\ links[o].state = "synced" => e.text = links[o].text
    BY <1>2 DEF CInv, Story, LinksTellTheTruth
  <2>2. e \in events'
    BY <1>2, <2>1
  <2> QED
    BY <2>1, <2>2
<1>3. ASSUME NEW e \in events', e.cal = settings.cal, e.key \notin unseen'
      PROVE  e.key \in DOMAIN links /\ links[e.key].event = e.id
  <2>1. e \in events /\ e.key \notin unseen
    BY <1>3
  <2> QED
    BY <1>3, <2>1 DEF CInv, Story, LinksTellTheTruth
<1>4. LinksTellTheTruth'
  BY <1>2, <1>3 DEF LinksTellTheTruth
<1> QED
  BY <1>1, <1>4 DEF Story

\* The run takes an action of its plan in hand.
LEMMA Takes ==
    ASSUME CInv, NEW a \in run.plan, run # NoRun, run.cal = settings.cal,
           UNCHANGED <<links, settings, made>>, run'.cal = run.cal, run'.act = a,
           run'.plan \subseteq run.plan \ {a}, run'.phase \notin {"reading", "adopting"},
           run'.phase = "inserting" => a.do = "create",
           run'.phase = "writing" =>
              /\ IF a.do = "delete"
                 THEN \A e \in events' : ~(e.cal = run.cal /\ e.key = a.key)
                 ELSE \E e \in events' : /\ e.id = run'.hit /\ e.cal = run.cal /\ e.key = a.key
                                         /\ run'.sure => e.text = a.text
              /\ run'.sure \/ a.key \in unseen'
    PROVE  RunAgrees'
<1>1. /\ a.event = EventOf(links, a.key)
      /\ a.do = "create" => a.event = NoEvent
      /\ \A b \in run.plan \ {a} : b.key # a.key
  BY Chooses
<1>2. /\ run'.phase \in Acting => run'.act.event = EventOf(links', run'.act.key)
                                 /\ \A b \in run'.plan : b.key # run'.act.key
      /\ run'.phase = "inserting" => run'.act.event = NoEvent /\ run'.act.do = "create"
  BY <1>1
<1>3. run'.phase = "writing" =>
         /\ IF run'.act.do = "delete"
            THEN \A e \in events' : ~(e.cal = run'.cal /\ e.key = run'.act.key)
            ELSE \E e \in events' : /\ e.id = run'.hit /\ e.cal = run'.cal
                                    /\ e.key = run'.act.key
                                    /\ run'.sure => e.text = run'.act.text
         /\ run'.sure \/ run'.act.key \in unseen'
  OBVIOUS
<1>4. ActAgrees'
  BY <1>2, <1>3 DEF ActAgrees
<1>5. made <= made'
  BY Shapes
<1> QED
  BY <1>4, <1>5, Shapes, RunMoves

\* What a step that asks something of Google starts from.
LEMMA RemoteIs ==
    ASSUME CInv, NEW a, NEW do, Remote(a, do)
    PROVE  /\ run.phase = "working" /\ run # NoRun /\ run.cal = settings.cal /\ a \in run.plan
           /\ a.do = do /\ a.event = EventOf(links, a.key)
           /\ do # "create" => a.event # NoEvent
           /\ do = "create" => a.event = NoEvent
<1>1. /\ run.phase = "working" /\ run.cal = settings.cal /\ a \in FirstOf(run.plan) /\ a.do = do
      /\ do # "create" => a.event # NoEvent
  BY DEF Remote, Chosen, Guarded, SameConnection
<1>2. a \in run.plan
  BY <1>1 DEF FirstOf, OfKind
<1>3. run # NoRun
  BY <1>1 DEF NoRun
<1> QED
  BY <1>1, <1>2, <1>3, Chooses

\* A run that has just taken an action in hand.
LEMMA AfterIs ==
    ASSUME CInv, run # NoRun, NEW a, NEW phase
    PROVE  After(a, phase) =
             [phase |-> phase, trigger |-> run.trigger, confirmed |-> run.confirmed,
              recovered |-> run.recovered, cal |-> run.cal, state |-> run.state,
              links |-> run.links, plan |-> run.plan \ {a}, used |-> run.used + 1, act |-> a,
              hit |-> run.hit, sure |-> run.sure]
<1>1. run =
        [phase |-> run.phase, trigger |-> run.trigger, confirmed |-> run.confirmed,
         recovered |-> run.recovered, cal |-> run.cal, state |-> run.state,
         links |-> run.links, plan |-> run.plan, used |-> run.used, act |-> run.act,
         hit |-> run.hit, sure |-> run.sure]
  BY DEF CInv, OInv, Shape
<1>2. PICK p : p = [run EXCEPT !.plan = @ \ {a}, !.act = a]
  OBVIOUS
<1>3. p = [phase |-> run.phase, trigger |-> run.trigger, confirmed |-> run.confirmed,
           recovered |-> run.recovered, cal |-> run.cal, state |-> run.state,
           links |-> run.links, plan |-> run.plan \ {a}, used |-> run.used, act |-> a,
           hit |-> run.hit, sure |-> run.sure]
  BY <1>1, <1>2
<1>4. PICK q : q = [p EXCEPT !.used = @ + 1]
  OBVIOUS
<1>5. q = [phase |-> run.phase, trigger |-> run.trigger, confirmed |-> run.confirmed,
           recovered |-> run.recovered, cal |-> run.cal, state |-> run.state,
           links |-> run.links, plan |-> run.plan \ {a}, used |-> run.used + 1, act |-> a,
           hit |-> run.hit, sure |-> run.sure]
  BY <1>3, <1>4
<1>6. After(a, phase) = [q EXCEPT !.phase = phase]
  BY <1>2, <1>4 DEF After
<1> QED
  BY <1>5, <1>6

\* The lookup finds what a create would make again: that event has no link yet.
LEMMA LooksTell ==
    ASSUME CInv, NEW a, Looks(a)
    PROVE  Story' /\ RunAgrees'
<1> DEFINE hits == At(a.key)
           lowest == Min({e.id : e \in hits})
<1>1. Remote(a, "create")
  BY DEF Looks
<1>2. /\ run.phase = "working" /\ run # NoRun /\ run.cal = settings.cal /\ a \in run.plan
      /\ a.do = "create" /\ a.event = EventOf(links, a.key) /\ a.event = NoEvent
  BY <1>1, RemoteIs
<1>3. PICK r : r = After(a, "inserting")
  OBVIOUS
<1>4. r = [phase |-> "inserting", trigger |-> run.trigger, confirmed |-> run.confirmed,
           recovered |-> run.recovered, cal |-> run.cal, state |-> run.state,
           links |-> run.links, plan |-> run.plan \ {a}, used |-> run.used + 1, act |-> a,
           hit |-> run.hit, sure |-> run.sure]
  BY <1>2, <1>3, AfterIs
<1>5. /\ UNCHANGED <<links, settings, unseen, made>>
      /\ \/ events' = events /\ NotFound(r, "recovering")
         \/ events' = events /\ run' = r
         \/ /\ hits # {} /\ run' = [r EXCEPT !.phase = "writing", !.hit = lowest, !.sure = FALSE]
            /\ events' = events \ {e \in hits : e.id # lowest}
         \/ events' = events /\ Refused(r)
  BY <1>3 DEF Looks, google
<1>6. CASE /\ hits # {} /\ run' = [r EXCEPT !.phase = "writing", !.hit = lowest, !.sure = FALSE]
           /\ events' = events \ {e \in hits : e.id # lowest}
  <2>1. PICK h : h \in hits
    BY <1>6
  <2>2. h \in events /\ h.cal = run.cal /\ h.key = a.key
    BY <2>1 DEF At
  <2>3. hits = {h}
    BY <2>1, <2>2, Shapes DEF At, OneEvent
  <2>4. h.id \in Nat \ {0}
    BY <2>2 DEF CInv, Story, Numbered
  <2>5. {e.id : e \in hits} = {h.id}
    BY <2>3
  <2>6. lowest = h.id
    <3>1. \A x \in {h.id} : x <= h.id
      BY <2>4
    <3> QED
      BY <2>4, <2>5, <3>1 DEF Min
  <2> HIDE DEF hits, lowest
  <2>7. events' = events
    BY <1>6, <2>3, <2>6
  <2>8. a.key \in unseen
    <3>1. SUFFICES ASSUME a.key \notin unseen
                   PROVE  FALSE
      OBVIOUS
    <3>2. a.key \in DOMAIN links /\ links[a.key].event = h.id
      BY <1>2, <2>2, <3>1 DEF CInv, Story, LinksTellTheTruth
    <3> QED
      BY <1>2, <2>4, <3>2 DEF EventOf, NoEvent
  <2>9. /\ run'.cal = run.cal /\ run'.act = a /\ run'.plan = run.plan \ {a}
        /\ run'.phase = "writing" /\ run'.hit = h.id /\ run'.sure = FALSE
    BY <1>4, <1>6, <2>6
  <2>10. RunAgrees'
    BY <1>2, <1>5, <2>2, <2>7, <2>8, <2>9, Takes
  <2>11. SettingsShape' /\ made' \in Nat /\ made <= made'
    BY <1>5, Shapes DEF SettingsShape
  <2>12. Story'
    BY <1>5, <2>7, <2>11, Shapes, StoryKept
  <2> QED
    BY <2>10, <2>12
<1>7. CASE events' = events /\ (NotFound(r, "recovering") \/ run' = r \/ Refused(r))
  <2>1. /\ run'.cal = run.cal /\ run'.act = a /\ run'.plan \subseteq run.plan \ {a}
        /\ run'.phase \in {"failing", "recovering", "inserting", "limited", "unauthorized"}
    <3>1. CASE NotFound(r, "recovering") \/ run' = r
      BY <1>4, <3>1 DEF NotFound
    <3>2. CASE Refused(r)
      BY <1>4, <3>2 DEF Refused
    <3> QED
      BY <1>7, <3>1, <3>2
  <2>2. RunAgrees'
    BY <1>2, <1>5, <2>1, Takes
  <2>3. SettingsShape' /\ made' \in Nat /\ made <= made'
    BY <1>5, Shapes DEF SettingsShape
  <2>4. Story'
    BY <1>5, <1>7, <2>3, Shapes, StoryKept
  <2> QED
    BY <2>2, <2>4
<1> QED
  BY <1>5, <1>6, <1>7

\* An insert goes out to the calendar that the run has read, whichever is connected by now.
LEMMA InsertsTell ==
    ASSUME CInv, Inserts
    PROVE  Story' /\ RunAgrees'
<1> DEFINE new == [id |-> UnusedId, cal |-> run.cal, key |-> run.act.key, text |-> run.act.text]
<1>1. /\ run.phase = "inserting" /\ UNCHANGED <<links, settings, made>>
      /\ \/ /\ run' = [run EXCEPT !.phase = "writing", !.hit = new.id, !.sure = TRUE]
            /\ Changes(events \cup {new})
         \/ run' = [run EXCEPT !.phase = "failing"] /\ Changes(events \cup {new})
         \/ UNCHANGED <<events, unseen>> /\ (NotFound(run, "recovering_late") \/ Refused(run))
  <2>1. /\ run.phase = "inserting" /\ UNCHANGED <<links, settings>>
        /\ \/ /\ run' = [run EXCEPT !.phase = "writing", !.hit = new.id, !.sure = TRUE]
              /\ Changes(events \cup {new})
           \/ run' = [run EXCEPT !.phase = "failing"] /\ Changes(events \cup {new})
           \/ Changeless /\ (NotFound(run, "recovering_late") \/ Refused(run))
    BY DEF Inserts
  <2> HIDE DEF new
  <2>2. \A es : Changes(es) => made' = made
    BY DEF Changes
  <2>3. Changeless => UNCHANGED <<events, unseen, made>>
    BY DEF Changeless, google
  <2> QED
    BY <2>1, <2>2, <2>3
<1>2. run # NoRun
  BY <1>1 DEF NoRun
<1>3. run = [phase |-> run.phase, trigger |-> run.trigger, confirmed |-> run.confirmed,
             recovered |-> run.recovered, cal |-> run.cal, state |-> run.state,
             links |-> run.links, plan |-> run.plan, used |-> run.used, act |-> run.act,
             hit |-> run.hit, sure |-> run.sure]
  BY <1>2 DEF CInv, OInv, Shape
<1>4. run.cal = settings.cal =>
         /\ run.act.event = EventOf(links, run.act.key) /\ run.act.event = NoEvent
         /\ run.act.do = "create" /\ \A a \in run.plan : a.key # run.act.key
  <2>1. SUFFICES ASSUME run.cal = settings.cal
                 PROVE  /\ run.act.event = EventOf(links, run.act.key) /\ run.act.event = NoEvent
                        /\ run.act.do = "create" /\ \A a \in run.plan : a.key # run.act.key
    OBVIOUS
  <2>2. run.phase = "inserting" /\ ActAgrees
    BY <1>1, <1>2, <2>1, Shapes DEF RunAgrees
  <2> QED
    BY <2>2 DEF ActAgrees, Acting
<1>5. settings' = settings /\ made' \in Nat /\ made <= made' /\ SettingsShape'
  BY <1>1, Shapes DEF SettingsShape
<1>6. CASE /\ events' = events \cup {new} /\ unseen' = Unsettled(run.act.key)
           /\ run'.cal = run.cal /\ run'.act = run.act /\ run'.plan = run.plan
           /\ \/ run'.phase = "writing" /\ run'.hit = UnusedId /\ run'.sure = TRUE
              \/ run'.phase = "failing"
  <2>1. /\ UnusedId \in Nat \ {0} /\ \A e \in events : e.id # UnusedId
        /\ \A o \in DOMAIN links : links[o].event # UnusedId
    BY UnusedIdIs DEF CInv, Story
  <2>2. /\ unseen \subseteq unseen'
        /\ run.cal = settings.cal => run.act.key \in unseen'
    BY <1>6 DEF Unsettled
  <2>3. IsFiniteSet(events')
    BY <1>6, Shapes, FS_AddElement
  <2>4. /\ \A e \in events' : e.id \in Nat \ {0} /\ e.cal \in 1 .. made
        /\ \A e, f \in events' : e.id = f.id => e = f
    <3>1. run.cal \in 1 .. made
      BY <1>2 DEF CInv, RunAgrees
    <3>2. /\ \A e \in events : e.id \in Nat \ {0} /\ e.cal \in 1 .. made
          /\ \A e, f \in events : e.id = f.id => e = f
      BY DEF CInv, Story, Numbered
    <3> QED
      BY <1>6, <2>1, <3>1, <3>2
  <2>5. LinkedEvents'
    <3> SUFFICES ASSUME NEW o \in DOMAIN links, NEW e \in events'
                 PROVE  /\ links[o].event = e.id => e.key = o
                        /\ links[o].event # NoEvent /\ e.cal = settings.cal /\ e.key = o =>
                              e.id = links[o].event
      BY <1>1 DEF LinkedEvents
    <3>1. CASE e \in events
      BY <3>1 DEF CInv, Story, LinkedEvents
    <3>2. CASE e = new
      BY <1>4, <2>1, <3>2 DEF EventOf
    <3> QED
      BY <1>6, <3>1, <3>2
  <2>6. \A e : e.cal = settings.cal /\ e.key \notin unseen' => (e \in events' <=> e \in events)
    BY <1>6, <2>2
  <2>7. Story'
    BY <1>1, <2>2, <2>3, <2>4, <2>5, <2>6, EventsMove
  <2>8. ASSUME run.cal = settings.cal
        PROVE  ActAgrees'
    <3>1. run'.phase \in Acting => run'.act.event = EventOf(links', run'.act.key)
                                  /\ \A a \in run'.plan : a.key # run'.act.key
      BY <1>1, <1>4, <1>6, <2>8
    <3>2. run'.phase # "inserting"
      BY <1>6
    <3>3. run'.phase = "writing" =>
             /\ run'.act.do # "delete" /\ run'.sure
             /\ \E e \in events' : /\ e.id = run'.hit /\ e.cal = run'.cal /\ e.key = run'.act.key
                                   /\ run'.sure => e.text = run'.act.text
      <4>1. new \in events' /\ new.id = UnusedId /\ new.cal = run.cal /\ new.key = run.act.key
            /\ new.text = run.act.text
        BY <1>6
      <4> HIDE DEF new
      <4> QED
        BY <1>4, <1>6, <2>8, <4>1
    <3> QED
      BY <3>1, <3>2, <3>3 DEF ActAgrees
  <2>9. RunAgrees'
    BY <1>1, <1>2, <1>5, <1>6, <2>8, Shapes, RunMoves
  <2> QED
    BY <2>7, <2>9
<1>7. CASE /\ UNCHANGED <<events, unseen>>
           /\ NotFound(run, "recovering_late") \/ Refused(run)
  <2>1. /\ run'.cal = run.cal /\ run'.act = run.act /\ run'.plan \subseteq run.plan
        /\ run'.phase \in {"recovering_late", "failing", "limited", "unauthorized"}
    <3>1. CASE NotFound(run, "recovering_late")
      BY <1>3, <3>1 DEF NotFound
    <3>2. CASE Refused(run)
      BY <1>3, <3>2 DEF Refused
    <3> QED
      BY <1>7, <3>1, <3>2
  <2>2. run.cal = settings.cal => ActAgrees'
    BY <1>1, <1>4, <2>1 DEF ActAgrees, Acting
  <2>3. RunAgrees'
    BY <1>1, <1>2, <1>5, <2>1, <2>2, Shapes, RunMoves
  <2>4. Story'
    BY <1>1, <1>5, <1>7, Shapes, StoryKept
  <2> QED
    BY <2>3, <2>4
<1>8. \/ /\ UNCHANGED <<events, unseen>>
         /\ NotFound(run, "recovering_late") \/ Refused(run)
      \/ /\ events' = events \cup {new} /\ unseen' = Unsettled(run.act.key)
         /\ run'.cal = run.cal /\ run'.act = run.act /\ run'.plan = run.plan
         /\ \/ run'.phase = "writing" /\ run'.hit = UnusedId /\ run'.sure = TRUE
            \/ run'.phase = "failing"
  <2>1. CASE run' = [run EXCEPT !.phase = "writing", !.hit = new.id, !.sure = TRUE]
             /\ Changes(events \cup {new})
    <3>1. /\ run'.cal = run.cal /\ run'.act = run.act /\ run'.plan = run.plan
          /\ run'.phase = "writing" /\ run'.hit = UnusedId /\ run'.sure = TRUE
      BY <1>3, <2>1
    <3> QED
      BY <2>1, <3>1 DEF Changes
  <2>2. CASE run' = [run EXCEPT !.phase = "failing"] /\ Changes(events \cup {new})
    <3>1. /\ run'.cal = run.cal /\ run'.act = run.act /\ run'.plan = run.plan
          /\ run'.phase = "failing"
      BY <1>3, <2>2
    <3> QED
      BY <2>2, <3>1 DEF Changes
  <2> QED
    BY <1>1, <2>1, <2>2
<1> QED
  BY <1>6, <1>7, <1>8

\* A refused call goes no further, or stops the run at its next step.
LEMMA RefusedIs ==
    ASSUME NEW r, Refused(r),
           r = [phase |-> r.phase, trigger |-> r.trigger, confirmed |-> r.confirmed,
                recovered |-> r.recovered, cal |-> r.cal, state |-> r.state,
                links |-> r.links, plan |-> r.plan, used |-> r.used, act |-> r.act,
                hit |-> r.hit, sure |-> r.sure]
    PROVE  /\ run'.cal = r.cal /\ run'.act = r.act /\ run'.plan \subseteq r.plan
           /\ run'.phase \in {"failing", "limited", "unauthorized"}
<1>1. CASE run' = [r EXCEPT !.phase = "failing"]
  BY <1>1
<1>2. CASE run' = [r EXCEPT !.phase = "limited", !.plan = {}]
  BY <1>2
<1>3. CASE run' = [r EXCEPT !.phase = "unauthorized", !.plan = {}]
  BY <1>3
<1> QED
  BY <1>1, <1>2, <1>3 DEF Refused

\* The event that an action is for is its occurrence's, wherever it still is.
LEMMA EventIs ==
    ASSUME CInv, NEW a, a.event = EventOf(links, a.key), a.event # NoEvent
    PROVE  /\ \A e \in events : e.id = a.event => e.key = a.key
           /\ \A e \in events : e.cal = settings.cal /\ e.key = a.key => e.id = a.event
<1>1. a.key \in DOMAIN links /\ links[a.key].event = a.event
  BY DEF EventOf
<1>2. LinkedEvents
  BY DEF CInv, Story
<1> QED
  BY <1>1, <1>2 DEF LinkedEvents

\* An update changes one event, that of its link.
LEMMA PatchesTell ==
    ASSUME CInv, NEW a, Patches(a)
    PROVE  Story' /\ RunAgrees'
<1> DEFINE es == {e \in events : e.cal = run.cal /\ e.id = a.event}
           patched == (events \ es) \cup {[e EXCEPT !.text = a.text] : e \in es}
<1>1. Remote(a, "update")
  BY DEF Patches
<1>2. /\ run.phase = "working" /\ run # NoRun /\ run.cal = settings.cal /\ a \in run.plan
      /\ a.do = "update" /\ a.event = EventOf(links, a.key) /\ a.event # NoEvent
  BY <1>1, RemoteIs
<1>3. PICK w : w = After(a, "writing")
  OBVIOUS
<1>4. w = [phase |-> "writing", trigger |-> run.trigger, confirmed |-> run.confirmed,
           recovered |-> run.recovered, cal |-> run.cal, state |-> run.state,
           links |-> run.links, plan |-> run.plan \ {a}, used |-> run.used + 1, act |-> a,
           hit |-> run.hit, sure |-> run.sure]
  BY <1>2, <1>3, AfterIs
<1>5. PICK r : r = [w EXCEPT !.hit = a.event, !.sure = TRUE]
  OBVIOUS
<1>6. /\ r.phase = "writing" /\ r.cal = run.cal /\ r.plan = run.plan \ {a} /\ r.act = a
      /\ r.hit = a.event /\ r.sure = TRUE
      /\ r = [phase |-> r.phase, trigger |-> r.trigger, confirmed |-> r.confirmed,
              recovered |-> r.recovered, cal |-> r.cal, state |-> r.state,
              links |-> r.links, plan |-> r.plan, used |-> r.used, act |-> r.act,
              hit |-> r.hit, sure |-> r.sure]
  BY <1>4, <1>5
<1>7. /\ UNCHANGED <<links, settings>>
      /\ \/ es # {} /\ run' = r /\ Changes(patched)
         \/ es # {} /\ run' = [r EXCEPT !.phase = "failing"] /\ Changes(patched)
         \/ run' = [r EXCEPT !.phase = "missing"] /\ Changeless
         \/ Refused(r) /\ Changeless
  BY <1>3, <1>5 DEF Patches
<1> HIDE DEF es, patched
<1>8. /\ UNCHANGED made /\ run'.cal = run.cal /\ run'.act = a /\ run'.plan \subseteq run.plan \ {a}
      /\ run'.phase \in {"writing", "failing", "missing", "limited", "unauthorized"}
      /\ \/ es # {} /\ Changes(patched)
         \/ Changeless
      /\ run'.phase = "writing" => es # {} /\ Changes(patched) /\ run' = r
  <2>1. CASE es # {} /\ run' = r /\ Changes(patched)
    BY <1>6, <2>1 DEF Changes
  <2>2. CASE es # {} /\ run' = [r EXCEPT !.phase = "failing"] /\ Changes(patched)
    BY <1>6, <2>2 DEF Changes
  <2>3. CASE run' = [r EXCEPT !.phase = "missing"] /\ Changeless
    BY <1>6, <2>3 DEF Changeless, google
  <2>4. CASE Refused(r) /\ Changeless
    <3>1. UNCHANGED made
      BY <2>4 DEF Changeless, google
    <3> QED
      BY <1>6, <2>4, <3>1, RefusedIs
  <2> QED
    BY <1>7, <2>1, <2>2, <2>3, <2>4
<1>9. CASE es # {} /\ Changes(patched)
  <2>1. PICK h : h \in es
    BY <1>9
  <2>2. h \in events /\ h.cal = run.cal /\ h.id = a.event /\ h.key = a.key
    BY <1>2, <2>1, EventIs DEF es
  <2>3. es = {h}
    BY <2>1, <2>2 DEF es, CInv, Story, Numbered
  <2>4. PICK g : g = [id |-> a.event, cal |-> run.cal, key |-> a.key, text |-> a.text]
    OBVIOUS
  <2>5. [h EXCEPT !.text = a.text] = g
    BY <2>2, <2>4, Shapes DEF EventShape
  <2>6. patched = (events \ {h}) \cup {g}
    BY <2>3, <2>5 DEF patched
  <2>7. /\ events' = (events \ {h}) \cup {g} /\ unseen' = unseen \cup {a.key}
    BY <1>2, <1>8, <1>9, <2>6 DEF Changes, Unsettled
  <2>8. IsFiniteSet(events')
    <3>1. IsFiniteSet(events \ {h})
      BY Shapes, FS_Subset
    <3> QED
      BY <2>7, <3>1, FS_AddElement
  <2>9. /\ \A e \in events' : e.id \in Nat \ {0} /\ e.cal \in 1 .. made
        /\ \A e, f \in events' : e.id = f.id => e = f
    <3>1. /\ \A e \in events : e.id \in Nat \ {0} /\ e.cal \in 1 .. made
          /\ \A e, f \in events : e.id = f.id => e = f
      BY DEF CInv, Story, Numbered
    <3>2. g.id = h.id /\ g.cal = h.cal
      BY <2>2, <2>4
    <3> QED
      BY <2>2, <2>7, <3>1, <3>2
  <2>10. LinkedEvents'
    <3>1. \A e \in events' : \E f \in events : e.id = f.id /\ e.cal = f.cal /\ e.key = f.key
      BY <2>2, <2>4, <2>7
    <3>2. LinkedEvents
      BY DEF CInv, Story
    <3> QED
      BY <1>7, <3>1, <3>2 DEF LinkedEvents
  <2>11. \A e : e.cal = settings.cal /\ e.key \notin unseen' => (e \in events' <=> e \in events)
    BY <2>2, <2>4, <2>7
  <2>12. unseen \subseteq unseen'
    BY <2>7
  <2>13. Story'
    BY <1>7, <1>8, <2>8, <2>9, <2>10, <2>11, <2>12, EventsMove
  <2>14. run'.phase = "writing" => \E e \in events' :
            /\ e.id = run'.hit /\ e.cal = run.cal /\ e.key = a.key
            /\ run'.sure => e.text = a.text
    <3>1. g \in events' /\ g.id = a.event /\ g.cal = run.cal /\ g.key = a.key /\ g.text = a.text
      BY <2>4, <2>7
    <3> QED
      BY <1>6, <1>8, <3>1
  <2>15. RunAgrees'
    BY <1>2, <1>6, <1>7, <1>8, <2>14, Takes
  <2> QED
    BY <2>13, <2>15
<1>10. CASE Changeless /\ run'.phase # "writing"
  <2>1. UNCHANGED <<events, unseen>>
    BY <1>10 DEF Changeless, google
  <2>2. SettingsShape' /\ settings' = settings /\ made' \in Nat /\ made <= made'
    BY <1>7, <1>8, Shapes DEF SettingsShape
  <2>3. Story'
    BY <1>7, <2>1, <2>2, Shapes, StoryKept
  <2>4. RunAgrees'
    BY <1>2, <1>7, <1>8, <1>10, Takes
  <2> QED
    BY <2>3, <2>4
<1> QED
  BY <1>8, <1>9, <1>10

\* A delete leaves no event of its occurrence in the connected calendar.
LEMMA DeletesTell ==
    ASSUME CInv, NEW a, Deletes(a)
    PROVE  Story' /\ RunAgrees'
<1> DEFINE left == {e \in events : e.cal # run.cal \/ e.id # a.event}
<1>1. Remote(a, "delete")
  BY DEF Deletes
<1>2. /\ run.phase = "working" /\ run # NoRun /\ run.cal = settings.cal /\ a \in run.plan
      /\ a.do = "delete" /\ a.event = EventOf(links, a.key) /\ a.event # NoEvent
  BY <1>1, RemoteIs
<1>3. PICK w : w = After(a, "writing")
  OBVIOUS
<1>4. w = [phase |-> "writing", trigger |-> run.trigger, confirmed |-> run.confirmed,
           recovered |-> run.recovered, cal |-> run.cal, state |-> run.state,
           links |-> run.links, plan |-> run.plan \ {a}, used |-> run.used + 1, act |-> a,
           hit |-> run.hit, sure |-> run.sure]
  BY <1>2, <1>3, AfterIs
<1>5. PICK r : r = [w EXCEPT !.sure = TRUE]
  OBVIOUS
<1>6. /\ r.phase = "writing" /\ r.cal = run.cal /\ r.plan = run.plan \ {a} /\ r.act = a
      /\ r.sure = TRUE
      /\ r = [phase |-> r.phase, trigger |-> r.trigger, confirmed |-> r.confirmed,
              recovered |-> r.recovered, cal |-> r.cal, state |-> r.state,
              links |-> r.links, plan |-> r.plan, used |-> r.used, act |-> r.act,
              hit |-> r.hit, sure |-> r.sure]
  BY <1>4, <1>5
<1>7. /\ UNCHANGED <<links, settings>>
      /\ \/ run' = r /\ Changes(left)
         \/ run' = [r EXCEPT !.phase = "failing"] /\ Changes(left)
         \/ Refused(r) /\ Changeless
  BY <1>3, <1>5 DEF Deletes
<1> HIDE DEF left
<1>8. /\ UNCHANGED made /\ run'.cal = run.cal /\ run'.act = a /\ run'.plan \subseteq run.plan \ {a}
      /\ run'.phase \in {"writing", "failing", "limited", "unauthorized"}
      /\ Changes(left) \/ Changeless
      /\ run'.phase = "writing" => Changes(left) /\ run' = r
  <2>1. CASE run' = r /\ Changes(left)
    BY <1>6, <2>1 DEF Changes
  <2>2. CASE run' = [r EXCEPT !.phase = "failing"] /\ Changes(left)
    BY <1>6, <2>2 DEF Changes
  <2>3. CASE Refused(r) /\ Changeless
    <3>1. UNCHANGED made
      BY <2>3 DEF Changeless, google
    <3> QED
      BY <1>6, <2>3, <3>1, RefusedIs
  <2> QED
    BY <1>7, <2>1, <2>2, <2>3
<1>9. CASE Changes(left)
  <2>1. events' = left /\ unseen' = unseen \cup {a.key}
    BY <1>2, <1>8, <1>9 DEF Changes, Unsettled
  <2>2. events' \subseteq events /\ IsFiniteSet(events')
    BY <2>1, Shapes, FS_Subset DEF left
  <2>3. /\ \A e \in events' : e.id \in Nat \ {0} /\ e.cal \in 1 .. made
        /\ \A e, f \in events' : e.id = f.id => e = f
    BY <2>2 DEF CInv, Story, Numbered
  <2>4. LinkedEvents'
    BY <1>7, <2>2 DEF CInv, Story, LinkedEvents
  <2>5. \A e \in events : e.id = a.event => e.key = a.key
    BY <1>2, EventIs
  <2>6. \A e : e.cal = settings.cal /\ e.key \notin unseen' => (e \in events' <=> e \in events)
    BY <2>1, <2>5 DEF left
  <2>7. unseen \subseteq unseen'
    BY <2>1
  <2>8. Story'
    BY <1>7, <1>8, <2>2, <2>3, <2>4, <2>6, <2>7, EventsMove
  <2>9. \A e \in events' : ~(e.cal = run.cal /\ e.key = a.key)
    BY <1>2, <2>1, EventIs DEF left
  <2>10. run'.phase = "writing" => run'.sure
    BY <1>6, <1>8
  <2>11. RunAgrees'
    BY <1>2, <1>7, <1>8, <2>9, <2>10, Takes
  <2> QED
    BY <2>8, <2>11
<1>10. CASE Changeless /\ run'.phase # "writing"
  <2>1. UNCHANGED <<events, unseen>>
    BY <1>10 DEF Changeless, google
  <2>2. SettingsShape' /\ settings' = settings /\ made' \in Nat /\ made <= made'
    BY <1>7, <1>8, Shapes DEF SettingsShape
  <2>3. Story'
    BY <1>7, <2>1, <2>2, Shapes, StoryKept
  <2>4. RunAgrees'
    BY <1>2, <1>7, <1>8, <1>10, Takes
  <2> QED
    BY <2>3, <2>4
<1> QED
  BY <1>8, <1>9, <1>10

\* The link is written while Google still shows what the action did.
LEMMA WritesTell ==
    ASSUME CInv, Writes
    PROVE  Story' /\ RunAgrees'
<1> DEFINE k == run.act.key
           seen == IF run.sure THEN unseen \ {k} ELSE unseen
<1>1. /\ run.phase = "writing" /\ run.cal = settings.cal /\ UNCHANGED <<settings, events, made>>
      /\ \/ /\ run' = [run EXCEPT !.phase = "working", !.act = NoAct, !.hit = NoEvent]
            /\ links' = IF run.act.do = "delete" THEN Without(links, k)
                        ELSE SavedLink(run.act.to, "none", run.hit)
            /\ unseen' = seen
         \/ run' = [run EXCEPT !.phase = "failing"] /\ UNCHANGED <<links, unseen>>
  BY DEF Writes, Guarded, SameConnection, google
<1>2. run # NoRun
  BY <1>1 DEF NoRun
<1>3. /\ run.act.event = EventOf(links, k) /\ \A a \in run.plan : a.key # k
      /\ IF run.act.do = "delete"
         THEN \A e \in events : ~(e.cal = run.cal /\ e.key = k)
         ELSE \E e \in events : /\ e.id = run.hit /\ e.cal = run.cal /\ e.key = k
                                /\ run.sure => e.text = run.act.text
      /\ run.sure \/ k \in unseen
  <2>1. ActAgrees
    BY <1>1, <1>2, Shapes DEF RunAgrees
  <2> QED
    BY <1>1, <2>1 DEF ActAgrees, Acting
<1>4. SettingsShape' /\ settings' = settings /\ made' \in Nat /\ made <= made'
  BY <1>1, Shapes DEF SettingsShape
<1>5. CASE run' = [run EXCEPT !.phase = "failing"] /\ UNCHANGED <<links, unseen>>
  <2>1. /\ run'.phase = "failing" /\ run'.cal = run.cal /\ run'.act = run.act
        /\ run'.plan = run.plan
    BY <1>2, <1>5 DEF CInv, OInv, Shape
  <2>2. ActAgrees'
    BY <1>3, <1>5, <2>1 DEF ActAgrees, Acting
  <2>3. RunAgrees'
    BY <1>2, <1>4, <1>5, <2>1, <2>2, Shapes, RunMoves
  <2>4. Story'
    BY <1>1, <1>4, <1>5, Shapes, StoryKept
  <2> QED
    BY <2>3, <2>4
<1>6. CASE /\ run' = [run EXCEPT !.phase = "working", !.act = NoAct, !.hit = NoEvent]
           /\ links' = IF run.act.do = "delete" THEN Without(links, k)
                       ELSE SavedLink(run.act.to, "none", run.hit)
           /\ unseen' = seen
  <2>1. run'.phase = "working" /\ run'.cal = run.cal /\ run'.plan = run.plan
    BY <1>2, <1>6 DEF CInv, OInv, Shape
  <2>2. /\ \A o : o # k => EventOf(links', o) = EventOf(links, o)
        /\ \A o : o # k => (o \in DOMAIN links' <=> o \in DOMAIN links)
        /\ \A o \in DOMAIN links' : o # k => links'[o] = links[o]
        /\ DOMAIN links' \subseteq DOMAIN links \cup {k}
        /\ links' = [o \in DOMAIN links' |-> links'[o]]
    <3>1. CASE run.act.do = "delete"
      BY <1>6, <3>1 DEF Without, Restrict, EventOf
    <3>2. CASE run.act.do # "delete"
      BY <1>6, <3>2 DEF SavedLink, Saved, EventOf
    <3> QED
      BY <3>1, <3>2
  <2>3. RunAgrees'
    <3>1. ActAgrees'
      BY <2>1 DEF ActAgrees, Acting
    <3>2. \A a \in run'.plan : EventOf(links', a.key) = EventOf(links, a.key)
      BY <1>3, <2>1, <2>2
    <3> QED
      BY <1>2, <1>4, <2>1, <3>1, <3>2, Shapes, RunMoves
  <2>4. IsFiniteSet(DOMAIN links')
    <3>1. IsFiniteSet(DOMAIN links \cup {k})
      BY Shapes, FS_AddElement
    <3> QED
      BY <2>2, <3>1, FS_Subset
  <2>5. Numbered'
    BY <1>1, <2>4 DEF CInv, Story, Numbered
  <2>6. CASE run.act.do = "delete"
    <3>1. k \notin DOMAIN links'
      BY <1>6, <2>6 DEF Without, Restrict
    <3>2. LinkShape'
      BY <2>2, <3>1, Shapes DEF LinkShape
    <3>3. LinkedEvents'
      <4>1. LinkedEvents
        BY DEF CInv, Story
      <4> QED
        BY <1>1, <2>2, <3>1, <4>1 DEF LinkedEvents
    <3>4. ASSUME NEW o \in DOMAIN links' \ unseen', links'[o].event # NoEvent
          PROVE  \E e \in events :
                    /\ e.id = links'[o].event /\ e.cal = settings.cal /\ e.key = o
                    /\ links'[o].state = "synced" => e.text = links'[o].text
      <4>1. o \in DOMAIN links \ unseen /\ links'[o] = links[o]
        BY <1>6, <2>2, <3>1, <3>4
      <4> QED
        BY <3>4, <4>1 DEF CInv, Story, LinksTellTheTruth
    <3>5. ASSUME NEW e \in events, e.cal = settings.cal, e.key \notin unseen'
          PROVE  e.key \in DOMAIN links' /\ links'[e.key].event = e.id
      <4>1. e.key # k /\ e.key \notin unseen
        BY <1>1, <1>3, <1>6, <2>6, <3>5
      <4>2. e.key \in DOMAIN links /\ links[e.key].event = e.id
        BY <3>5, <4>1 DEF CInv, Story, LinksTellTheTruth
      <4> QED
        BY <2>2, <4>1, <4>2
    <3>6. LinksTellTheTruth'
      BY <1>1, <3>4, <3>5 DEF LinksTellTheTruth
    <3> QED
      BY <1>4, <2>3, <2>5, <3>2, <3>3, <3>6 DEF Story
  <2>7. CASE run.act.do # "delete"
    <3>1. PICK g \in events : /\ g.id = run.hit /\ g.cal = settings.cal /\ g.key = k
                              /\ run.sure => g.text = run.act.text
      BY <1>1, <1>3, <2>7
    <3>2. /\ k \in DOMAIN links'
          /\ links'[k] = [state |-> run.act.to, event |-> run.hit, text |-> run.act.text,
                          backoff |-> "none"]
      BY <1>6, <2>7 DEF SavedLink, Saved
    <3>3. g.id \in Nat \ {0} /\ \A e \in events : e.id = g.id => e = g
      BY <3>1 DEF CInv, Story, Numbered
    <3>4. \A e \in events : e.cal = settings.cal /\ e.key = k => e = g
      BY <3>1, Shapes DEF OneEvent
    <3>5. LinkShape'
      <4>1. \A o \in DOMAIN links' :
               /\ links'[o] = [state |-> links'[o].state, event |-> links'[o].event,
                               text |-> links'[o].text, backoff |-> links'[o].backoff]
               /\ links'[o].event \in Nat
        BY <2>2, <3>1, <3>2, <3>3, Shapes DEF LinkShape
      <4> QED
        BY <2>2, <4>1 DEF LinkShape
    <3>6. LinkedEvents'
      <4> SUFFICES ASSUME NEW o \in DOMAIN links', NEW e \in events
                   PROVE  /\ links'[o].event = e.id => e.key = o
                          /\ links'[o].event # NoEvent /\ e.cal = settings.cal /\ e.key = o =>
                                e.id = links'[o].event
        BY <1>1 DEF LinkedEvents
      <4>1. CASE o = k
        BY <3>1, <3>2, <3>3, <3>4, <4>1
      <4>2. CASE o # k
        <5>1. o \in DOMAIN links /\ links'[o] = links[o]
          BY <2>2, <4>2
        <5> QED
          BY <5>1 DEF CInv, Story, LinkedEvents
      <4> QED
        BY <4>1, <4>2
    <3>7. ASSUME NEW o \in DOMAIN links' \ unseen', links'[o].event # NoEvent
          PROVE  \E e \in events :
                    /\ e.id = links'[o].event /\ e.cal = settings.cal /\ e.key = o
                    /\ links'[o].state = "synced" => e.text = links'[o].text
      <4>1. CASE o = k
        <5>1. run.sure
          BY <1>3, <1>6, <3>7, <4>1
        <5> QED
          BY <3>1, <3>2, <4>1, <5>1
      <4>2. CASE o # k
        <5>1. o \in DOMAIN links \ unseen /\ links'[o] = links[o]
          BY <1>6, <2>2, <3>7, <4>2
        <5> QED
          BY <3>7, <5>1 DEF CInv, Story, LinksTellTheTruth
      <4> QED
        BY <4>1, <4>2
    <3>8. ASSUME NEW e \in events, e.cal = settings.cal, e.key \notin unseen'
          PROVE  e.key \in DOMAIN links' /\ links'[e.key].event = e.id
      <4>1. CASE e.key = k
        BY <3>1, <3>2, <3>4, <3>8, <4>1
      <4>2. CASE e.key # k
        <5>1. e.key \notin unseen
          BY <1>6, <3>8, <4>2
        <5>2. e.key \in DOMAIN links /\ links[e.key].event = e.id
          BY <3>8, <5>1 DEF CInv, Story, LinksTellTheTruth
        <5> QED
          BY <2>2, <4>2, <5>2
      <4> QED
        BY <4>1, <4>2
    <3>9. LinksTellTheTruth'
      BY <1>1, <3>7, <3>8 DEF LinksTellTheTruth
    <3> QED
      BY <1>4, <2>3, <2>5, <3>5, <3>6, <3>9 DEF Story
  <2> QED
    BY <2>6, <2>7
<1> QED
  BY <1>1, <1>5, <1>6

\* The calendar that replaces a lost one has no event, and the run will read it again.
LEMMA MakesTell ==
    ASSUME CInv, MakesCalendar
    PROVE  Story' /\ RunAgrees'
<1>1. /\ run.phase \in {"recovering", "recovering_late"}
      /\ UNCHANGED <<settings, links, events, unseen>>
      /\ \/ made' = made + 1 /\ run' = [run EXCEPT !.phase = "adopting", !.hit = made']
         \/ made' = made /\ Refused(run) /\ run.phase = "recovering"
         \/ made' = made /\ run' = NoRun
  BY DEF MakesCalendar, Guarded
<1>2. run # NoRun
  BY <1>1 DEF NoRun
<1>3. run = [phase |-> run.phase, trigger |-> run.trigger, confirmed |-> run.confirmed,
             recovered |-> run.recovered, cal |-> run.cal, state |-> run.state,
             links |-> run.links, plan |-> run.plan, used |-> run.used, act |-> run.act,
             hit |-> run.hit, sure |-> run.sure]
  BY <1>2 DEF CInv, OInv, Shape
<1>4. SettingsShape' /\ settings' = settings /\ made' \in Nat /\ made <= made'
  BY <1>1, Shapes DEF SettingsShape
<1>5. Story'
  BY <1>1, <1>4, Shapes, StoryKept
<1>6. CASE made' = made + 1 /\ run' = [run EXCEPT !.phase = "adopting", !.hit = made']
  <2>1. /\ run'.phase = "adopting" /\ run'.hit = made + 1 /\ run'.cal = run.cal
        /\ run'.plan = run.plan
    BY <1>3, <1>6
  <2>2. run.cal \in 1 .. made' /\ made + 1 \in 1 .. made'
    BY <1>2, <1>4, <1>6, Shapes DEF RunAgrees
  <2>3. \A e \in events : e.cal # made + 1
    <3>1. \A e \in events : e.cal \in 1 .. made
      BY DEF CInv, Story, Numbered
    <3> QED
      BY <3>1, Shapes
  <2>4. ASSUME run.cal = settings.cal PROVE PlanAgrees' /\ ActAgrees'
    <3>1. PlanAgrees
      BY <1>2, <2>4, Shapes DEF RunAgrees
    <3> QED
      BY <1>1, <2>1, <3>1 DEF PlanAgrees, ActAgrees, Acting
  <2>5. RunAgrees'
    BY <1>1, <1>6, <2>1, <2>2, <2>3, <2>4 DEF RunAgrees
  <2> QED
    BY <1>5, <2>5
<1>7. CASE Refused(run) /\ run.phase = "recovering"
  <2>1. /\ run'.cal = run.cal /\ run'.act = run.act /\ run'.plan \subseteq run.plan
        /\ run'.phase \in {"failing", "limited", "unauthorized"}
    BY <1>3, <1>7, RefusedIs
  <2>2. ASSUME run.cal = settings.cal PROVE ActAgrees'
    <3>1. ActAgrees
      BY <1>2, <2>2, Shapes DEF RunAgrees
    <3>2. run.act.event = EventOf(links, run.act.key) /\ \A a \in run.plan : a.key # run.act.key
      BY <1>7, <3>1 DEF ActAgrees, Acting
    <3> QED
      BY <1>1, <2>1, <3>2 DEF ActAgrees, Acting
  <2>3. RunAgrees'
    BY <1>1, <1>2, <1>4, <2>1, <2>2, Shapes, RunMoves
  <2> QED
    BY <1>5, <2>3
<1>8. CASE run' = NoRun
  BY <1>5, <1>8 DEF RunAgrees
<1> QED
  BY <1>1, <1>6, <1>7, <1>8

\* The links of the lost calendar are cleared with it.
LEMMA AdoptsTell ==
    ASSUME CInv, AdoptsCalendar
    PROVE  Story' /\ RunAgrees'
<1>1. /\ run.phase = "adopting" /\ UNCHANGED <<events, made>> /\ links' = NoLinks /\ unseen' = {}
      /\ settings' = [settings EXCEPT !.cal = run.hit, !.asked = 0]
      /\ run' = [run EXCEPT !.phase = "again", !.hit = NoEvent, !.act = NoAct, !.plan = {}]
  BY DEF AdoptsCalendar, Guarded, google
<1>2. run # NoRun
  BY <1>1 DEF NoRun
<1>3. run.cal \in 1 .. made /\ run.hit \in 1 .. made /\ \A e \in events : e.cal # run.hit
  BY <1>1, <1>2, Shapes DEF RunAgrees
<1>4. run'.phase = "again" /\ run'.cal = run.cal /\ run'.plan = {}
  <2>1. run = [phase |-> run.phase, trigger |-> run.trigger, confirmed |-> run.confirmed,
               recovered |-> run.recovered, cal |-> run.cal, state |-> run.state,
               links |-> run.links, plan |-> run.plan, used |-> run.used, act |-> run.act,
               hit |-> run.hit, sure |-> run.sure]
    BY <1>2 DEF CInv, OInv, Shape
  <2>2. PICK p : p = [run EXCEPT !.phase = "again", !.hit = NoEvent]
    OBVIOUS
  <2>3. /\ p.phase = "again" /\ p.cal = run.cal
        /\ p = [phase |-> p.phase, trigger |-> p.trigger, confirmed |-> p.confirmed,
               recovered |-> p.recovered, cal |-> p.cal, state |-> p.state,
               links |-> p.links, plan |-> p.plan, used |-> p.used, act |-> p.act,
               hit |-> p.hit, sure |-> p.sure]
    BY <2>1, <2>2
  <2>4. run' = [p EXCEPT !.act = NoAct, !.plan = {}]
    BY <1>1, <2>2
  <2> QED
    BY <2>3, <2>4
<1>5. settings'.cal = run.hit /\ SettingsShape'
  BY <1>1, Shapes DEF SettingsShape
<1>6. DOMAIN links' = {} /\ IsFiniteSet(DOMAIN links')
  BY <1>1, FS_EmptySet DEF NoLinks
<1>7. Numbered'
  BY <1>1, <1>3, <1>5, <1>6 DEF CInv, Story, Numbered
<1>8. LinkShape' /\ LinkedEvents'
  BY <1>1, <1>6 DEF LinkShape, LinkedEvents, NoLinks
<1>9. LinksTellTheTruth'
  BY <1>1, <1>3, <1>5, <1>6 DEF LinksTellTheTruth
<1>10. RunAgrees'
  BY <1>1, <1>3, <1>4 DEF RunAgrees, PlanAgrees, ActAgrees, Acting
<1> QED
  BY <1>5, <1>7, <1>8, <1>9, <1>10 DEF Story

\* Every step keeps what the links tell.
LEMMA CNext == CInv /\ [Next]_vars => CInv'
<1> SUFFICES ASSUME CInv, [Next]_vars PROVE CInv'
  OBVIOUS
<1>1. OInv'
  BY ONext DEF CInv
<1>2. SUFFICES Story' /\ RunAgrees'
  BY <1>1 DEF CInv
<1>3. CASE UNCHANGED vars
  BY <1>3, UserTells DEF vars, db, google
<1>4. CASE \E t \in Tasks :
             \/ \E d \in Dates : Schedule(t, d)
             \/ \E x \in Texts : Rewrite(t, x)
             \/ \E row \in BOOLEAN : Leave(t, row)
  <2>1. UNCHANGED <<run, links, events, made, unseen, settings>>
    BY <1>4 DEF Schedule, Rewrite, Leave, Local, google
  <2> QED
    BY <2>1, UserTells
<1>5. CASE ConnectSameAccount \/ Disconnect \/ Toggle \/ DayEnds
  <2>1. UNCHANGED <<run, links, events, made, unseen>>
    BY <1>5 DEF ConnectSameAccount, Disconnect, Toggle, DayEnds, Local, google, db
  <2>2. DayEnds => settings' = settings
    BY DEF DayEnds, db
  <2> QED
    BY <1>5, <2>1, <2>2, UserTells
<1>6. CASE \E a : SkipsForBackoff(a) \/ Looks(a) \/ Patches(a) \/ Deletes(a) \/ ActsLocally(a)
  BY <1>6, SkipsTell, LooksTell, PatchesTell, DeletesTell, LocalTells
<1>7. CASE \E e \in events : UserRemoves({e}, {})
  BY <1>7, RemovalTells
<1>8. CASE \E c \in calendars : UserRemoves({e \in events : e.cal = c}, {c})
  BY <1>8, RemovalTells
<1>9. CASE \E trigger \in {"automatic", "syncNow", "confirmMassDelete"} : Reconcile(trigger)
  BY <1>9, StartsTell
<1>10. CASE \/ ReadsTasks \/ Asks \/ LeavesTheRest \/ Inserts \/ Writes \/ RecordsFailure
            \/ MissingRemote \/ MakesCalendar \/ AdoptsCalendar \/ StartsAgain \/ Finishes
            \/ Stops \/ Crash
  BY <1>10, PlansTell, EndsTell, SkipsTell, InsertsTell, WritesTell, FailureTells, MissingTells,
     MakesTell, AdoptsTell, StartsTell
<1>11. CASE TimePasses \/ ConnectOtherAccount \/ \E t \in Tasks : Promote(t)
  BY <1>11, TimeTells, OtherAccountTells, PromoteTells
<1> QED
  BY <1>3, <1>4, <1>5, <1>6, <1>7, <1>8, <1>9, <1>10, <1>11 DEF Next, RunStep, UserStep

----------------------------------------------------------------------------
(* The properties                                                          *)

\* A calendar never shows an occurrence twice, whatever answers, link writes and processes
\* were lost (createOrAdoptEvent of google-calendar-api.ts under the single flight of
\* reconciler.ts).
THEOREM OneEventHolds == Spec => []OneEvent
<1>1. Init => OInv
  BY DEF Init, OInv, Shape, EventShape, LookedFirst, OneEvent, NoRun
<1>2. OInv => OneEvent
  BY DEF OInv
<1> QED
  BY <1>1, <1>2, ONext, PTL DEF Spec

\* Where no answer or link write was lost, the links and the connected calendar tell the same
\* story: every link's event is there for its occurrence, with the body it records once it is
\* synced, and every event has its link; a run that outlives its connection writes nothing into
\* the new one's table (reconciler.ts, under withCurrentConnection).
THEOREM LinksHold == Spec => []LinksTellTheTruth
<1>1. CInv => LinksTellTheTruth
  BY DEF CInv, Story
<1> QED
  BY <1>1, CInit, CNext, PTL DEF Spec
=============================================================================
