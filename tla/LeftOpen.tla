------------------------------ MODULE LeftOpen ------------------------------
(***************************************************************************)
(* One door or window watched by a left-open policy: LeftOpenMonitor of    *)
(* custom_components/homeostatic/left_open.py, its glue in producers.py    *)
(* and the runtime sections that drive it.                                 *)
(*                                                                         *)
(* Home Assistant reports the contact and the outdoor temperature at any   *)
(* time; both are captured together and wait in a queue.  A section under  *)
(* the lock drains the queue; a refresh then awaits the Repairs read, so   *)
(* that more is captured, and evaluates the current states at the present  *)
(* time.  Unfinished waits are not saved.  The health-tree library keeps   *)
(* an issue open from a failing report to a passing one or its removal.    *)
(*                                                                         *)
(* Time is counted in ticks.  What is due, a captured report or the timer, *)
(* is taken up within one tick.                                            *)
(***************************************************************************)
EXTENDS Integers, Sequences, FiniteSetsExt

CONSTANTS
  Day,          \* ticks of a day
  Plans,        \* policies and clock changes, see Plan
  MaxNow,       \* bound: the last tick
  MaxChanges,   \* bound: reports by Home Assistant
  MaxRestarts,  \* bound: restarts of Home Assistant
  MaxDown,      \* bound: ticks a restart takes
  MaxIssues     \* bound: issues opened

ASSUME TickAssumption == Day \in Nat \ {0}
ASSUME LeftOpenBounds ==
  /\ MaxNow \in Nat /\ MaxNow >= Day
  /\ MaxChanges \in Nat /\ MaxRestarts \in Nat
  /\ MaxDown \in Nat /\ MaxIssues \in Nat

VARIABLES
  plan,         \* the policy and the clock change of the time zone
  now,          \* the present, UTC
  contact, temperature,
  queue,        \* _pending: reports captured and not yet drained
  pc,           \* the section under the lock: idle, first, drain, read, save
  refreshing,   \* the section is a refresh, not an operator control
  monitor,      \* LeftOpenMonitor
  deadline,     \* _left_open_deadlines
  timer,        \* when the runtime's timer fires
  issue,        \* the open episode, 0 if there is none
  ended,        \* history: episodes whose monitoring window ended
  cleared,      \* history: episodes that recovered
  requests,     \* episodes with an alert that no transport got yet
  saved,        \* what the Store file holds of monitor, issue, history, requests
  steady,       \* history: since when the opening qualifies without a break
  cutoff,       \* history: the end of the window an episode was opened in
  changes, restarts

inputs == <<contact, temperature, changes>>
section == <<pc, refreshing>>
lifecycle == <<monitor, deadline, issue, ended, cleared, requests, cutoff>>
vars == <<plan, now, inputs, queue, section, lifecycle, timer, saved, steady, restarts>>

None == 0    \* no time and no issue; the first tick is later

\* A policy waits `duration`, daily from start to end; start = end stands for
\* continuous monitoring.  From `at` on the clocks show `shift` ticks more: a
\* positive shift skips local times, a negative one repeats them.
Plan == [duration : Nat, start : 0 .. Day - 1, end : 0 .. Day - 1,
         at : Nat, shift : Int]

\* The clocks change while the program runs, by a day at most.
ASSUME PlansAssumption ==
  /\ Plans \subseteq Plan
  /\ \A p \in Plans : p.shift \in -Day .. Day /\ (p.shift # 0 => p.at >= Day)

Contacts == {"on", "off", "missing"}
Temperatures == {"outside", "inside", "missing"}
Issues == 1 .. MaxIssues

-----------------------------------------------------------------------------
(* Monitoring hours                                                        *)

Times == 0 .. MaxNow

Local(p, t) == IF t < p.at THEN t ELSE t + p.shift

\* _boundary: the first time at which the clocks show this, if there is one.
Boundary(p, day, clock) ==
  LET at == {t \in 0 .. (MaxNow + 6 * Day) : Local(p, t) = day * Day + clock}
  IN IF at = {} THEN None ELSE Min(at)

NoWindow == [start |-> None, end |-> None]

\* The windows of the days around t, those that have both their boundaries.
Nearby(p, t) ==
  LET today == Local(p, t) \div Day
      On(d) == [start |-> Boundary(p, d, p.start),
                end |-> Boundary(p, IF p.end < p.start THEN d + 1 ELSE d, p.end)]
  IN {w \in {On(d) : d \in today - 1 .. today + 3} : w.start # None /\ w.end # None}

Holds(w, t) == w.start <= t /\ t < w.end

\* monitoring_window: the window of t, and the boundary after t.
Hours ==
  [p \in Plans |-> [t \in Times |->
     LET nearby == {w \in Nearby(p, t) : p.start # p.end}
         current == {w \in nearby : Holds(w, t)}
         starts == {w.start : w \in {x \in nearby : t < x.start}}
         window == IF current = {} THEN NoWindow ELSE CHOOSE w \in current : TRUE
     IN [window |-> window,
         next |-> CASE current # {} -> window.end
                    [] current = {} /\ starts # {} -> Min(starts)
                    [] OTHER -> None]]]

Window(t) == Hours[plan][t].window
NextBoundary(t) == Hours[plan][t].next
Always == plan.start = plan.end

Active(t) == Always \/ Window(t) # NoWindow

-----------------------------------------------------------------------------
(* LeftOpenMonitor                                                         *)

Fresh == [since |-> None, qualified |-> FALSE, window |-> NoWindow]

\* A window that is not the one of the last evaluation starts afresh.
Removed(m, t) == m.window # NoWindow /\ m.window.start # Window(t).start

Entered(m, t) ==
  [IF Removed(m, t) THEN Fresh ELSE m EXCEPT !.window = Window(t)]

\* Mutant: a missing contact leaves the countdown running
SinceUnbroken(m, c, w, t) ==
  CASE ~Active(t) \/ c = "off" -> None
    [] Active(t) /\ (c = "missing" \/ m.qualified) -> m.since
    [] Active(t) /\ c = "on" /\ ~m.qualified /\ w # "outside" -> None
    [] OTHER -> IF m.since = None THEN t ELSE m.since

\* Since when the opening waits for its duration.
Since(m, c, w, t) ==
  CASE ~Active(t) \/ c # "on" -> None
    [] Active(t) /\ c = "on" /\ m.qualified -> m.since
    [] Active(t) /\ c = "on" /\ ~m.qualified /\ w # "outside" -> None
    [] OTHER -> IF m.since = None THEN t ELSE m.since

Ripe(m, c, w, t) ==
  c = "on" /\ w = "outside" /\ t >= Since(m, c, w, t) + plan.duration

\* Once qualified, only a report that it is closed or the end of the hours
\* ends it.
Qualified(m, c, w, t) ==
  Active(t) /\ c # "off" /\ (m.qualified \/ Ripe(m, c, w, t))

\* The monitor after evaluate.
Evaluated(m, c, w, t) ==
  LET e == Entered(m, t)
  IN [since |-> Since(e, c, w, t), qualified |-> Qualified(e, c, w, t),
      window |-> e.window]

\* Mutant: missing evidence passes
StatusLenient(m, c, w, t) ==
  IF c = "on" /\ Evaluated(m, c, w, t).qualified THEN "fail" ELSE "pass"

\* What evaluate reports to the library.
Status(m, c, w, t) ==
  CASE Active(t) /\ c = "on" /\ Evaluated(m, c, w, t).qualified -> "fail"
    [] Active(t) /\ c = "missing" -> "unknown"
    [] Active(t) /\ c = "on" /\ w = "missing" /\ ~Evaluated(m, c, w, t).qualified
         -> "unknown"
    [] OTHER -> "pass"

\* Mutant: only the next boundary is scheduled
DeadlineBoundary(m, t) == NextBoundary(t)

\* When the evaluated monitor m must be looked at again.
Deadline(m, t) ==
  LET ripe == IF m.since # None /\ ~m.qualified THEN m.since + plan.duration ELSE None
      due == {NextBoundary(t), ripe} \ {None}
  IN IF due = {} THEN None ELSE Min(due)

-----------------------------------------------------------------------------
(* The sections of the runtime                                             *)

\* _observe_left_open and what the section makes of it: when a window ended
\* the check is removed from the library, and registered afresh, before the
\* observation is ingested.
Observe(c, w, t) ==
  LET status == Status(monitor, c, w, t)
      removed == Removed(monitor, t)
      left == IF removed THEN None ELSE issue
      opens == status = "fail" /\ left = None
      over == ended \cup (IF removed THEN {issue} \ {None} ELSE {})
      id == Cardinality(over \cup cleared) + 1
  IN /\ opens => id \in Issues
     /\ monitor' = Evaluated(monitor, c, w, t)
     /\ deadline' = Deadline(monitor', t)
     /\ ended' = over
     /\ cleared' = IF status = "pass" THEN cleared \cup ({left} \ {None}) ELSE cleared
     /\ issue' = CASE opens -> id [] status = "pass" -> None [] OTHER -> left
     /\ requests' = IF opens THEN requests \cup {id} ELSE requests
     /\ cutoff' = IF opens THEN [cutoff EXCEPT ![id] = monitor'.window.end] ELSE cutoff

Snapshot == [monitor |-> [monitor EXCEPT !.since = None], issue |-> issue,
             ended |-> ended, cleared |-> cleared, requests |-> requests]

Qualifies(c, w, t) == c = "on" /\ w = "outside" /\ Active(t)

\* History: the countdown that reports alone justify.
Steady(c, w, t) ==
  CASE ~Qualifies(c, w, t) -> None
    [] Qualifies(c, w, t) /\ steady # None /\ Window(t) = Window(now) -> steady
    [] OTHER -> t

Init ==
  /\ plan \in Plans
  /\ now = Day
  /\ contact \in Contacts /\ temperature \in Temperatures
  /\ queue = <<>>
  /\ pc = "first" /\ refreshing = TRUE
  /\ monitor = Fresh /\ deadline = None /\ timer = None
  /\ issue = None /\ ended = {} /\ cleared = {} /\ requests = {}
  /\ saved = Snapshot
  /\ steady = IF Qualifies(contact, temperature, now) THEN now ELSE None
  /\ cutoff = [i \in Issues |-> None]
  /\ changes = 0 /\ restarts = 0

\* Time passes; nothing that is due waits for more than a tick.
Tick ==
  /\ now < MaxNow
  /\ pc # "first"
  /\ \A due \in {timer, deadline} \ {None} : due >= now
  /\ \A i \in DOMAIN queue : queue[i].time >= now
  /\ now' = now + 1
  /\ steady' = Steady(contact, temperature, now + 1)
  /\ UNCHANGED <<plan, inputs, queue, section, lifecycle, timer, saved, restarts>>

\* _state_changed and capture_entity: one of the two entities reports, and both
\* are captured together.
\* Before the first pass has built the index nothing is captured.
Report(c, w) ==
  /\ changes < MaxChanges
  /\ (c = contact) # (w = temperature)
  /\ contact' = c /\ temperature' = w
  /\ changes' = changes + 1
  /\ steady' = Steady(c, w, now)
  /\ queue' = IF pc = "first" THEN queue
              ELSE Append(queue, [contact |-> c, temperature |-> w,
                                  time |-> now, steady |-> steady'])
  /\ UNCHANGED <<plan, now, section, lifecycle, timer, saved, restarts>>

\* A refresh or an operator control takes the lock.
Begin(refresh) ==
  /\ pc = "idle"
  /\ pc' = "drain" /\ refreshing' = refresh
  /\ UNCHANGED <<plan, now, inputs, queue, lifecycle, timer, saved, steady, restarts>>

\* One turn of _drain_pending, at the time of the capture.
Drain ==
  /\ pc = "drain" /\ queue # <<>>
  /\ Observe(Head(queue).contact, Head(queue).temperature, Head(queue).time)
  /\ queue' = Tail(queue)
  /\ UNCHANGED <<plan, now, inputs, section, timer, saved, steady, restarts>>

DrainDone ==
  /\ pc = "drain" /\ queue = <<>>
  /\ pc' = IF refreshing THEN "read" ELSE "save"
  /\ UNCHANGED <<plan, now, inputs, queue, refreshing, lifecycle, timer, saved,
                 steady, restarts>>

\* _evaluate and current: the present states, whatever is still queued.
Evaluate ==
  /\ pc \in {"first", "read"}
  /\ Observe(contact, temperature, now)
  /\ pc' = "save"
  /\ UNCHANGED <<plan, now, inputs, queue, refreshing, timer, saved, steady, restarts>>

\* _complete: a change of the issue is saved, evidence alone may wait for a
\* later save; then _schedule.
Complete ==
  /\ pc = "save"
  /\ saved' \in {saved, Snapshot}
  /\ Snapshot # [saved EXCEPT !.monitor = Snapshot.monitor] => saved' = Snapshot
  /\ timer' = deadline
  /\ pc' = "idle"
  /\ UNCHANGED <<plan, now, inputs, queue, refreshing, lifecycle, steady, restarts>>

\* Mutant: the window is not looked at
ExpiredEnded(i) == i \in ended

\* _opening_request_expired
Expired(i) ==
  \/ i \in ended
  \/ i = issue /\ monitor.window.end # None /\ now >= monitor.window.end

\* async_send_notification: the attempt is saved before it is released.
Send(i) ==
  /\ pc = "idle"
  /\ i \in requests
  /\ ~Expired(i)
  /\ requests' = requests \ {i}
  /\ saved' = [Snapshot EXCEPT !.requests = requests']
  /\ UNCHANGED <<plan, now, inputs, queue, section, monitor, deadline,
                 issue, ended, cleared, cutoff, timer, steady, restarts>>

\* Home Assistant restarts, at any point; the reports of the meantime are
\* unseen, and an unfinished wait starts over.
Restart ==
  /\ restarts < MaxRestarts /\ restarts' = restarts + 1
  /\ \E t \in now .. now + MaxDown, c \in Contacts, w \in Temperatures :
       /\ t <= MaxNow
       /\ now' = t /\ contact' = c /\ temperature' = w
       /\ steady' = IF Qualifies(c, w, t) THEN t ELSE None
  /\ pc' = "first" /\ refreshing' = TRUE
  /\ queue' = <<>> /\ deadline' = None /\ timer' = None
  /\ monitor' = saved.monitor /\ issue' = saved.issue
  /\ ended' = saved.ended /\ cleared' = saved.cleared /\ requests' = saved.requests
  /\ UNCHANGED <<plan, changes, saved, cutoff>>

Next ==
  \/ Tick
  \/ \E c \in Contacts, w \in Temperatures : Report(c, w)
  \/ \E refresh \in BOOLEAN : Begin(refresh)
  \/ Drain \/ DrainDone \/ Evaluate \/ Complete
  \/ \E i \in Issues : Send(i)
  \/ Restart

Spec == Init /\ [][Next]_vars

-----------------------------------------------------------------------------
(* What watching an opening must keep                                      *)

Settled == pc = "idle" /\ queue = <<>> /\ (timer = None \/ timer > now)

Monitor == [since : Nat, qualified : BOOLEAN, window : [start : Nat, end : Nat]]

TypeOK ==
  /\ plan \in Plans /\ now \in Day .. MaxNow
  /\ contact \in Contacts /\ temperature \in Temperatures
  /\ queue \in Seq([contact : Contacts, temperature : Temperatures,
                    time : Day .. MaxNow, steady : 0 .. MaxNow])
  /\ pc \in {"idle", "first", "drain", "read", "save"}
  /\ refreshing \in BOOLEAN
  /\ monitor \in Monitor
  /\ deadline \in Nat /\ timer \in Nat
  /\ issue \in 0 .. MaxIssues
  /\ ended \subseteq Issues /\ cleared \subseteq Issues /\ requests \subseteq Issues
  /\ saved \in [monitor : Monitor, issue : 0 .. MaxIssues, ended : SUBSET Issues,
                cleared : SUBSET Issues, requests : SUBSET Issues]
  /\ steady \in 0 .. MaxNow
  /\ cutoff \in [Issues -> Nat]
  /\ changes \in 0 .. MaxChanges /\ restarts \in 0 .. MaxRestarts

\* An issue is raised only for an opening that reports say was open, in hours
\* and outside the limits for the whole duration, without a gap, a restart or
\* the boundary of a window in between (ADR 0112).  A refresh that evaluates
\* while reports wait is left out: it has not seen them yet.
NeverEarly ==
  [][(pc \in {"drain", "read"} /\ pc' # "first"
         /\ ~monitor.qualified /\ monitor'.qualified) =>
       \/ /\ queue' # queue
          /\ Head(queue).steady # None
          /\ Head(queue).time - Head(queue).steady >= plan.duration
       \/ /\ queue' = queue
          /\ queue # <<>> \/ (steady # None /\ now - steady >= plan.duration)]_vars

\* An opening that qualifies for its duration is raised when nothing is due:
\* the timer was set for it whatever else was evaluated in between.
RaisedInTime ==
  Settled /\ steady # None /\ now > steady + plan.duration => issue # None

\* Nothing stays raised that was closed or whose hours ended, over clock
\* changes, late reports and restarts into another window.
NothingStale ==
  Settled /\ issue # None =>
    /\ contact # "off" /\ Active(now)
    /\ monitor.qualified /\ monitor.window = Window(now)
    /\ cutoff[issue] = monitor.window.end

\* When nothing is due the issue stands exactly for as long as it should: it
\* was raised in time, and is gone once closed or past its hours.
IssueTimely == TypeOK /\ RaisedInTime /\ NothingStale

\* History claims recovery only after a report that the opening is closed: not
\* after a gap in the reports, mild weather, a restart or the end of the hours.
RecoveryIsReported ==
  [][(pc' # "first" /\ issue # None /\ issue \in cleared') =>
       IF queue' # queue THEN Head(queue).contact = "off" ELSE contact = "off"]_vars

\* No alert reaches a transport after the window of its issue has ended, unless
\* the opening was reported closed meanwhile.
NoLateAlert ==
  [][\A i \in requests \ requests' :
       pc = "idle" /\ pc' = "idle" => now < cutoff[i] \/ cutoff[i] = None \/ i \in cleared]_vars

\* "History explains that the monitoring window ended" (ADR 0112): it does so
\* only when the window the issue was opened in is over.
EndedByWindow ==
  [][\A i \in ended' \ ended : pc' # "first" => now >= cutoff[i]]_vars
=============================================================================
