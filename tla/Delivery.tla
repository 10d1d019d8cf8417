------------------------------ MODULE Delivery ------------------------------
(***************************************************************************)
(* How requests are composed: DeliveryState of custom_components/          *)
(* homeostatic/delivery.py as Notifications.record drives it, for one      *)
(* recipient and one inline route.  An issue has a message of its own or   *)
(* is a member of a summary (startup, activation, digest), whose one       *)
(* message is replaced as a whole under the tag of the summary.            *)
(*                                                                         *)
(* When an issue ends and when the policy authorises a request is decided  *)
(* by the health-tree library and is a free choice here.  The phones       *)
(* follow the published requests in the order of their events.  Texts,     *)
(* loudness and delivery ids are left out; device messages and reusable    *)
(* collections, whose membership the library keeps, as well.               *)
(***************************************************************************)
EXTENDS Naturals, SequencesExt

CONSTANTS
  Episodes,      \* open issues; each may end once
  Phones,        \* destinations a delivery method may choose
  MaxAlerts,     \* bound: alerting requests the policy authorises
  MaxUpdates,    \* bound: silent updates it authorises
  MaxRestarts,   \* bound: restarts of Home Assistant
  MaxOutbox      \* bound: requests waiting to be published

ASSUME DeliveryBounds ==
  /\ MaxAlerts \in Nat
  /\ MaxUpdates \in Nat
  /\ MaxRestarts \in Nat
  /\ MaxOutbox \in Nat

\* Issues are finitely many and no issue is named like a summary.
ASSUME DeliveryNames ==
  /\ IsFiniteSet(Episodes)
  /\ Episodes \cap {"startup", "activation", "digest"} = {}

VARIABLES
  state,      \* DeliveryState: its messages (by issue) and its outbox
  held,       \* the startup hold: _quiet_since is not None
  enabled,    \* settings.notifications
  fixed,      \* the method always resolves to every phone; otherwise to the
              \* phones presence selects at that moment, possibly none
  scheduled,  \* the route is a scheduled report; otherwise it alerts at
              \* once and may remind
  ended,      \* the issues that have ended
  sent,       \* the issues the policy has authorised a request for
  screen,     \* what each phone shows under each tag
  owed,       \* history: issues with an alert that is not published yet, and
              \* the phones chosen for it
  heldReport, \* history: a report was due during a startup hold
  alerts, updates, restarts

vars == <<state, held, enabled, fixed, scheduled, ended, sent, screen, owed,
          heldReport, alerts, updates, restarts>>

Summaries == {"startup", "activation", "digest"}
Alone == "alone"
Tags == Episodes \cup Summaries

Message == [group : Summaries \cup {Alone},
            channels : SUBSET Phones, targets : SUBSET Phones]

\* A request of the outbox; one without episodes is a resolve of its tag.
Request == [tag : Tags, episodes : SUBSET Episodes,
            channels : SUBSET Phones, alerting : SUBSET Episodes]

-----------------------------------------------------------------------------
(* DeliveryState: every operator maps one state of it to the next.         *)

NoMessage == [group |-> Alone, channels |-> {}, targets |-> {}]

Recorded(s) == DOMAIN s.messages

Previous(s, e) == IF e \in Recorded(s) THEN s.messages[e] ELSE NoMessage

Members(s, g) == {e \in Recorded(s) : s.messages[e].group = g}

\* The tag under which a recorded issue is shown.
TagOf(s, e) == IF s.messages[e].group = Alone THEN e ELSE s.messages[e].group

Unsent(s, tag) == {p \in ToSet(s.outbox) : p.tag = tag}

\* The requests of box that are in keep, in their order.
Keep(box, keep) ==
  LET kept[i \in 0 .. Len(box)] ==
        IF i = 0 THEN <<>>
        ELSE IF box[i] \in keep THEN Append(kept[i - 1], box[i])
        ELSE kept[i - 1]
  IN kept[Len(box)]

Without(box, tag) == Keep(box, {p \in ToSet(box) : p.tag # tag})

Show(tag, episodes, channels, alerting) ==
  [tag |-> tag, episodes |-> episodes, channels |-> channels,
   alerting |-> alerting]

Clear(tag, channels) == Show(tag, {}, channels, {})

\* Mutant: the alerts of the request that is replaced are lost
NoisyForgets(s, g, alerts_now) == Members(s, g) \cap alerts_now

\* Mutant: a summary that rings rings for all its members
NoisyAll(s, g, alerts_now) ==
  {e \in Members(s, g) :
     alerts_now \cup UNION {p.alerting : p \in Unsent(s, g)} # {}}

\* The members a summary rings for: those alerted now and those whose alert
\* waits in the request that is replaced.
Noisy(s, g, alerts_now) ==
  Members(s, g) \cap (alerts_now \cup UNION {p.alerting : p \in Unsent(s, g)})

\* Mutant: the earlier request of the summary is kept
ReplaceKeeping(box, request) == Append(box, request)

Replace(box, request) == Append(Without(box, request.tag), request)

\* _group: replace the pending request of a summary by one with its present
\* members.  A summary that rings goes to the phones of the members it rings
\* for, a silent one to every phone that got an earlier request.
Group(s, g, previous, alerts_now) ==
  LET members == Members(s, g)
      noisy == Noisy(s, g, alerts_now)
      history == previous.targets \cup
                 UNION {s.messages[e].targets : e \in members}
      channels == IF noisy = {} THEN history
                  ELSE UNION {s.messages[e].channels : e \in noisy}
  IN [messages |-> [e \in Recorded(s) |->
                      IF e \in members
                      THEN [s.messages[e] EXCEPT !.targets = history]
                      ELSE s.messages[e]],
      outbox |-> Replace(s.outbox,
                         IF members = {} THEN Clear(g, previous.targets)
                         ELSE Show(g, members, channels, noisy))]

\* The message an issue had of its own is withdrawn.
Withdraw(s, e, channels) ==
  [messages |-> s.messages,
   outbox |-> Append(Without(s.outbox, e), Clear(e, channels))]

\* Where a notification is presented.
GroupFor(previous, cause, silent) ==
  CASE cause = "activate"  -> "activation"
    [] cause # "activate" /\ held /\ ~silent -> "startup"
    [] cause = "digest" /\ ~(held /\ ~silent) -> "digest"
    [] cause = "issue" /\ silent -> previous.group
    [] cause = "issue" /\ ~silent /\ ~held -> Alone

\* Mutant: the earlier message stays on the phones
MoveOutNowhere(s, e, group, previous) == s

\* The issue leaves its earlier message: its summary is refreshed, or its own
\* message is withdrawn from the phones of its latest request.
MoveOut(s, e, group, previous) ==
  CASE previous.group = group -> s
    [] previous.group # group /\ previous.group # Alone ->
         Group(s, previous.group, previous, {})
    [] OTHER -> Withdraw(s, e, previous.channels)

\* record of a Notification.  Texts are not modelled, so whether a silent
\* replacement is identical to the previous one, and not sent, is a choice.
Notify(s, e, cause, silent, resolved, identical) ==
  LET known == e \in Recorded(s)
      previous == Previous(s, e)
      group == GroupFor(previous, cause, silent)
      channels == IF silent /\ known THEN previous.targets ELSE resolved
      message == [group |-> group, channels |-> channels,
                  targets |-> previous.targets \cup channels]
      recorded == [messages |-> [x \in Recorded(s) \cup {e} |->
                                  IF x = e THEN message ELSE s.messages[x]],
                   outbox |-> s.outbox]
      moved == IF known THEN MoveOut(recorded, e, group, previous) ELSE recorded
      alerting == IF silent THEN {} ELSE {e}
  IN CASE group # Alone -> Group(moved, group, previous, alerting)
       [] group = Alone /\ silent /\ known /\ identical -> moved
       [] OTHER -> [messages |-> moved.messages,
                    outbox |-> Append(moved.outbox,
                                      Show(e, {e}, channels, alerting))]

Forget(s, E) ==
  [messages |-> [e \in Recorded(s) \ E |-> s.messages[e]],
   outbox |-> s.outbox]

\* record of a ResolutionNotice.  Outbox items are dropped by their episode
\* id, which for the requests modelled here is their tag.
Resolve(s, e) ==
  LET previous == Previous(s, e)
      dropped == [messages |-> Forget(s, {e}).messages,
                  outbox |-> Without(s.outbox, e)]
  IN CASE e \notin Recorded(s) -> dropped
       [] previous.group # Alone -> Group(dropped, previous.group, previous, {})
       [] OTHER -> Withdraw(dropped, e, previous.targets)

\* prepare_reports: the members of a new report are those it was made for.
PrepareReports(s, E) == Forget(s, Members(s, "digest") \ E)

\* deactivate: withdraw every message; requests not yet sent are dropped.
\* The members of a summary share their targets.
Deactivate(s) ==
  LET tags == SetToSeq({TagOf(s, e) : e \in Recorded(s)})
      TargetsOf(tag) ==
        UNION {s.messages[e].targets : e \in {x \in Recorded(s) : TagOf(s, x) = tag}}
  IN [messages |-> <<>>,
      outbox |-> Keep(s.outbox, {p \in ToSet(s.outbox) : p.episodes = {}}) \o
                 [i \in DOMAIN tags |-> Clear(tags[i], TargetsOf(tags[i]))]]

\* The deliveries of one library call are recorded one after the other.
NotifyAll(s, order, cause, resolved) ==
  LET after[i \in 0 .. Len(order)] ==
        IF i = 0 THEN s
        ELSE Notify(after[i - 1], order[i], cause, FALSE, resolved, FALSE)
  IN after[Len(order)]

\* A request as the phones it goes to show it.
Showing(shown, p) ==
  [c \in Phones |->
     IF c \in p.channels THEN [shown[c] EXCEPT ![p.tag] = p.episodes]
     ELSE shown[c]]

\* publish: one request after the other.
Published(shown, box) ==
  LET after[i \in 0 .. Len(box)] ==
        IF i = 0 THEN shown ELSE Showing(after[i - 1], box[i])
  IN after[Len(box)]

-----------------------------------------------------------------------------
Init ==
  /\ state = [messages |-> <<>>, outbox |-> <<>>]
  /\ held = TRUE
  /\ enabled = TRUE
  /\ fixed \in BOOLEAN
  /\ scheduled \in BOOLEAN
  /\ ended = {}
  /\ sent = {}
  /\ screen = [c \in Phones |-> [t \in Tags |-> {}]]
  /\ owed = <<>>
  /\ heldReport = FALSE
  /\ alerts = 0
  /\ updates = 0
  /\ restarts = 0

\* resolve_channels: what the delivery method resolves to now.
Resolved == IF fixed THEN {Phones} ELSE SUBSET Phones

\* History: the alerts for E were chosen for these phones; alerts for issues
\* that are no longer recorded are not owed any more.
Owe(E, resolved) ==
  owed' = [e \in (DOMAIN owed \cup E) \cap Recorded(state') |->
             IF e \in E THEN resolved ELSE owed[e]]

Bounded == Len(state'.outbox) <= MaxOutbox

Same == <<fixed, scheduled, heldReport>>

\* An issue opens, or a reminder of it is due.
Alert(e) ==
  /\ enabled /\ ~scheduled
  /\ e \notin ended
  /\ alerts < MaxAlerts
  /\ \E resolved \in Resolved :
       /\ state' = Notify(state, e, "issue", FALSE, resolved, FALSE)
       /\ Owe({e}, resolved)
  /\ Bounded
  /\ sent' = sent \cup {e}
  /\ alerts' = alerts + 1
  /\ UNCHANGED <<Same, held, enabled, ended, screen, updates, restarts>>

\* Facts of an open issue the recipient knows about changed.
SilentUpdate(e) ==
  /\ enabled
  /\ e \in sent
  /\ updates < MaxUpdates
  /\ \E resolved \in Resolved, identical \in BOOLEAN :
       state' = Notify(state, e, "issue", TRUE, resolved, identical)
  /\ Bounded
  /\ Owe({}, {})
  /\ updates' = updates + 1
  /\ UNCHANGED <<Same, held, enabled, ended, sent, screen, alerts, restarts>>

\* The scheduled report is due for the issues of order.
Report(order) ==
  /\ enabled /\ scheduled
  /\ order # <<>>
  /\ ToSet(order) \cap ended = {}
  /\ alerts < MaxAlerts
  /\ \E resolved \in Resolved :
       /\ state' = NotifyAll(PrepareReports(state, ToSet(order)),
                             order, "digest", resolved)
       /\ Owe(ToSet(order), resolved)
  /\ Bounded
  /\ sent' = sent \cup ToSet(order)
  /\ heldReport' = (heldReport \/ held)
  /\ alerts' = alerts + 1
  /\ UNCHANGED <<fixed, scheduled, held, enabled, ended, screen, updates, restarts>>

\* The issue ends; nothing is recorded while sending is off.
End(e) ==
  /\ e \notin ended
  /\ ended' = ended \cup {e}
  /\ state' = IF enabled /\ e \in sent THEN Resolve(state, e) ELSE state
  /\ Bounded
  /\ sent' = sent \ {e}
  /\ Owe({}, {})
  /\ UNCHANGED <<Same, held, enabled, screen, alerts, updates, restarts>>

\* Sending is turned off: advance deactivates everything.
Disable ==
  /\ enabled
  /\ enabled' = FALSE
  /\ state' = Deactivate(state)
  /\ Bounded
  /\ sent' = {}
  /\ Owe({}, {})
  /\ UNCHANGED <<Same, held, ended, screen, alerts, updates, restarts>>

\* Sending is turned on, or the assignment changed: _complete deactivates and
\* the policy authorises the open issues of order anew, a scheduled report
\* only when it is due.
Activate(order) ==
  /\ ToSet(order) \cap ended = {}
  /\ scheduled => order = <<>>
  /\ alerts < MaxAlerts
  /\ enabled' = TRUE
  /\ \E resolved \in Resolved :
       /\ state' = NotifyAll(Deactivate(state), order, "activate", resolved)
       /\ Owe(ToSet(order), resolved)
  /\ Bounded
  /\ sent' = ToSet(order)
  /\ alerts' = alerts + 1
  /\ UNCHANGED <<Same, held, ended, screen, updates, restarts>>

\* The requests of the outbox are published in their order.  When the save
\* that clears the outbox fails, requeue keeps them, to be published again.
Publish(cleared) ==
  /\ ~held
  /\ state.outbox # <<>>
  /\ screen' = Published(screen, state.outbox)
  /\ state' = IF cleared THEN [messages |-> state.messages, outbox |-> <<>>]
              ELSE state
  /\ owed' = IF cleared THEN <<>> ELSE owed
  /\ UNCHANGED <<Same, held, enabled, ended, sent, alerts, updates, restarts>>

\* _end_quiet: watched integrations finished loading, or the cap passed.
EndHold ==
  /\ held
  /\ held' = FALSE
  /\ UNCHANGED <<Same, state, enabled, ended, sent, screen, owed,
                 alerts, updates, restarts>>

\* Home Assistant starts again: the saved delivery state is restored and the
\* startup hold begins.
Restart ==
  /\ ~held
  /\ restarts < MaxRestarts
  /\ restarts' = restarts + 1
  /\ held' = TRUE
  /\ UNCHANGED <<Same, state, enabled, ended, sent, screen, owed,
                 alerts, updates>>

Orders == UNION {SetToSeqs(E) : E \in SUBSET Episodes}

Next ==
  \/ \E e \in Episodes : Alert(e) \/ SilentUpdate(e) \/ End(e)
  \/ \E order \in Orders : Report(order) \/ Activate(order)
  \/ Disable
  \/ \E cleared \in BOOLEAN : Publish(cleared)
  \/ EndHold
  \/ Restart

Spec == Init /\ [][Next]_vars

-----------------------------------------------------------------------------
(* What composing requests must keep                                       *)

\* Types; the alerts that are owed are for recorded issues.
TypeOK ==
  /\ Recorded(state) \subseteq Episodes
  /\ \A e \in Recorded(state) : state.messages[e] \in Message
  /\ state.outbox \in Seq(Request)
  /\ held \in BOOLEAN /\ enabled \in BOOLEAN /\ fixed \in BOOLEAN
  /\ scheduled \in BOOLEAN /\ heldReport \in BOOLEAN
  /\ ended \subseteq Episodes
  /\ sent \subseteq Episodes
  /\ screen \in [Phones -> [Tags -> SUBSET Episodes]]
  /\ DOMAIN owed \subseteq Recorded(state)
  /\ \A e \in DOMAIN owed : owed[e] \subseteq Phones
  /\ alerts \in 0 .. MaxAlerts
  /\ updates \in 0 .. MaxUpdates
  /\ restarts \in 0 .. MaxRestarts

\* A request of a summary that waits shows exactly the members of now, and no
\* other request of that summary waits.
CurrentSummary(g) ==
  \A i \in DOMAIN state.outbox : state.outbox[i].tag = g =>
    /\ state.outbox[i].episodes = Members(state, g)
    /\ \A j \in DOMAIN state.outbox : state.outbox[j].tag = g => j = i

\* A report that is due during a startup hold is presented as a startup
\* summary and forgets members of the earlier report; what is said of the
\* digest is said of behaviours without it.
Sound == Summaries \ (IF heldReport THEN {"digest"} ELSE {})

\* However updates, moves, resolutions and failed publications interleave, a
\* replayed request of a summary is the only one and shows who is in it.
OneCurrentSummary == \A g \in Sound : CurrentSummary(g)

\* A waiting request that shows an issue under its own tag is dropped when the
\* issue ends, moves into a summary or sending is turned off, so that a replay
\* after a restart cannot show it again.
NoStaleIssueRequest ==
  \A i \in DOMAIN state.outbox :
    (state.outbox[i].tag \in Episodes /\ state.outbox[i].episodes # {}) =>
      /\ state.outbox[i].tag \in Recorded(state)
      /\ state.messages[state.outbox[i].tag].group = Alone

\* What waits to be published is well formed, and shows what is so now.
OutboxCurrent == TypeOK /\ OneCurrentSummary /\ NoStaleIssueRequest

\* An alert that is not published yet survives every later update, move and
\* resolution of another issue: it waits in a request that alerts for the
\* issue on each of the phones chosen for it.
AlertsKept ==
  \A e \in DOMAIN owed : \A c \in owed[e] :
    \E i \in DOMAIN state.outbox :
      e \in state.outbox[i].alerting /\ c \in state.outbox[i].channels

\* Silent updates, moves and partial recoveries never ring for an issue whose
\* alert was published before: a step that makes a request ring for an issue
\* is one that alerts for it.
Ringing(s) == UNION {p.alerting : p \in ToSet(s.outbox)}

NoRepeatedAlert ==
  [][Ringing(state') \subseteq Ringing(state) \cup DOMAIN owed']_vars

\* With a fixed method and nothing left to publish, every phone shows exactly
\* what is recorded: each summary with its members, and under the tag of an
\* issue that has not ended its own message or nothing.
PhonesShowRecord ==
  (fixed /\ state.outbox = <<>>) =>
    \A c \in Phones :
      /\ \A g \in Sound : screen[c][g] = Members(state, g)
      /\ \A e \in Episodes \ ended :
           screen[c][e] = {e} \cap Members(state, Alone)

\* "Its old message gets a resolve", "Silent updates and resolutions ... go
\* out when the hold ends" (docs/events.md): with nothing left to publish no
\* phone shows the message of an issue that ended.
EndedIssuesWithdrawn ==
  (fixed /\ state.outbox = <<>>) =>
    \A c \in Phones, e \in ended : screen[c][e] = {}

\* "Clearing or updating previously sent messages uses the destinations that
\* received those requests, even if someone has since left home" (ADR 0056):
\* a phone that shows a summary is a target of it until a request that
\* withdraws the summary from that phone waits.
SummaryTargetsKept ==
  \A g \in Summaries, c \in Phones : screen[c][g] # {} =>
    \/ \E e \in Members(state, g) : c \in state.messages[e].targets
    \/ \E p \in Unsent(state, g) : p.episodes = {} /\ c \in p.channels

\* "Superseded unsent summaries cannot resurrect a removed member on replay"
\* (delivery.py): what waits of any summary shows its members of now.
SupersededNeverReplayed == \A g \in Summaries : CurrentSummary(g)
=============================================================================
