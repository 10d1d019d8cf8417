--------------------------- MODULE ScopedSettings ---------------------------
(***************************************************************************)
(* Editing the saved settings from the panel: drafts over confirmed        *)
(* settings, saved one scope at a time (frontend/scoped-configuration.mjs) *)
(* in editor state that survives the replacement of the panel              *)
(* (panel-drafts.mjs), against the server's save under a revision          *)
(* (dashboard.py).  Other administrators save in between, requests fail,   *)
(* the connection drops, permissions change and the panel is replaced.     *)
(***************************************************************************)
EXTENDS Integers, FiniteSets, Sequences

CONSTANTS
  Panels,          \* the panel elements Home Assistant creates, one after the other
  General,         \* the fields of the installation settings, merged one by one
  Policies, Methods, Profiles,  \* the ids that may name a definition
  Inline,          \* the default and assigned rows, which no editor edits
  Switch,          \* the global Notifications switch
  Opening,         \* the settings when the panel opens: key -> value
  Typed,           \* the values a user may type: key -> set of values
  Elsewhere,       \* the changes of other administrators: set of [key, value]
  Sources,         \* entities whose availability monitoring may be changed
  None,
  MaxEdits, MaxSaves, MaxOthers, MaxFaults, MaxMoves, MaxSpent  \* bounds of the instance

VARIABLES
  server,     \* the saved settings; their digest is the revision
  sessions,   \* editor states by number: draftless, or one record each
  mapped,     \* the session kept for the connection (the WeakMap), or NoSession
  panels,     \* the panel elements: session, reload, admin, review
  page,       \* attached (the panel in the page), latest, admin (the user's permission)
  feed,       \* the store: up, and the switch as its last event shows it
  down,       \* replies and events on their way to the browser, in order
  spent       \* edits, saves, others, faults and moves so far

vars == <<server, sessions, mapped, panels, page, feed, down, spent>>

Keys == General \cup Policies \cup Methods \cup Profiles \cup {Inline, Switch}
Items == Methods \cup Profiles
(* A value names the definitions it uses and, a policy's, the sources left *)
(* out; its version stands for the rest of it.                             *)
Values == [version: Nat, uses: SUBSET Items, excluded: SUBSET Sources]
Entry == Values \cup {None}
Settings == [Keys -> Entry]

NoSession == 0
SessionIds == 1..(MaxMoves + 1)   \* only moves make new ones

Spend(kind, limit) ==
  /\ spent[kind] < limit
  /\ spent.edits + spent.saves + spent.others + spent.faults + spent.moves < MaxSpent
  /\ spent' = [spent EXCEPT ![kind] = @ + 1]

-----------------------------------------------------------------------------
(* Settings: every value names the definitions it uses. *)

UsesOf(value) == IF value = None THEN {} ELSE value.uses

(* Validation: a saved row names definitions that exist. *)
Valid(settings) == \A k \in Keys : \A i \in UsesOf(settings[k]) : settings[i] # None

With(settings, changes) ==
  [k \in Keys |-> IF k \in DOMAIN changes THEN changes[k] ELSE settings[k]]

Without(value, id, replacement) ==
  IF id \notin UsesOf(value) THEN value
  ELSE [value EXCEPT !.uses = (@ \ {id}) \cup ({replacement} \ {None})]

-----------------------------------------------------------------------------
(* Editor state *)

Unset == [set |-> FALSE]

Untyped == [k \in Keys |-> Unset]

(* conf: confirmed settings and with them their revision; base: what each  *)
(* draft started from; task: the read or save under way.  typed is a       *)
(* record for the properties: the unsaved entries of the user.             *)
FreshEditors ==
  [owner |-> None, conf |-> None, draft |-> None, base |-> None, refresh |-> FALSE,
   task |-> None, typed |-> Untyped, left |-> FALSE]

(* scopedDirty *)
Dirty(e, k) == e.draft[k] # e.conf[k]

\* Mutant: refreshed settings replace the drafts.
RebaseAll(e, fresh) ==
  [e EXCEPT !.conf = fresh, !.refresh = FALSE, !.draft = fresh, !.base = fresh]

(* rebaseScopedConfiguration: what is not edited, or was edited to what is *)
(* now saved, follows the saved settings.                                  *)
Rebase(e, fresh) ==
  LET follows(k) == k = Inline \/ e.draft[k] = e.base[k] \/ e.draft[k] = fresh[k]
      merged(old) == [k \in Keys |-> IF follows(k) THEN fresh[k] ELSE old[k]]
  IN [e EXCEPT !.conf = fresh, !.refresh = FALSE,
               !.draft = merged(@), !.base = merged(@),
               !.typed = [k \in Keys |-> IF e.draft[k] = fresh[k] THEN Unset ELSE @[k]]]

Loaded(e, fresh) ==
  IF e.conf # None THEN Rebase(e, fresh)
  ELSE [e EXCEPT !.conf = fresh, !.draft = fresh, !.base = fresh]

(* An entry is typed over [from], what the editor showed as saved. *)
Edited(e, k, value) ==
  [e EXCEPT !.draft[k] = value,
            !.typed[k] = IF value = e.base[k] THEN Unset
                         ELSE [set |-> TRUE, value |-> value,
                               from |-> IF @.set THEN @.from ELSE e.draft[k]]]

(* discardScopedConfiguration *)
Discarded(e, scope) ==
  [e EXCEPT !.draft = [k \in Keys |-> IF k \in scope THEN e.conf[k] ELSE @[k]],
            !.base = [k \in Keys |-> IF k \in scope THEN e.conf[k] ELSE @[k]],
            !.typed = [k \in Keys |-> IF k \in scope THEN Unset ELSE @[k]]]

Scopes == {General} \cup {{k} : k \in Policies \cup Items}

-----------------------------------------------------------------------------
(* What a save submits: proposal.  None is a refusal in the panel. *)

(* The entries of a scope the save writes: the edited fields of the        *)
(* installation settings, or the one definition.                           *)
Submitted(e, scope) ==
  IF scope = General THEN {k \in General : e.draft[k] # e.base[k]} ELSE scope

\* Mutant: the whole draft is submitted, whatever is being saved.
ScopeProposalWhole(e, scope) ==
  IF \A k \in Submitted(e, scope) : e.conf[k] = e.base[k] THEN e.draft ELSE None

ScopeProposal(e, scope) ==
  IF \A k \in Submitted(e, scope) : e.conf[k] = e.base[k]
  THEN With(e.conf, [k \in Submitted(e, scope) |-> e.draft[k]])
  ELSE None

(* Entries of the panel's draft or of the saved settings that use [id]. *)
Users(e, id) == {k \in Keys : id \in UsesOf(e.conf[k]) \cup UsesOf(e.draft[k])}

Kin(id) == IF id \in Methods THEN Methods ELSE Profiles

\* Mutant: the policies that use the definition are left as they are.
RemovalProposalKeepsUses(e, id, replacement, drop) ==
  IF e.conf[id] = None \/ Dirty(e, id) THEN None ELSE With(e.conf, [k \in {id} |-> None])

(* removeMethod and removeProfile: with every reference to it. *)
RemovalProposal(e, id, replacement, drop) ==
  IF /\ e.conf[id] # None /\ ~Dirty(e, id)
     /\ replacement # None => replacement \in Kin(id) \ {id} /\ e.conf[replacement] # None
     /\ \A k \in Users(e, id) \ {Inline} : ~Dirty(e, k)
     /\ drop \/ replacement # None \/ \A k \in Keys : id \notin UsesOf(e.conf[k])
  THEN [k \in Keys |-> IF k = id THEN None ELSE Without(e.conf[k], id, replacement)]
  ELSE None

(* The reviewed change of availability exclusions, over exactly the        *)
(* settings it was reviewed with.                                          *)
ReviewProposal(e, review) ==
  IF /\ review.revision = e.conf
     /\ \A k \in review.affected : ~Dirty(e, k)
  THEN With(e.conf, [k \in review.affected |-> review.after[k]]) ELSE None

Proposal(e, op) ==
  CASE op.kind = "save" -> ScopeProposal(e, op.scope)
    [] op.kind = "switch" -> With(e.conf, [k \in {Switch} |-> op.value])
    [] op.kind = "remove" -> RemovalProposal(e, op.id, op.replacement, op.drop)
    [] op.kind = "availability" -> ReviewProposal(e, op.review)

(* acceptSubmitted: only what was submitted becomes the new baseline.  An  *)
(* entry typed as it was saved, and then removed or reviewed, is not       *)
(* unsaved work.                                                           *)
Accepted(e, op, submitted) ==
  LET scope == CASE op.kind = "save" -> op.scope
                 [] op.kind = "switch" -> {Switch}
                 [] op.kind = "remove" -> {op.id}
                 [] op.kind = "availability" -> op.review.affected
      drawn == CASE op.kind = "save" -> {}
                 [] op.kind = "availability" ->
                      {k \in scope : e.draft[k] = op.review.revision[k]}
                 [] OTHER -> scope
      over(old, ks) == [k \in Keys |-> IF k \in ks THEN submitted[k] ELSE old[k]]
      confirmed(k) == k \in scope /\ e.typed[k].set
                        /\ e.typed[k].value \in {submitted[k], e.conf[k]}
  IN [e EXCEPT !.base = over(@, scope), !.draft = over(@, drawn),
               !.typed = [k \in Keys |-> IF confirmed(k) THEN Unset ELSE @[k]]]

-----------------------------------------------------------------------------
(* Requests.  A request is answered from the settings at the moment it is  *)
(* made; the reply, and the event of a change before it, are the delay.    *)

Reply(s, answer) == <<[kind |-> "reply", to |-> s, answer |-> answer]>>
Announce(settings) == <<[kind |-> "event", on |-> settings[Switch]]>>

Read(settings) == [ok |-> TRUE, settings |-> settings]
Saved == [ok |-> TRUE]
Refusal(code) == [ok |-> FALSE, code |-> code]

(* What becomes of a request: editor state, saved settings, messages. *)
Outcome(e, settings, sent, fault) ==
  [editors |-> e, settings |-> settings, sent |-> sent, fault |-> fault]

Finished(e) == Outcome([e EXCEPT !.task = None], server, <<>>, FALSE)

(* websocket_configuration, which may find no runtime. *)
Asking(e, s, task, settings) ==
  {Outcome([e EXCEPT !.task = task], settings, Reply(s, Read(settings)), FALSE),
   Outcome([e EXCEPT !.task = task], settings, Reply(s, Refusal("not_ready")), TRUE)}

(* _async_save_settings under the save lock; a failure restores what was. *)
Writing(e, s, task, candidate) ==
  LET now == [e EXCEPT !.task = task]
      refused(code, fault) == Outcome(now, server, Reply(s, Refusal(code)), fault)
  IN IF server # e.conf THEN {refused("stale_configuration", FALSE)}
     ELSE IF ~Valid(candidate) THEN {refused("invalid_settings", FALSE)}
     ELSE {Outcome(now, candidate, Announce(candidate) \o Reply(s, Saved), FALSE),
           refused("apply_failed", TRUE)}

Task(p, op, phase) == [panel |-> p, op |-> op, phase |-> phase, candidate |-> None]

(* The try block of saveScopedConfiguration from the proposal on. *)
Submit(e, s, p, op) ==
  LET candidate == Proposal(e, op)
  IN IF candidate = None THEN {Finished([e EXCEPT !.refresh = TRUE])}
     ELSE IF candidate = e.conf THEN {Finished(e)}
     ELSE Writing(e, s, [Task(p, op, "write") EXCEPT !.candidate = candidate], candidate)

Begin(e, s, p, op) ==
  IF e.refresh THEN Asking(e, s, Task(p, op, "refresh"), server) ELSE Submit(e, s, p, op)

(* The continuation of the task after each await. *)
Continued(e, s, answer) ==
  LET t == e.task IN
  CASE t.phase = "load" -> {Finished(IF answer.ok THEN Loaded(e, answer.settings) ELSE e)}
    [] t.phase = "refresh" /\ answer.ok -> Submit(Rebase(e, answer.settings), s, t.panel, t.op)
    [] t.phase = "write" /\ answer.ok ->
         Asking(Accepted(e, t.op, t.candidate), s, Task(t.panel, t.op, "reread"), server)
    [] t.phase = "reread" /\ answer.ok -> {Finished(Rebase(e, answer.settings))}
    [] OTHER ->
         {Finished([e EXCEPT !.refresh = \/ t.phase = "reread"
                                         \/ answer.code \in {None, "stale_configuration"}])}

-----------------------------------------------------------------------------
(* Sessions and panels *)

Attached == page.attached # None

NewSession ==
  CHOOSE s \in SessionIds :
    /\ s # mapped /\ \A p \in Panels : panels[p].session # s
    /\ \A i \in DOMAIN down : down[i].kind = "reply" => down[i].to # s
    /\ s \in DOMAIN sessions /\ sessions[s].task = None /\ ~sessions[s].left

(* unfinished: work that a replacement panel has to find again. *)
Unfinished(e) == e.task # None \/ e.draft # e.conf

(* forgetIfFinished *)
Forget(all, s) ==
  IF all[s].owner = None /\ ~Unfinished(all[s]) /\ mapped = s THEN NoSession ELSE mapped

(* A listener of the store: configuration that is missing, suspect or      *)
(* visibly out of date is read, unless a request is under way.             *)
Listener(p, all, on, kept) ==
  LET s == panels[p].session
      e == all[s]
      wanted == e.conf = None \/ kept \/ e.conf[Switch] # on
  IN IF e.task = None /\ wanted THEN Asking(e, s, Task(p, None, "load"), server)
     ELSE {Outcome(e, server, <<>>, FALSE)}

Faulted(o) == IF o.fault THEN Spend("faults", MaxFaults) ELSE UNCHANGED spent

-----------------------------------------------------------------------------
FreshPanel == [session |-> NoSession, reload |-> FALSE, admin |-> TRUE, review |-> None]

Init ==
  /\ server = Opening
  /\ sessions = [s \in SessionIds |-> FreshEditors]
  /\ mapped = NoSession
  /\ panels = [p \in Panels |-> FreshPanel]
  /\ page = [attached |-> None, used |-> {}, latest |-> None, admin |-> TRUE]
  /\ feed = [up |-> TRUE, on |-> Opening[Switch]]
  /\ down = <<>>
  /\ spent = [edits |-> 0, saves |-> 0, others |-> 0, faults |-> 0, moves |-> 0]

-----------------------------------------------------------------------------
(* The panel in the page *)

(* connectPanelDrafts: the panel takes its own session again, or the one   *)
(* kept for the connection, or a new one.                                  *)
Connected(p, admin) ==
  LET own == panels[p].session
      again == own # NoSession /\ admin
      found == own = NoSession /\ mapped # NoSession /\ admin
      s == IF again THEN own ELSE IF found THEN mapped ELSE NewSession
      start == IF again \/ found THEN sessions[s] ELSE FreshEditors
      restored == found \/ (again /\ start.owner # p)
      parted == IF own # NoSession /\ ~again
                THEN [sessions EXCEPT ![own].owner = None, ![own].left = TRUE] ELSE sessions
  IN [session |-> s, restored |-> restored,
      sessions |-> [parted EXCEPT ![s] =
                      [start EXCEPT !.owner = p,
                                    !.refresh = @ \/ (restored /\ start.conf # None)]],
      mapped |-> IF admin THEN s
                 ELSE NoSession]

(* The panel is opened, moved within the page or replaced by another; the  *)
(* one replaced does not come back.                                        *)
Attach(p) ==
  /\ ~Attached /\ (p = page.latest \/ p \notin page.used)
  /\ IF page.used = {} THEN UNCHANGED spent ELSE Spend("moves", MaxMoves)
  /\ LET c == Connected(p, page.admin) IN
     /\ sessions' = c.sessions
     /\ mapped' = c.mapped
     /\ panels' = [panels EXCEPT ![p] = [@ EXCEPT !.session = c.session, !.admin = page.admin,
                                                  !.reload = @ \/ c.restored]]
  /\ page' = [page EXCEPT !.attached = p, !.latest = p, !.used = @ \cup {p}]
  /\ down' = IF feed.up THEN down \o Announce(server) ELSE down
  /\ UNCHANGED <<server, feed>>

(* disconnectedCallback: a request under way goes on. *)
Detach ==
  /\ Attached
  /\ Spend("moves", MaxMoves)
  /\ LET s == panels[page.attached].session
         all == [sessions EXCEPT ![s].owner = None]
     IN sessions' = all /\ mapped' = Forget(all, s)
  /\ panels' = [panels EXCEPT ![page.attached].review = None]
  /\ page' = [page EXCEPT !.attached = None]
  /\ UNCHANGED <<server, feed, down>>

(* The user's permission is withdrawn or granted: set hass on the panel. *)
Permission ==
  /\ Attached
  /\ Spend("moves", MaxMoves)
  /\ LET p == page.attached
         c == Connected(p, ~page.admin)
     IN /\ sessions' = c.sessions
        /\ mapped' = c.mapped
        /\ panels' = [panels EXCEPT ![p] = [session |-> c.session, admin |-> ~page.admin,
                                            reload |-> c.restored, review |-> None]]
  /\ page' = [page EXCEPT !.admin = ~@]
  /\ down' = IF page.admin \/ ~feed.up THEN down ELSE down \o Announce(server)
  /\ UNCHANGED <<server, feed>>

-----------------------------------------------------------------------------
(* The user *)

Here == page.attached
Editing == sessions[panels[Here].session]
Ready == Attached /\ page.admin /\ Editing.conf # None

Keep(e) == sessions' = [sessions EXCEPT ![panels[Here].session] = e]

Type(k, value) ==
  /\ value # Editing.draft[k]
  /\ Spend("edits", MaxEdits)
  /\ Keep(Edited(Editing, k, value))
  /\ UNCHANGED <<server, mapped, panels, page, feed, down>>

(* editReusable: a definition is added, changed or taken out of the draft. *)
Edit(k, value) ==
  /\ Ready /\ Editing.task = None /\ k \notin General
  /\ Type(k, value)

(* editInstallation: the timings stay editable while settings are read.    *)
EditTiming(k, value) ==
  /\ Ready /\ (Editing.task # None => Editing.task.phase = "load")
  /\ Type(k, value)

Discard(scope) ==
  /\ Ready /\ Editing.task = None
  /\ \E k \in scope : Dirty(Editing, k)
  /\ Spend("edits", MaxEdits)
  /\ Keep(Discarded(Editing, scope))
  /\ UNCHANGED <<server, mapped, panels, page, feed, down>>

(* prepareAvailabilityChange: stop or resume monitoring of one entity. *)
Review(source, stop) ==
  LET affected == {k \in Policies : /\ Editing.conf[k] # None
                                    /\ (source \in Editing.conf[k].excluded) = ~stop}
      after(k) == IF k \notin affected THEN Editing.conf[k]
                  ELSE [Editing.conf[k] EXCEPT !.excluded = IF stop THEN @ \cup {source}
                                                            ELSE @ \ {source}]
  IN /\ Ready /\ feed.up
     /\ affected # {}
     /\ Spend("edits", MaxEdits)
     /\ panels' = [panels EXCEPT ![Here].review =
                     [revision |-> Editing.conf, affected |-> affected,
                      after |-> [k \in Policies |-> after(k)]]]
     /\ UNCHANGED <<server, sessions, mapped, page, feed, down>>

(* A click on one of the saves: [e] is the editor state it starts from. *)
Click(e, op) ==
  /\ Ready /\ feed.up /\ e.task = None
  /\ \E o \in Begin(e, panels[Here].session, Here, op) :
       /\ IF o.fault
          THEN /\ spent.saves < MaxSaves /\ spent.faults < MaxFaults
               /\ spent.edits + spent.saves + spent.others + spent.faults + spent.moves
                    < MaxSpent - 1
               /\ spent' = [spent EXCEPT !.saves = @ + 1, !.faults = @ + 1]
          ELSE Spend("saves", MaxSaves)
       /\ Keep(o.editors)
       /\ server' = o.settings
       /\ down' = down \o o.sent
  /\ UNCHANGED <<mapped, panels, page, feed>>

Save(scope) ==
  /\ \E k \in scope : Dirty(Editing, k)
  /\ Click(Editing, [kind |-> "save", scope |-> scope])

DeletePolicy(k) ==
  /\ Editing.conf[k] # None
  /\ Click(Edited(Editing, k, None), [kind |-> "save", scope |-> {k}])

Toggle(value) ==
  /\ value # Editing.conf[Switch]
  /\ Click(Editing, [kind |-> "switch", value |-> value])

Delete(id, replacement, drop) ==
  /\ Editing.conf[id] # None
  /\ Click(Editing, [kind |-> "remove", id |-> id, replacement |-> replacement, drop |-> drop])

Confirm ==
  /\ panels[Here].review # None
  /\ Click(Editing, [kind |-> "availability", review |-> panels[Here].review])

-----------------------------------------------------------------------------
(* Everyone and everything else *)

(* Another administrator's save, or this one's in another window. *)
Other(change) ==
  LET settings == [server EXCEPT ![change.key] = change.value] IN
  /\ settings # server /\ Valid(settings)
  /\ Spend("others", MaxOthers)
  /\ server' = settings
  /\ down' = IF feed.up /\ Attached THEN down \o Announce(settings) ELSE down
  /\ UNCHANGED <<sessions, mapped, panels, page, feed>>

\* Mutant: the panel that asked is the one in the page.
CurrentInPage(s) == page.attached = sessions[s].task.panel /\ panels[page.attached].admin

(* current(): the panel that asked still has this editor state. *)
Current(s) == LET p == sessions[s].task.panel IN panels[p].session = s /\ panels[p].admin

(* A reply resolves its await; an obsolete one leaves everything alone. *)
DeliverReply(m) ==
  LET s == m.to
      e == sessions[s]
  IN IF ~Current(s)
     THEN /\ down' = Tail(down)
          /\ UNCHANGED <<server, sessions, mapped, panels, spent>>
     ELSE \E o \in Continued(e, s, m.answer) :
            /\ Faulted(o)
            /\ server' = o.settings
            /\ down' = Tail(down) \o o.sent
            /\ LET all == [sessions EXCEPT ![s] = o.editors]
               IN sessions' = all /\ mapped' = Forget(all, s)
            /\ panels' = IF e.task.phase = "load" /\ m.answer.ok
                         THEN [panels EXCEPT ![e.task.panel].reload = FALSE] ELSE panels

(* An event reaches the store and the panel in the page. *)
DeliverEvent(m) ==
  IF ~Attached \/ ~page.admin
  THEN /\ down' = Tail(down)
       /\ feed' = [feed EXCEPT !.on = m.on]
       /\ UNCHANGED <<server, sessions, panels, spent>>
  ELSE \E o \in Listener(Here, sessions, m.on, panels[Here].reload) :
         /\ Faulted(o)
         /\ Keep(o.editors)
         /\ down' = Tail(down) \o o.sent
         /\ feed' = [feed EXCEPT !.on = m.on]
         /\ UNCHANGED <<server, panels>>

Deliver ==
  /\ down # <<>>
  /\ \/ Head(down).kind = "reply" /\ DeliverReply(Head(down)) /\ UNCHANGED feed
     \/ Head(down).kind = "event" /\ DeliverEvent(Head(down)) /\ UNCHANGED mapped
  /\ UNCHANGED page

(* A dropped connection fails every request under way, with a code of the  *)
(* client library or without one.                                          *)
Disconnect(code) ==
  LET failed(s) ==
        LET e == sessions[s]
        IN IF e.task = None \/ ~Current(s) THEN e
           ELSE (CHOOSE o \in Continued(e, s, Refusal(code)) : TRUE).editors
  IN /\ feed.up
     /\ Spend("faults", MaxFaults)
     /\ feed' = [feed EXCEPT !.up = FALSE]
     /\ down' = <<>>
     /\ sessions' = [s \in SessionIds |-> failed(s)]
     /\ mapped' = IF mapped = NoSession THEN mapped ELSE Forget(sessions', mapped)
     /\ UNCHANGED <<server, panels, page>>

Reconnect ==
  /\ ~feed.up
  /\ feed' = [feed EXCEPT !.up = TRUE]
  /\ down' = down \o Announce(server)
  /\ UNCHANGED <<server, sessions, mapped, panels, page, spent>>

-----------------------------------------------------------------------------
UserSaves ==
  /\ Ready
  /\ \/ \E scope \in Scopes : Save(scope)
     \/ \E k \in Policies : DeletePolicy(k)
     \/ \E value \in Typed[Switch] : Toggle(value)
     \/ \E id \in Items, r \in Items \cup {None}, drop \in BOOLEAN : Delete(id, r, drop)
     \/ Confirm

UserEdits ==
  /\ Ready
  /\ \/ \E k \in Keys \ {Switch, Inline} : \E value \in Typed[k] : Edit(k, value)
     \/ \E k \in General : \E value \in Typed[k] : EditTiming(k, value)
     \/ \E scope \in Scopes : Discard(scope)
     \/ \E source \in Sources, stop \in BOOLEAN : Review(source, stop)

Next ==
  \/ \E p \in Panels : Attach(p)
  \/ Detach \/ Permission
  \/ UserSaves \/ UserEdits
  \/ \E change \in Elsewhere : Other(change)
  \/ Deliver
  \/ \E code \in {None, "connection_lost"} : Disconnect(code)
  \/ Reconnect

(* Messages under way, or a connection that is down: exactly when one of  *)
(* the steps that spend nothing, other than opening the panel, is enabled. *)
Busy == down # <<>> \/ ~feed.up

Step == UNCHANGED spent

(* Weak fairness of those steps with its enabling condition written out:   *)
(* replies and events arrive, and a dropped connection comes back; nothing *)
(* is assumed of users, of other administrators or of faults.              *)
Fairness == []<>~Busy \/ []<><<Step>>_vars

Spec == Init /\ [][Next]_vars /\ Fairness
-----------------------------------------------------------------------------
(* Properties *)

Reviews == [revision: Settings, affected: SUBSET Policies, after: [Policies -> Entry]]
Operations ==
  [kind: {"save"}, scope: Scopes]
    \cup [kind: {"switch"}, value: Entry]
    \cup [kind: {"remove"}, id: Items, replacement: Items \cup {None}, drop: BOOLEAN]
    \cup [kind: {"availability"}, review: Reviews]
Tasks == [panel: Panels, op: Operations, phase: {"refresh", "write", "reread"},
          candidate: Settings \cup {None}]
           \cup [panel: Panels, op: {None}, phase: {"load"}, candidate: {None}]
Marks == {Unset} \cup [set: {TRUE}, value: Entry, from: Entry]
Editors ==
  [owner: Panels \cup {None}, conf: Settings \cup {None}, draft: Settings \cup {None},
   base: Settings \cup {None}, refresh: BOOLEAN, task: Tasks \cup {None},
   typed: [Keys -> Marks], left: BOOLEAN]
Codes == {"not_ready", "stale_configuration", "invalid_settings", "apply_failed"}
Answers == [ok: {TRUE}, settings: Settings] \cup {Saved} \cup [ok: {FALSE}, code: Codes]
Messages == [kind: {"reply"}, to: SessionIds, answer: Answers]
              \cup [kind: {"event"}, on: Entry]
Counts == [edits: Nat, saves: Nat, others: Nat, faults: Nat, moves: 0..MaxMoves]

(* The ids of definitions of one kind, the installation fields and the two *)
(* special rows do not mix, and the panel opens on settings the server     *)
(* would save.                                                             *)
ASSUME SettingsAssumption ==
  /\ General \cap (Policies \cup Items) = {} /\ Policies \cap Items = {}
  /\ {Inline, Switch} \cap (General \cup Policies \cup Items) = {} /\ Inline # Switch
  /\ None \notin Values \cup Settings \cup Panels \cup Items
  /\ None \notin Reviews \cup Tasks \cup Codes
  /\ Opening \in Settings /\ Valid(Opening)
  /\ \A k \in Keys : Typed[k] \subseteq Entry
  /\ Elsewhere \subseteq [key: Keys, value: Entry]
  /\ MaxMoves \in Nat

(* Types of the settings, of every editor state, of the panels and of the  *)
(* messages; settings are confirmed, drafted and compared together.        *)
TypeOK ==
  /\ server \in Settings
  /\ sessions \in [SessionIds -> Editors]
  /\ \A s \in SessionIds : LET e == sessions[s] IN
       (e.conf = None) = (e.draft = None) /\ (e.conf = None) = (e.base = None)
  /\ mapped \in {NoSession} \cup SessionIds
  /\ panels \in [Panels -> [session: {NoSession} \cup SessionIds, reload: BOOLEAN,
                             admin: BOOLEAN, review: Reviews \cup {None}]]
  /\ page \in [attached: Panels \cup {None}, used: SUBSET Panels,
                latest: Panels \cup {None}, admin: BOOLEAN]
  /\ feed \in [up: BOOLEAN, on: Entry]
  /\ down \in Seq(Messages)
  /\ spent \in Counts

(* The panel's own write of this step, by the editor state [s]. *)
OwnWrite(s) ==
  /\ server' # server /\ spent'.others = spent.others
  /\ sessions'[s].task # sessions[s].task
  /\ sessions'[s].task # None /\ sessions'[s].task.phase = "write"

(* What an operation on the saved settings names: its scope, and the rows  *)
(* that used a definition it removes.                                      *)
Named(op, saved) ==
  CASE op.kind = "save" -> op.scope
    [] op.kind = "switch" -> {Switch}
    [] op.kind = "remove" -> {op.id} \cup {k \in Keys : op.id \in UsesOf(saved[k])}
    [] op.kind = "availability" -> op.review.affected

(* A save changes nothing but what it names: neither another draft of the  *)
(* same panel nor a change another administrator has saved since the       *)
(* panel last read the settings goes with it.                              *)
SavesOwnScope ==
  [][\A s \in SessionIds : OwnWrite(s) =>
       \A k \in Keys \ Named(sessions'[s].task.op, server) : server'[k] = server[k]]_vars

(* A save never overwrites a definition its user has not seen: what it     *)
(* replaces is the value the edit started from, or the one that was        *)
(* reviewed.                                                               *)
NoBlindOverwrite ==
  [][\A s \in SessionIds : OwnWrite(s) =>
       LET op == sessions'[s].task.op
           typed == sessions'[s].typed
       IN /\ op.kind = "save" =>
               \A k \in op.scope \ General : server'[k] # server[k] =>
                 typed[k].set /\ typed[k].from = server[k]
          /\ op.kind = "availability" =>
               \A k \in op.review.affected : server[k] = op.review.revision[k]]_vars

(* The same of the fields of the installation settings.  The code does not *)
(* keep this one: after the save of some fields the others count as edited *)
(* from the value another administrator has saved meanwhile.               *)
FieldsNotOverwritten ==
  [][\A s \in SessionIds : OwnWrite(s) /\ sessions'[s].task.op.kind = "save" =>
       \A k \in sessions'[s].task.op.scope : server'[k] # server[k] =>
         sessions'[s].typed[k].set]_vars

(* Put together: a save does what its user asked for and no more.          *)
SavesAreScoped == SavesOwnScope /\ NoBlindOverwrite

(* What the user typed stays in its draft until it is saved, discarded or  *)
(* has become the saved value, through failed, uncertain and conflicting   *)
(* saves, reads of the settings and replaced panels.                       *)
DraftsKept ==
  \A s \in SessionIds : \A k \in Keys :
    sessions[s].typed[k].set => sessions[s].draft[k] = sessions[s].typed[k].value

(* Unfinished work is where the next panel of the connection looks for it, *)
(* unless the user's permission changed.                                   *)
DraftsReachable ==
  \A s \in SessionIds : Unfinished(sessions[s]) /\ ~sessions[s].left => mapped = s

(* Put together: unsaved work is neither altered nor lost.                 *)
UnsavedWorkKept == TypeOK /\ DraftsKept /\ DraftsReachable

(* Removing a method or notification leaves no reference behind: the       *)
(* server has no reason to refuse it.                                      *)
DeletionsValid ==
  \A i \in DOMAIN down :
    (down[i].kind = "reply" /\ down[i].answer = Refusal("invalid_settings")) =>
      sessions[down[i].to].task.op.kind # "remove"

(* The editors of the panel on the page do not stay locked: each read and  *)
(* save comes to an end, also when another panel started it.               *)
Locked == Attached /\ Editing.task # None

LocksReleased == Locked ~> ~Locked

(* A panel at rest shows the switch as it is saved. *)
SwitchShown ==
  (Ready /\ feed.up /\ Editing.task = None) => Editing.conf[Switch] = server[Switch]

SwitchConverges == []<>SwitchShown
=============================================================================
