------------------------------ MODULE Navigation ------------------------------
(***************************************************************************)
(* Where the panel is and how it gets back (frontend/workspace-navigation  *)
(* .mjs and the handlers of homeostatic.js): every page, source, issue,    *)
(* definition and record has a path; a click stores the view it leaves in  *)
(* the session history of the browser and pushes the path it leads to;     *)
(* Back and Forward restore a stored view, and Home Assistant sets the     *)
(* path of its own router on top.                                          *)
(*                                                                         *)
(* A path is the sequence of its segments.  Of what is seen but has no     *)
(* path (search, grouping, expansion, limits, filters) there is one value, *)
(* search; the reading position is left out.  The panel is connected all   *)
(* the time: what it does meanwhile is in PanelReads.                      *)
(***************************************************************************)
EXTENDS Integers, Sequences

CONSTANTS
  Links,      \* paths that Home Assistant may be asked for from outside
  Episodes, Sources, Definitions,  \* Definitions: records [kind, id]
  Reported,   \* the members of a notification report
  Pages,      \* those opened from the navigation
  Texts,      \* with "" among them
  None,
  Keep,       \* a part of the route a path says nothing of (undefined)
  MaxClicks, MaxMoves, MaxUnseen, MaxReloads, MaxRelinks  \* bounds of the instance

Segments == UNION {{path[i] : i \in DOMAIN path} : path \in Links}

Ids == Segments \cup Episodes \cup Sources \cup {d.id : d \in Definitions}

PageNames == {"problems", "sources", "policies", "notifications", "history", "configuration"}

(* No name, selection or list of issues is None or Keep, and every         *)
(* definition has a kind and a name.                                       *)
ASSUME NavAssumption ==
  /\ None # Keep /\ Keep \notin {"source", "history", "profiles", "methods"}
  /\ None \notin {"invalid", "notification", "episode", "history", "methods"}
  /\ None \notin Ids /\ Keep \notin Ids /\ None \notin {<<>>, Reported}
  /\ \A kind \in {"episode", "node", "device", "policies", "profiles", "methods"}, id \in Ids :
       [kind |-> kind, id |-> id] \notin {None, Keep}
  /\ \A d \in Definitions : d \in [kind : {"policies", "profiles", "methods"}, id : Ids]
  /\ Pages \subseteq PageNames

VARIABLES
  card,   \* what the panel shows
  nav,    \* its WorkspaceNavigation; ha, the path Home Assistant set last
  tab,    \* the session history: entries [path, saved], and the position
  left,   \* for each entry, what was shown when it was left (history)
  ignored,  \* whether a step has been taken for one to where the panel was (history)
  spent

views == <<card, nav, tab, left, ignored, spent>>

Spend(kind, limit) ==
  spent[kind] < limit /\ spent' = [spent EXCEPT ![kind] = @ + 1]

(* A function with one more value, or another one: Map.set. *)
With(f, x, v) == [y \in DOMAIN f \cup {x} |-> IF y = x THEN v ELSE f[y]]

-----------------------------------------------------------------------------
(* Paths: workspaceRoute, workspacePath, parseWorkspacePath. *)

Is(selection, kind) == IF selection \in {None, Keep} THEN FALSE ELSE selection.kind = kind

RouteOf(c) ==
  [page |-> c.page,
   report |-> IF c.page = "problems" THEN c.report ELSE None,
   members |-> IF c.page = "problems" THEN c.members ELSE None,
   source |-> IF c.page = "sources" THEN c.source ELSE None,
   view |-> c.view,
   definition |->
     IF \/ c.page = "policies" /\ Is(c.definition, "policies")
        \/ c.page = "notifications" /\ (Is(c.definition, "profiles") \/ Is(c.definition, "methods"))
     THEN c.definition ELSE None,
   section |-> c.section,
   history |-> IF c.page = "history" THEN c.history ELSE None,
   detail |-> c.detail]

DetailSegment == [episode |-> "episode", node |-> "node", device |-> "device-issues"]

PathOf(r) ==
  LET issue == Is(r.detail, "episode")
      listed == issue /\ \E i \in DOMAIN r.members : r.members[i] = r.detail.id
      none(id) == id \in {None, Keep}
  IN CASE r.page = "problems" /\ r.report # None ->
            IF issue THEN <<"notification", r.report, "episode", r.detail.id>>
            ELSE <<"notification", r.report>>
       [] r.page = "problems" /\ r.report = None /\ r.members # None
            /\ (r.detail # None => listed) ->
            IF issue THEN <<"issues", "notification", r.members, "episode", r.detail.id>>
            ELSE <<"issues", "notification", r.members>>
       [] OTHER ->
            CASE r.detail # None -> <<DetailSegment[r.detail.kind], r.detail.id>>
              [] r.detail = None /\ r.page = "sources" ->
                   IF none(r.source) THEN <<"sources">>
                   ELSE IF r.view = "history" THEN <<"sources", r.source, "history">>
                   ELSE <<"sources", r.source>>
              [] r.detail = None /\ r.page = "policies" ->
                   IF Is(r.definition, "policies") THEN <<"policies", r.definition.id>>
                   ELSE <<"policies">>
              [] r.detail = None /\ r.page = "notifications" ->
                   IF r.definition # None THEN <<"notifications", r.definition.kind, r.definition.id>>
                   ELSE IF r.section = "methods" THEN <<"notifications", "methods">>
                   ELSE <<"notifications">>
              [] r.detail = None /\ r.page = "history" ->
                   IF none(r.history) THEN <<"history">> ELSE <<"history", r.history>>
              [] r.detail = None /\ r.page = "configuration" -> <<"settings", "timing">>
              [] r.detail = None /\ r.page = "problems" -> <<"issues">>

(* What a path says: the parts it does not name are Keep. *)
Nth(path, i) == IF i \in DOMAIN path THEN path[i] ELSE None

Says(page) ==
  [page |-> page, report |-> None, members |-> None, source |-> Keep, view |-> Keep,
   definition |-> None, section |-> Keep, history |-> None, detail |-> None]

Parse(path) ==
  LET at(i) == Nth(path, i)
      say(page) == Says(page)
      on(kind, id) == [kind |-> kind, id |-> id]
      issue(i) == IF at(i) = "episode" /\ at(i + 1) # None THEN on("episode", at(i + 1)) ELSE None
  IN CASE at(1) = "notification" ->
            [say("problems") EXCEPT !.report = IF at(2) = None THEN "invalid" ELSE at(2),
                                    !.detail = issue(3)]
       [] at(1) = "issues" /\ at(2) = "notification" ->
            LET ids == IF at(3) = None THEN <<>> ELSE at(3)
                one == issue(4)
            IN [say("problems") EXCEPT !.members = ids,
                  !.detail = IF one # None /\ \E i \in DOMAIN ids : ids[i] = one.id THEN one ELSE None]
       [] at(1) = "episode" /\ at(2) # None ->
            [say("problems") EXCEPT !.detail = on("episode", at(2))]
       [] at(1) = "node" /\ at(2) # None -> [say("sources") EXCEPT !.detail = on("node", at(2))]
       [] at(1) = "device-issues" /\ at(2) # None ->
            [say("sources") EXCEPT !.detail = on("device", at(2))]
       [] at(1) = "history" -> [say("history") EXCEPT !.history = at(2)]
       [] at(1) = "sources" ->
            [say("sources") EXCEPT !.source = at(2),
                                   !.view = IF at(3) = "history" THEN "history" ELSE "source"]
       [] at(1) = "policies" ->
            [say("policies") EXCEPT
               !.definition = IF at(2) = None THEN None ELSE on("policies", at(2))]
       [] at(1) = "notifications" ->
            LET kind == IF at(2) = "methods" THEN "methods" ELSE "profiles"
            IN [say("notifications") EXCEPT
                  !.section = kind,
                  !.definition = IF at(3) = None THEN None ELSE on(kind, at(3))]
       [] at(1) = "settings" -> say("configuration")
       [] OTHER -> say("problems")

-----------------------------------------------------------------------------
(* The stored views: workspaceContext and restoreWorkspaceContext. *)

ContextOf(c) == [search |-> c.search, mobile |-> c.mobile, section |-> c.section]

Restore(c, context) ==
  IF context = None THEN c
  ELSE [c EXCEPT !.search = context.search, !.mobile = context.mobile, !.section = context.section]

(* What an entry holds before a view is stored in it: views are numbered   *)
(* from 1.                                                                 *)
NoView == [id |-> 0, route |-> None, context |-> None]

Given(view) == view.id # 0

(* updateReturn: the entry a contextual Back leads to, or None. *)
Return(c, n) ==
  LET r == RouteOf(c)
      focused == \/ r.detail # None \/ r.definition # None \/ r.history # None
                 \/ r.source # None /\ c.mobile
      origin == IF n.id \in DOMAIN n.origins THEN n.origins[n.id] ELSE None
  IN IF ~focused \/ origin = None THEN None
     ELSE LET o == n.entries[origin].route
          IN IF \/ r.page = "history" /\ o.page = "history" /\ o.detail = None
                \/ r.page = "sources" /\ o.detail = None /\ o.history = None
             THEN None ELSE origin

-----------------------------------------------------------------------------
(* capture, finish and applyPath, on a record of card, nav and tab. *)

Now == [card |-> card, nav |-> nav, tab |-> tab]

Becomes(s) == card' = s.card /\ nav' = s.nav /\ tab' = s.tab

Entry(c) == [route |-> RouteOf(c), context |-> ContextOf(c)]

(* window.history.replaceState *)
Persist(s) ==
  [s EXCEPT !.tab.entries[s.tab.at].saved =
     [id |-> s.nav.id, route |-> RouteOf(s.card), context |-> ContextOf(s.card)]]

\* Mutant: a view once stored in memory is not stored again.
CaptureOnce(s, persist) ==
  LET stored == [s EXCEPT !.nav.entries = IF s.nav.id \in DOMAIN @ THEN @
                                                ELSE With(@, s.nav.id, Entry(s.card))]
  IN IF persist THEN Persist(stored) ELSE stored

Capture(s, persist) ==
  LET stored == [s EXCEPT !.nav.entries = With(@, s.nav.id, Entry(s.card))]
  IN IF persist THEN Persist(stored) ELSE stored

(* A view of its own for another path, pushed over those ahead. *)
Pushed(s, origin) ==
  LET id == s.nav.sequence + 1
      path == PathOf(RouteOf(s.card))
      n == [s.nav EXCEPT !.sequence = id, !.id = id, !.last = path,
                         !.origins = With(@, id, origin),
                         !.entries = With(@, id, Entry(s.card))]
  IN Persist([s EXCEPT
       !.nav = [n EXCEPT !.offered = Return(s.card, n)],
       !.tab = [entries |-> Append(SubSeq(s.tab.entries, 1, s.tab.at),
                                   [path |-> path, saved |-> NoView]),
                at |-> s.tab.at + 1]])

\* Mutant: the origin is taken to be the view numbered just before.
FinishAfterLast(s, before) ==
  IF PathOf(RouteOf(s.card)) = PathOf(before.route) THEN s ELSE Pushed(s, s.nav.sequence)

Finish(s, before) ==
  IF PathOf(RouteOf(s.card)) = PathOf(before.route) THEN s ELSE Pushed(s, before.id)

(* showHistory: an ended issue, found among the retained ones by clearing  *)
(* the search if need be.                                                  *)
ShowHistory(c, id) == [c EXCEPT !.detail = None, !.page = "history", !.history = id]

(* What a route shows, with the stored context of its view, if any. *)
Shown(c, r, context) ==
  LET d == Restore(c, context)
      e == [d EXCEPT
              !.page = r.page, !.report = r.report,
              !.members = IF r.report # None THEN <<>> ELSE r.members,
              !.pending = IF r.report # None /\ Is(r.detail, "episode") THEN r.detail ELSE None,
              !.source = IF r.source = Keep THEN @ ELSE r.source,
              !.view = IF r.view = Keep THEN @ ELSE r.view,
              !.definition = r.definition,
              !.section = IF r.section = Keep THEN @ ELSE r.section,
              !.detail = IF r.report # None /\ Is(r.detail, "episode") THEN None ELSE r.detail,
              !.history = r.history]
  IN [e EXCEPT !.search = IF context = None /\ e.members # None THEN "" ELSE @,
               !.mobile = IF r.page = "sources" THEN r.source \notin {None, Keep} ELSE @]

(* The stored view an address comes with, or the one the panel finds of it *)
(* in the session history when it was given the path alone.                *)
StateOf(s, path, given) ==
  LET entry == s.tab.entries[s.tab.at]
  IN IF /\ ~Given(given) /\ Given(entry.saved) /\ entry.path = path
        /\ PathOf(entry.saved.route) = PathOf(Parse(path))
     THEN entry.saved ELSE given

ContextFor(s, state) ==
  IF ~Given(state) THEN None
  ELSE IF state.id \in DOMAIN s.nav.entries THEN s.nav.entries[state.id].context
  ELSE state.context

Enter(s, r, state, c) ==
  LET id == IF Given(state) THEN state.id ELSE s.nav.sequence + 1
      n == [s.nav EXCEPT !.last = PathOf(r), !.id = id,
                         !.sequence = IF Given(state) THEN @ ELSE @ + 1,
                         !.entries = With(@, id, [route |-> r, context |-> ContextOf(c)])]
  IN IF PathOf(r) = s.nav.last /\ (Given(state) => id = s.nav.id) THEN s
     ELSE [s EXCEPT !.card = c, !.nav = [n EXCEPT !.offered = Return(c, n)]]

Apply(s, path, given) ==
  LET state == StateOf(s, path, given)
      r == IF Given(state) THEN state.route ELSE Parse(path)
  IN Enter(s, r, state, Shown(s.card, r, ContextFor(s, state)))

(* set route: Home Assistant sets the same path at every update. *)
SetRoute(s, path) ==
  IF path = s.nav.ha THEN s ELSE Apply([s EXCEPT !.nav.ha = path], path, NoView)

(* onPop: the listener of the panel comes before the route of Home         *)
(* Assistant.                                                              *)
Popped(s, to) ==
  LET captured == Capture(s, FALSE)
      moved == [captured EXCEPT !.tab.at = to]
      entry == moved.tab.entries[to]
  IN SetRoute(Apply(moved, entry.path, entry.saved), entry.path)

-----------------------------------------------------------------------------
Fresh ==
  [page |-> "problems", report |-> None, members |-> None, pending |-> None, source |-> None,
   view |-> "source", definition |-> None, section |-> "profiles", history |-> None,
   detail |-> None, search |-> "", mobile |-> FALSE]

(* No path is empty, so the path entered last is none of those entered. *)
NewNav == [id |-> 0, last |-> <<>>, sequence |-> 0, entries |-> <<>>, origins |-> <<>>,
           ha |-> None, offered |-> None]

Opened(entries, at) ==
  LET path == entries[at].path
  IN Apply([card |-> Fresh, nav |-> [NewNav EXCEPT !.ha = path],
            tab |-> [entries |-> entries, at |-> at]], path, NoView)

NavInit ==
  /\ \E path \in Links \cup {<<>>} :
       LET s == Opened(<<[path |-> path, saved |-> NoView]>>, 1)
       IN card = s.card /\ nav = s.nav /\ tab = s.tab
  /\ left = <<None>> /\ ignored = FALSE
  /\ spent = [clicks |-> 0, moves |-> 0, unseen |-> 0, reloads |-> 0, relinks |-> 0]

View(c) == [path |-> PathOf(RouteOf(c)), context |-> ContextOf(c)]

(* The history variable follows the entries: the one that is left shows    *)
(* the view before the step, and those ahead of a pushed one are gone.     *)
Leaves(view) ==
  left' = [i \in DOMAIN tab'.entries |->
             IF i = tab.at /\ i # tab'.at THEN view
             ELSE IF i \in DOMAIN left /\ (i <= tab.at \/ tab'.entries[i] = tab.entries[i])
                  THEN left[i] ELSE None]

(* A click seen by the card: it captures, handles, finishes; the tools     *)
(* listen to the same click and capture again.                             *)
Click(c) ==
  LET s == Capture(Now, TRUE)
      before == [id |-> s.nav.id, route |-> RouteOf(card)]
  IN /\ Spend("clicks", MaxClicks)
     /\ c # card
     /\ Becomes(Capture(Finish([s EXCEPT !.card = c], before), TRUE))
     /\ Leaves(View(card)) /\ UNCHANGED ignored

(* A click the tools handle, or a cancel handler of the dialog. *)
ToolClick(c) ==
  LET s == Capture(Now, TRUE)
      before == [id |-> s.nav.id, route |-> RouteOf(card)]
  IN /\ Spend("clicks", MaxClicks)
     /\ c # card
     /\ Becomes(Finish([s EXCEPT !.card = c], before))
     /\ Leaves(View(card)) /\ UNCHANGED ignored

Free == card.detail = None

Unscoped(c) == [c EXCEPT !.report = None, !.members = None, !.pending = None]

(* The handlers of handleClick: a page of the navigation or of a dialog, *)
OpenPage(page) ==
  Click([Unscoped(card) EXCEPT
           !.detail = None, !.page = page,
           !.definition = IF page \in {"policies", "notifications"} THEN None ELSE @,
           !.mobile = IF page = "sources" THEN FALSE ELSE @])

(* the way out of a notification, *)
AllIssues == Free /\ card.members # None /\ Click([Unscoped(card) EXCEPT !.search = ""])

(* a source, its evidence or history, and back to the list, *)
SelectSource(source) ==
  /\ Free /\ card.page = "sources"
  /\ Click([card EXCEPT !.source = source, !.view = "source", !.mobile = TRUE])

SourceLink(source) ==
  /\ card.detail # None \/ (card.page = "problems" /\ card.members # <<>>)
  /\ Click([card EXCEPT !.detail = None, !.mobile = TRUE, !.view = "source",
                        !.source = source, !.page = "sources"])

SourceView ==
  /\ Free /\ card.page = "sources" /\ card.source # None
  /\ Click([card EXCEPT !.view = IF @ = "source" THEN "history" ELSE "source"])

BackToSources == Free /\ card.page = "sources" /\ card.mobile /\ Click([card EXCEPT !.mobile = FALSE])

(* an issue or the issues of a device, and from an issue its connection, *)
OpenDetail(kind, id) ==
  /\ Free /\ card.page \in {"problems", "sources"}
  /\ card.members # None =>
       kind = "episode" /\ \E i \in DOMAIN card.members : card.members[i] = id
  /\ Click([card EXCEPT !.detail = [kind |-> kind, id |-> id]])

OpenNode(id) ==
  Is(card.detail, "episode") /\ Click([card EXCEPT !.detail = [kind |-> "node", id |-> id]])

(* a definition in its editor. *)
Edit(d) ==
  /\ card.detail # None \/ card.page \in {"sources", "policies", "notifications"}
  /\ Click([card EXCEPT !.detail = None, !.definition = d,
                        !.page = IF d.kind = "policies" THEN "policies" ELSE "notifications",
                        !.section = IF d.kind = "policies" THEN @ ELSE d.kind])

(* Closing a dialog.  With its button, *)
Close ==
  /\ card.detail # None
  /\ ~Is(card.detail, "device")
  /\ Click([card EXCEPT !.detail = None])

(* and with Escape, which the card handles only for a device and in the    *)
(* scope of a notification.                                                *)
Escape ==
  /\ card.detail # None
  /\ IF card.page = "problems" /\ card.members # None /\ ~Is(card.detail, "device")
     THEN ToolClick([card EXCEPT !.detail = None])
     ELSE /\ ~Is(card.detail, "device")
          /\ Spend("unseen", MaxUnseen)
          /\ card' = [card EXCEPT !.detail = None]
          /\ UNCHANGED <<nav, tab, left, ignored>>

(* closeDeviceDetail: back to the origin, or as any other dialog. *)
CloseDevice ==
  /\ Is(card.detail, "device")
  /\ nav.id \notin DOMAIN nav.origins
  /\ ToolClick([card EXCEPT !.detail = None])

(* The records of the history page, opened and folded in the page. *)
ToggleHistory(id) ==
  /\ Free /\ card.page = "history"
  /\ ToolClick(IF card.history = id THEN [card EXCEPT !.history = None] ELSE ShowHistory(card, id))

OpenFromHistory(id) ==
  /\ Free /\ card.page = "history" /\ card.history # None
  /\ ToolClick([card EXCEPT !.history = None, !.detail = [kind |-> "episode", id |-> id]])

(* What changes what is shown and is no click: a search, an issue that     *)
(* ends under its dialog, the members of a report that come in.            *)
Search(text) ==
  /\ Free /\ text # card.search
  /\ Spend("unseen", MaxUnseen)
  /\ card' = [card EXCEPT !.search = text]
  /\ UNCHANGED <<nav, tab, left, ignored>>

IssueEnds ==
  /\ Is(card.detail, "episode") /\ ~(card.page = "problems" /\ card.members # None)
  /\ Spend("unseen", MaxUnseen)
  /\ card' = ShowHistory(card, card.detail.id)
  /\ UNCHANGED <<nav, tab, left, ignored>>

ReportLoaded ==
  /\ card.report # None /\ card.members = <<>>
  /\ card' = [card EXCEPT
                !.members = Reported, !.pending = None,
                !.detail = IF card.pending # None
                              /\ \E i \in DOMAIN Reported : Reported[i] = card.pending.id
                           THEN card.pending ELSE @]
  /\ UNCHANGED <<nav, tab, left, ignored, spent>>

(* The browser moves in its history, also for a contextual Back. *)
Move(to) ==
  /\ to \in DOMAIN tab.entries
  /\ Spend("moves", MaxMoves)
  /\ Becomes(Popped(Now, to))
  /\ Leaves(View(card))
  /\ ignored' = (ignored \/ nav'.id = nav.id)

Back == Move(tab.at - 1)

Forward == Move(tab.at + 1)

ContextualBack ==
  /\ nav.offered # None \/ (Is(card.detail, "device") /\ nav.id \in DOMAIN nav.origins)
  /\ Move(tab.at - 1)

(* A link from outside the panel: Home Assistant pushes it and sets its    *)
(* route, and nothing captures the view that is left.                      *)
Link(path, kind, limit) ==
  LET pushed == Append(SubSeq(tab.entries, 1, tab.at), [path |-> path, saved |-> NoView])
  IN /\ Spend(kind, limit)
     /\ Becomes(SetRoute([Now EXCEPT !.tab = [entries |-> pushed, at |-> tab.at + 1]], path))
     /\ Leaves(None) /\ UNCHANGED ignored

Followed(path) == path = nav.ha \/ PathOf(Parse(path)) = nav.last

NewLink(path) == ~Followed(path) /\ Link(path, "clicks", MaxClicks)

(* The link followed last, or one to where the panel is already: Home      *)
(* Assistant pushes an entry and the panel takes no notice of it.          *)
Relink(path) == Followed(path) /\ Link(path, "relinks", MaxRelinks)

(* The page is loaded again: a new panel, over the same session history. *)
Reload ==
  /\ Spend("reloads", MaxReloads)
  /\ Becomes(Opened(tab.entries, tab.at))
  /\ UNCHANGED <<left, ignored>>

NavNext ==
  \/ \E page \in Pages : OpenPage(page)
  \/ AllIssues \/ SourceView \/ BackToSources \/ Close \/ Escape \/ CloseDevice
  \/ \E s \in Sources : SelectSource(s) \/ SourceLink(s) \/ OpenNode(s)
  \/ \E e \in Episodes : OpenDetail("episode", e) \/ OpenDetail("device", e)
  \/ \E d \in Definitions : Edit(d)
  \/ \E e \in Episodes : ToggleHistory(e) \/ OpenFromHistory(e)
  \/ \E t \in Texts : Search(t)
  \/ IssueEnds \/ ReportLoaded
  \/ Back \/ Forward \/ ContextualBack
  \/ \E path \in Links : NewLink(path)
  \/ Reload

NavSpec == NavInit /\ [][NavNext]_views

(* With repeated links, after which the panel, its address and its stored  *)
(* views disagree (LinkOpens): the other properties are claimed without.   *)
RelinkSpec == NavInit /\ [][NavNext \/ \E path \in Links : Relink(path)]_views

-----------------------------------------------------------------------------
(* Properties *)

Returns == spent'.moves # spent.moves

(* Back and Forward restore the search, grouping and expansion a page was  *)
(* left with, whatever was looked at in between (docs/spec.md:460), for    *)
(* every entry the panel has stored, from its first click on, at the place *)
(* its address names.                                                      *)
Stored(entry) ==
  Given(entry.saved) /\ PathOf(entry.saved.route) = PathOf(Parse(entry.path))

AllContexts ==
  [][(Returns /\ left[tab'.at] # None /\ Stored(tab.entries[tab'.at]) /\ spent.reloads = 0) =>
       card'.search = left[tab'.at].context.search]_views

(* They lead to the place that was left, stored or named by the address of *)
(* the entry, also after a reload: never to the place of another entry.    *)
Showing(c) ==
  PathOf(RouteOf([c EXCEPT !.detail = IF c.pending # None THEN c.pending ELSE @]))

PlacesOf(i, entry) ==
  {PathOf(Parse(entry.path))}
    \cup (IF i \in DOMAIN left /\ left[i] # None THEN {left[i].path} ELSE {})
    \cup (IF Given(entry.saved) THEN {PathOf(entry.saved.route)} ELSE {})

AllPlaces ==
  [][Returns => Showing(card') \in PlacesOf(tab'.at, tab.entries[tab'.at])]_views

(* The documented claim: Back and Forward lead to the view that was left.  *)
(* A step the panel takes for one to where it already is (Enter) breaks    *)
(* it: after a change without a click what stays on the screen is not the  *)
(* entry's, and entries that then share a number share a stored context.   *)
ViewsAlwaysRestored == AllContexts /\ AllPlaces

(* What holds of it.  Until a step is ignored so, every context comes back, *)
RestoresContext ==
  [][(Returns /\ left[tab'.at] # None /\ Stored(tab.entries[tab'.at]) /\ spent.reloads = 0
        /\ ~ignored') =>
       card'.search = left[tab'.at].context.search]_views

(* and every step leads to its place, but for one that is ignored itself   *)
(* while the panel shows another place than it navigated to.               *)
RestoresPlace ==
  [][(Returns /\ (nav'.id = nav.id => Showing(card) = nav.last)) =>
       Showing(card') \in PlacesOf(tab'.at, tab.entries[tab'.at])]_views

(* Put together: Back and Forward lead to the view that was left, with the *)
(* exception of ignored steps.                                             *)
ViewsRestored == RestoresContext /\ RestoresPlace

(* The contextual Back of a dialog or an editor, which goes one entry back *)
(* in the browser, leads to the view it names, or one at the same place.   *)
BackIsOrigin ==
  (nav.offered # None /\ spent.reloads = 0) =>
    /\ tab.at > 1
    /\ LET entry == tab.entries[tab.at - 1]
       IN Stored(entry) => entry.saved.id = nav.offered

(* While the address names a notification, the page is restricted to the   *)
(* members of that one: no way there shows other issues.                   *)
ScopeKept ==
  LET path == tab.entries[tab.at].path
  IN Nth(path, 1) = "notification" => card.report = Parse(path).report /\ card.members # None

(* Put together: what the page offers and shows belongs to its address.    *)
PlaceKept == BackIsOrigin /\ ScopeKept

(* A link leads where it says. *)
LinkOpens ==
  [][\A path \in Links : (NewLink(path) \/ Relink(path)) =>
       Showing(card') = PathOf(Parse(path))]_views
=============================================================================
