---------------------------- MODULE IssueActions ----------------------------
(***************************************************************************)
(* Acting on issues from the panel: acknowledging, pausing and resuming in *)
(* a dialog of its own (DashboardTools of frontend/history-controls.mjs),  *)
(* and answering the issues of a device together, one request after the    *)
(* other (device-issues.mjs), over the evidence the panel reads meanwhile  *)
(* (PanelReads).  An answer may come after its dialog is gone.             *)
(***************************************************************************)
EXTENDS PanelReads

Kinds == {"acknowledge", "shelve", "cancel_control"}

-----------------------------------------------------------------------------
(* External: the services of the integration, saved and published before   *)
(* the answer.                                                             *)

Accepts(s, call) == IF call.kind = "cancel_control" THEN call.id \in s.paused ELSE call.id \in s.open

Served(s, call) ==
  CASE call.kind = "acknowledge" -> [s EXCEPT !.at = @ + 1, !.acked = @ \cup {call.id}]
    [] call.kind = "shelve" -> [s EXCEPT !.at = @ + 1, !.paused = @ \cup {call.id}]
    [] call.kind = "cancel_control" -> [s EXCEPT !.at = @ + 1, !.paused = @ \ {call.id}]

(* The panel after a handler that may ask for one action. *)
Acts(p, rest) ==
  IF p.asks = <<>> THEN Runs(p, rest) /\ UNCHANGED server
  ELSE LET call == p.asks[1]
           accepted == Accepts(server, call)
       IN /\ server' = IF accepted THEN Served(server, call) ELSE server
          /\ panel' = [p EXCEPT !.asks = <<>>]
          /\ down' = rest \o (IF accepted THEN Event(server', p.conn) ELSE <<>>)
                          \o <<Answer(server', call, accepted)>>

Press(p) == Pressed /\ Acts(p, down) /\ UNCHANGED up

-----------------------------------------------------------------------------
(* One issue: openImmediate and openControl, executeImmediate and execute. *)

(* attentionActionAllowed and controlAllowed *)
Allowed(p, kind, target) ==
  Current(p) /\ target \in (IF kind = "cancel_control" THEN p.data.paused ELSE p.data.open)

OpenTool(kind) ==
  /\ panel.detail # None /\ panel.body # None
  /\ panel.detail.kind = "episode" /\ panel.body.what = "evidence"
  /\ Allowed(panel, kind, panel.detail.id)
  /\ Follows([Shut(panel) EXCEPT
                !.selections = @ + 1,
                !.tool = [id |-> panel.selections + 1, kind |-> kind,
                          target |-> panel.detail.id, busy |-> FALSE, done |-> FALSE]])

CloseTool == panel.tool # None /\ Follows([panel EXCEPT !.tool = None])

Submit ==
  /\ panel.tool # None /\ ~panel.tool.busy /\ ~panel.tool.done
  /\ Allowed(panel, panel.tool.kind, panel.tool.target)
  /\ Press(Ask([panel EXCEPT !.tool.busy = TRUE],
               [slot |-> "tool", tool |-> panel.tool.id, kind |-> panel.tool.kind,
                id |-> panel.tool.target]))

\* Mutant: an answer is taken for the operation of the dialog on display.
ToolReplyAny(p, call, answer) ==
  IF p.tool = None THEN p
  ELSE [p EXCEPT !.tool.busy = FALSE, !.tool.done = answer.ok]

ToolReply(p, call, answer) ==
  IF p.tool = None THEN p
  ELSE IF p.tool.id # call.tool THEN p
  ELSE [p EXCEPT !.tool.busy = FALSE, !.tool.done = answer.ok]

-----------------------------------------------------------------------------
(* The issues of a device: editDeviceIssues and applyDeviceIssueAction. *)

OnDevice ==
  /\ panel.detail # None /\ panel.body # None /\ panel.response # None
  /\ panel.detail.kind = "device" /\ panel.body.what = "evidence"

(* renderDeviceIssues again, over the device as it was read last. *)
Rendered(p) ==
  IF p.detail = None \/ p.data = None \/ p.context = None THEN p
  ELSE Show(p, p.detail.n, "evidence", p.context)

(* selectedDeviceIssueIds: one issue needs no selection. *)
Selected(p) ==
  IF Cardinality(Related(p)) = 1 THEN Related(p) ELSE p.response.chosen \cap Related(p)

(* What the dialog, as it was drawn, offers to act on. *)
Offered(body) == IF Cardinality(body.rows) = 1 THEN body.rows ELSE body.chosen

Idle == OnDevice /\ ~panel.response.busy

Choose(e) ==
  /\ Idle /\ panel.response.form = None
  /\ e \in panel.body.rows /\ Cardinality(panel.body.rows) > 1
  /\ Press(Rendered([panel EXCEPT !.response.chosen =
                       IF e \in @ THEN @ \ {e} ELSE @ \cup {e}]))

\* Mutant: each request takes the next issue selected by then.
ContinueWithSelected(p, call) ==
  LET ids == IF p.response = None THEN <<>> ELSE SetToSeq(Selected(p) \ call.tried)
  IN IF ~Current(p) \/ ids = <<>> THEN p
     ELSE Ask(p, [call EXCEPT !.id = ids[1], !.tried = @ \cup {ids[1]}])

(* The loop over the ids captured at the click, from the next that is      *)
(* still an open issue of the device on display.                           *)
Continue(p, call) ==
  LET i == SelectInSeq(call.rest, LAMBDA e : e \in Related(p))
  IN IF ~Current(p) \/ i = 0 THEN p
     ELSE Ask(p, [call EXCEPT !.id = call.rest[i], !.tried = @ \cup {call.rest[i]},
                              !.rest = SubSeq(@, i + 1, Len(@))])

Ended(p, n) ==
  IF p.response = None \/ p.response.n # n THEN p
  ELSE LET q == [p EXCEPT !.response.busy = FALSE, !.response.form = None]
       IN IF p.detail # None /\ p.detail.n = n /\ Current(p) THEN Rendered(q) ELSE q

Apply(p, kind, ids) ==
  LET call == [slot |-> "response", n |-> p.response.n, kind |-> kind, captured |-> ids,
               id |-> None, tried |-> {}, rest |-> SetToSeq(ids)]
      q == Continue(Rendered([p EXCEPT !.response.busy = TRUE]), call)
  IN IF q.asks = <<>> THEN Ended(q, p.response.n) ELSE q

Acknowledge ==
  /\ Idle /\ panel.response.form = None
  /\ Current(panel) /\ Offered(panel.body) # {} /\ Selected(panel) # {}
  /\ Press(Apply([panel EXCEPT !.response = Response(panel)], "acknowledge", Selected(panel)))

Pause ==
  /\ Idle /\ panel.response.form = None
  /\ Current(panel) /\ Offered(panel.body) # {}
  /\ Press(Rendered([panel EXCEPT !.response.form = Selected(panel)]))

ApplyPause ==
  /\ Idle /\ panel.response.form # None
  /\ Current(panel) /\ panel.response.form # {}
  /\ Press(Apply(panel, "shelve", panel.response.form))

CancelPause ==
  /\ Idle /\ panel.response.form # None
  /\ Press(Rendered([panel EXCEPT !.response.form = None]))

ResponseReply(p, call, answer) ==
  LET mine == p.response # None /\ p.response.n = call.n
      noted == IF mine /\ answer.ok
               THEN [p EXCEPT !.response.saved = @ \cup {<<call.kind, call.id>>}] ELSE p
      q == Continue(noted, call)
  IN IF q.asks = <<>> THEN Ended(q, call.n) ELSE q

DeliverAction(i) ==
  LET m == down[i]
  IN /\ Action(m)
     /\ \/ m.call.slot = "tool" /\ Acts(ToolReply(panel, m.call, m.answer), RemoveAt(down, i))
        \/ m.call.slot = "response"
           /\ Acts(ResponseReply(panel, m.call, m.answer), RemoveAt(down, i))
  /\ UNCHANGED <<up, spent>>

-----------------------------------------------------------------------------
Next ==
  \/ ReadNext
  \/ \E kind \in Kinds : OpenTool(kind)
  \/ CloseTool \/ Submit
  \/ \E e \in Episodes : Choose(e)
  \/ Acknowledge \/ Pause \/ ApplyPause \/ CancelPause
  \/ \E i \in Ready : DeliverAction(i)

Spec == ReadInit /\ [][Next]_vars

-----------------------------------------------------------------------------
(* Properties *)

(* What the dialog shows is of the selection it stands open for, through   *)
(* selections that change while a read is under way.                       *)
DetailIsSelected ==
  panel.body # None => panel.detail # None /\ panel.body.n = panel.detail.n

(* Rows of a source come from one publication, never from pages of two,    *)
(* and a notification report shows all of its members or none: a page list *)
(* restricted to a report is never unrestricted and never partial.         *)
PagesWhole ==
  /\ panel.pane # None => Cardinality(panel.pane.pages) <= 1
  /\ panel.report # None => panel.members # None
  /\ panel.reportStatus = "available" => panel.members = Range(Members)

(* Put together: nothing on the page is mixed or partial.                  *)
ShownIsWhole == DetailIsSelected /\ PagesWhole

(* When nothing is under way any more, the dialog and the pane show the    *)
(* latest evidence the panel has (or that its read failed): no change      *)
(* during a read was lost, and nothing is left loading.                    *)
PaneCaughtUp(p) ==
  /\ p.pane # None
  /\ p.pane.node = p.source /\ ~p.pane.loading /\ ~p.pane.more
  /\ p.pane.failed \/ (p.pane.pages = {p.data.at} /\ p.pane.stamp[2] = p.readings)

NothingLost ==
  (up /\ down = <<>> /\ Current(panel)) =>
    /\ panel.detail # None => panel.body # None
                              /\ panel.data.at \in {panel.body.at, panel.unread}
    /\ panel.page = "sources" => PaneCaughtUp(panel)
    /\ panel.report # None => panel.reportStatus # "loading"

(* A change, of the evidence or by the user, costs at most a read of the   *)
(* source at once and one more when it is over: coalesced refreshes do not *)
(* ask for each other for ever.                                            *)
ReadsBounded == panel.sourceSequence <= 2 * (server.at + spent.faults + spent.turns)

(* Put together: overlapping reads end, and end up to date.                *)
ReadsSettle == NothingLost /\ ReadsBounded

(* Every request of a response to a device acts on an issue captured when  *)
(* the user pressed the button and still open in the panel's evidence:     *)
(* issues that end or arrive meanwhile never take another's place.         *)
Responses(messages) ==
  {messages[i].call : i \in {j \in DOMAIN messages :
     messages[j].kind = "reply" /\ messages[j].call.slot = "response"}}

NeverSubstitutes ==
  [][\A call \in Responses(down') \ Responses(down) :
       call.id \in call.captured \cap panel'.data.open]_vars

(* The panel claims an action saved only when the server has saved it, for *)
(* this issue and not for one that was acted on in a dialog before.        *)
ConfirmedSaved ==
  LET holds(kind, e) == CASE kind = "acknowledge" -> e \in server.acked
                          [] kind = "shelve" -> e \in server.paused
                          [] kind = "cancel_control" -> e \notin server.paused
  IN /\ (panel.tool # None /\ panel.tool.done) => holds(panel.tool.kind, panel.tool.target)
     /\ panel.response # None =>
          \A a \in panel.response.saved : a[1] = "acknowledge" => holds(a[1], a[2])

(* The issues acted on are those the dialog showed as selected. *)
ActsOnSelection ==
  [][Acknowledge =>
       \A call \in Responses(down') \ Responses(down) :
          call.captured \subseteq Offered(panel.body)]_vars
=============================================================================
