----------------------------- MODULE PanelReads -----------------------------
(***************************************************************************)
(* What the panel reads beside the stream of evidence                      *)
(* (frontend/homeostatic.js, device-issues.mjs, workspace-navigation.mjs): *)
(* the source shown on Monitoring with its further pages, the detail of an *)
(* issue, node or device in a chain of requests, and the members of a      *)
(* notification report.  Each has one read in flight; a change during it   *)
(* asks for another, and leaving, losing the connection or changing the    *)
(* user makes its answer obsolete.                                         *)
(***************************************************************************)
EXTENDS Integers, FiniteSets, Sequences, SequencesExt

CONSTANTS
  Episodes,     \* issues, all of one device
  Opening,      \* those open when the panel opens
  Paused,       \* those whose notifications are paused by then
  Device,
  Nodes,        \* sources that may be selected on Monitoring
  Links,        \* what the links to the panel open: records of kind and id
  Report,       \* the reference of a notification report
  Members,      \* the issues of the report, in the server's pages of one
  None,
  MaxPublications, MaxFaults, MaxTurns, MaxPresses, MaxSpent  \* bounds of the instance

(* The pane of a source, a request of its own or of a dialog, and what a   *)
(* dialog shows.                                                           *)
Stamps == {<<>>} \cup (Nat \X {0, 1, None})

Panes ==
  [node : Nodes, stamp : Stamps, loading : BOOLEAN, pages : SUBSET Nat, next : BOOLEAN,
   more : BOOLEAN, failed : BOOLEAN]

SourceRequests == [slot : {"source", "more"}, id : Nat, node : Nodes, stamp : Stamps]

DetailRequests == [id : Nat, n : Nat, at : Nat]

Bodies ==
  [n : Nat, what : {"evidence", "ended", "error"}, at : Nat, rows : SUBSET Episodes,
   chosen : SUBSET Episodes]

(* There is a source, a report has members, and None is no issue, status,  *)
(* number or any other of these values.                                    *)
ASSUME PanelAssumption ==
  /\ IsFiniteSet(Episodes) /\ None \notin Episodes /\ (\A S \in SUBSET Episodes : S # None)
  /\ None # "available" /\ Nodes # {} /\ None \notin Nat
  /\ None \notin Panes \cup SourceRequests \cup DetailRequests \cup Bodies
  /\ Opening \subseteq Episodes /\ Paused \subseteq Episodes
  /\ Members \in Seq(Episodes) /\ Members # <<>>

VARIABLES
  server,   \* at: the publication; issues open, kept (retained), acked, paused; expired report
  panel,    \* the panel element and the requests of its present handler
  down,     \* replies and events on their way to the panel, in order
  up,       \* the connection to Home Assistant
  spent

vars == <<server, panel, down, up, spent>>

Spend(kind, limit) ==
  /\ spent[kind] < limit
  /\ spent.publications + spent.faults + spent.turns + spent.presses < MaxSpent
  /\ spent' = [spent EXCEPT ![kind] = @ + 1]

Published == Spend("publications", MaxPublications)
Faulty == Spend("faults", MaxFaults)
Turn == Spend("turns", MaxTurns)
Pressed == Spend("presses", MaxPresses)

Current(p) == p.status = "current"

Ask(p, call) == [p EXCEPT !.asks = Append(@, call)]

-----------------------------------------------------------------------------
(* The source pane: loadSource and loadSourceMore.  pane.pages are the     *)
(* publications its rows come from; a stamp is <<publication, readings>>,  *)
(* and of a pane that must be read again <<>>.                              *)

Loaded(pane) == pane # None /\ pane.pages # {}

Previous(p) == IF p.pane # None /\ p.pane.node = p.source THEN p.pane ELSE None

Stamp(p) == <<p.data.at, IF Loaded(Previous(p)) THEN p.readings ELSE None>>

Reading(p) ==
  LET old == Previous(p)
  IN Ask([p EXCEPT !.sourceSequence = @ + 1,
                   !.sourceRequest = [slot |-> "source", id |-> p.sourceSequence + 1,
                                      node |-> p.source, stamp |-> Stamp(p)],
                   !.pane = [node |-> p.source, stamp |-> Stamp(p), loading |-> TRUE,
                             pages |-> IF old = None THEN {} ELSE old.pages,
                             next |-> old # None /\ old.next,
                             more |-> old # None /\ old.more,
                             failed |-> old # None /\ old.failed]],
         [slot |-> "source", id |-> p.sourceSequence + 1, conn |-> p.conn, node |-> p.source,
          at |-> p.data.at, stamp |-> Stamp(p), previous |-> old])

LoadSource(p, force) ==
  IF p.page # "sources" \/ ~Current(p) THEN p
  ELSE IF p.sourceRequest # None
  THEN [p EXCEPT !.sourceRefreshPending =
          @ \/ force \/ p.sourceRequest.node # p.source \/ p.sourceRequest.stamp # Stamp(p)]
  ELSE IF ~force /\ p.pane # None /\ p.pane.node = p.source /\ p.pane.stamp = Stamp(p) THEN p
  ELSE Reading(p)

(* The finally blocks: the request is over, and a pending refresh starts.  *)
Own(p, call) ==
  p.sourceRequest # None /\ p.sourceRequest.slot = call.slot /\ p.sourceRequest.id = call.id

SourceDone(p, call) ==
  IF ~Own(p, call) THEN p
  ELSE LET q == [p EXCEPT !.sourceRequest = None, !.sourceRefreshPending = FALSE]
       IN IF p.sourceRefreshPending THEN LoadSource(q, TRUE) ELSE q

SourceCurrent(p, call) ==
  /\ call.id = p.sourceSequence /\ call.conn = p.conn
  /\ p.page = "sources" /\ Current(p) /\ p.source = call.node

SourceReply(p, call, answer) ==
  IF SourceCurrent(p, call)
  THEN LoadSource(SourceDone(
         [p EXCEPT !.pane =
            IF answer.ok
            THEN [node |-> call.node, stamp |-> <<call.at, p.readings>>, loading |-> FALSE,
                  pages |-> {answer.at}, next |-> TRUE, more |-> FALSE, failed |-> FALSE]
            ELSE [node |-> call.node, stamp |-> call.stamp, loading |-> FALSE,
                  pages |-> {}, next |-> FALSE, more |-> FALSE, failed |-> TRUE]],
         call), FALSE)
  ELSE LET abandoned == p.pane # None /\ p.pane.loading /\ p.pane.node = call.node
               /\ Own(p, call)
       IN SourceDone(IF abandoned THEN [p EXCEPT !.pane = call.previous] ELSE p, call)

LoadSourceMore(p) ==
  IF \/ p.pane = None \/ p.sourceRequest # None \/ ~Current(p)
  THEN p
  ELSE IF p.pane.loading \/ p.pane.more \/ ~p.pane.next THEN p
  ELSE Ask([p EXCEPT !.pane.more = TRUE,
                     !.sourceRequest = [slot |-> "more", id |-> p.sourceSequence,
                                        node |-> p.pane.node, stamp |-> p.pane.stamp]],
           [slot |-> "more", id |-> p.sourceSequence, conn |-> p.conn, at |-> p.data.at])

MoreReply(p, call, answer) ==
  IF call.id # p.sourceSequence \/ p.pane = None THEN p
  ELSE LET changed == call.at # p.data.at \/ p.pane.pages # {answer.at}
           done == [p EXCEPT !.pane.more = FALSE]
       IN IF ~answer.ok THEN LoadSource(SourceDone(done, call), FALSE)
          ELSE IF changed THEN SourceDone(LoadSource(done, TRUE), call)
          ELSE LoadSource(SourceDone(
                 [done EXCEPT !.pane.pages = @ \cup {answer.at}, !.pane.next = FALSE,
                              !.pane.stamp = <<call.at, p.readings>>],
                 call), FALSE)

-----------------------------------------------------------------------------
(* The detail dialog: loadDetail and readDetail.  A selection is an object *)
(* of its own (n); body is what the dialog shows of it, as of at, and      *)
(* unread the evidence for which its read failed last.                     *)

Shut(p) == [p EXCEPT !.detail = None, !.detailSequence = @ + 1, !.body = None]

(* showHistory: an ended issue with a retained record. *)
ShowHistory(p) == [Shut(p) EXCEPT !.page = "history", !.tool = None]

(* The issues of the device on display: relatedDeviceIssues. *)
Related(p) ==
  IF p.detail # None /\ p.data # None /\ p.detail.kind = "device" THEN p.data.open ELSE {}

(* stateFor: the response to the issues of this selection, all chosen at   *)
(* first; an issue that ended is chosen no longer.                         *)
Response(p) ==
  IF p.response = None
  THEN [n |-> p.detail.n, chosen |-> Related(p), busy |-> FALSE, form |-> None, saved |-> {}]
  ELSE [p.response EXCEPT !.chosen = @ \cap Related(p)]

Show(p, n, what, at) ==
  LET device == p.detail.kind = "device" /\ what = "evidence"
      q == [p EXCEPT !.response = IF device THEN Response(p) ELSE @,
                     !.context = IF device THEN at ELSE @,
                     !.unread = IF what = "error" THEN at ELSE @]
  IN [q EXCEPT !.body =
        [n |-> n, what |-> what, at |-> at, rows |-> Related(p),
         chosen |-> IF device THEN q.response.chosen ELSE {}]]

Scoped(p) == p.page = "problems" /\ p.report # None

(* The first request of a read, or what the evidence at hand settles. *)
ReadSelection(p) ==
  LET id == p.detail.id
      ask(step) ==
        Ask(p, [slot |-> "detail", id |-> p.detailSequence, n |-> p.detail.n,
                conn |-> p.conn, step |-> step, at |-> p.data.at])
  IN IF p.detail.kind = "device" THEN ask("context")
     ELSE IF p.detail.kind = "node" \/ id \in p.data.open THEN ask("node")
     ELSE IF ~Scoped(p) /\ id \in p.data.kept THEN ShowHistory(p)
     ELSE Show(p, p.detail.n, "ended", p.data.at)

ReadDetail(p) ==
  LET q == [p EXCEPT !.detailSequence = @ + 1]
  IN IF p.detail = None THEN q
     ELSE IF ~Current(p)
     THEN LET known == /\ p.body # None /\ p.status \in {"loading", "disconnected"}
                       /\ p.body.what = "evidence"
          IN [q EXCEPT !.body = IF known THEN @ ELSE None]
     ELSE ReadSelection(q)

\* Mutant: a refresh of the evidence during a read is not remembered.
LoadDetailOnce(p) ==
  IF p.detail = None \/ ~Current(p) THEN ReadDetail(p)
  ELSE IF p.detailRequest # None
  THEN [p EXCEPT !.detailRefreshPending = @ \/ p.detailRequest.n # p.detail.n]
  ELSE LET q == ReadDetail(p)
       IN IF q.asks = p.asks THEN q
          ELSE [q EXCEPT !.detailRequest = [id |-> q.detailSequence, n |-> p.detail.n,
                                            at |-> p.data.at]]

LoadDetail(p) ==
  IF p.detail = None \/ ~Current(p) THEN ReadDetail(p)
  ELSE IF p.detailRequest # None
  THEN [p EXCEPT !.detailRefreshPending =
          @ \/ p.detailRequest.n # p.detail.n \/ p.detailRequest.at # p.data.at]
  ELSE LET q == ReadDetail(p)
       IN IF q.asks = p.asks THEN q
          ELSE [q EXCEPT !.detailRequest = [id |-> q.detailSequence, n |-> p.detail.n,
                                            at |-> p.data.at]]

OpenDetail(p, kind, id) ==
  LoadDetail([p EXCEPT !.detail = [kind |-> kind, id |-> id, n |-> p.selections + 1],
                       !.selections = @ + 1, !.body = None, !.response = None,
                       !.context = None])

DetailDone(p, call) ==
  IF p.detailRequest = None \/ p.detailRequest.id # call.id THEN p
  ELSE LET q == [p EXCEPT !.detailRequest = None, !.detailRefreshPending = FALSE]
       IN IF p.detailRefreshPending /\ p.detail # None /\ Current(p) THEN LoadDetail(q) ELSE q

\* Mutant: an answer is shown in the dialog that is open by then.
DetailCurrentAnyRead(p, call) == call.conn = p.conn /\ Current(p) /\ p.detail # None

DetailCurrent(p, call) ==
  /\ call.id = p.detailSequence /\ call.conn = p.conn /\ Current(p)
  /\ p.detail # None /\ p.detail.n = call.n

(* After each await of the chain: the node and its coverage, or the page   *)
(* of the device and the next one; the coverage may fail.                  *)
DetailReply(p, call, answer) ==
  LET next(step) == Ask(p, [call EXCEPT !.step = step, !.at = answer.at])
  IN IF ~DetailCurrent(p, call) THEN DetailDone(p, call)
     ELSE IF ~answer.ok /\ call.step # "coverage"
     THEN DetailDone(Show(p, call.n, "error", p.data.at), call)
     ELSE CASE call.step = "node" /\ p.detail.kind = "episode" -> next("coverage")
            [] call.step = "context" -> next("page")
            [] OTHER -> DetailDone(Show(p, call.n, "evidence", IF call.step = "node" THEN answer.at
                                                               ELSE call.at), call)

-----------------------------------------------------------------------------
(* The members of a notification report: loadNotificationReport. *)

LoadReport(p) ==
  IF \/ p.report = None \/ ~Current(p) \/ p.reportRequest # None
     \/ p.reportStatus \in {"available", "expired", "error"}
  THEN p
  ELSE Ask([p EXCEPT !.reportSequence = @ + 1, !.reportRequest = p.reportSequence + 1,
                     !.reportStatus = "loading"],
           [slot |-> "report", id |-> p.reportSequence + 1, got |-> <<>>])

InvalidateReport(p) ==
  [p EXCEPT !.reportSequence = @ + 1, !.reportRequest = None,
            !.members = IF p.report = None THEN @ ELSE {},
            !.reportStatus = IF p.report = None THEN @ ELSE "loading"]

ClearReport(p) ==
  [InvalidateReport(p) EXCEPT !.report = None, !.reportStatus = None, !.members = None,
                              !.reportEpisode = None]

ReportReply(p, call, answer) ==
  IF call.id # p.reportSequence \/ p.report = None THEN p
  ELSE IF ~answer.ok \/ answer.expired
  THEN [p EXCEPT !.reportRequest = None,
                 !.reportStatus = IF answer.ok THEN "expired" ELSE "error"]
  ELSE LET got == Append(call.got, Members[Len(call.got) + 1])
       IN IF Len(got) < Len(Members) THEN Ask(p, [call EXCEPT !.got = got])
          ELSE LET q == [p EXCEPT !.reportRequest = None, !.members = Range(got),
                                  !.reportStatus = "available", !.reportEpisode = None]
               IN IF p.reportEpisode \in Range(got)
                  THEN OpenDetail(q, "episode", p.reportEpisode) ELSE q

-----------------------------------------------------------------------------
(* The stream of evidence: the listener of the store, and release. *)

InvalidateReads(p) ==
  [InvalidateReport(p) EXCEPT
     !.sourceSequence = @ + 1, !.sourceRequest = None, !.sourceRefreshPending = FALSE,
     !.pane = IF @ = None THEN @ ELSE [@ EXCEPT !.stamp = <<>>, !.loading = FALSE, !.more = FALSE],
     !.detailSequence = @ + 1, !.detailRequest = None, !.detailRefreshPending = FALSE]

Listener(p, status, data) ==
  LET left == IF status # "current" /\ Current(p) THEN InvalidateReads(p) ELSE p
      q == LoadReport([left EXCEPT !.status = status,
                                   !.data = IF status = "current" THEN data ELSE @])
      opened == IF status = "current" /\ q.pending # None
                THEN OpenDetail([q EXCEPT !.pending = None], q.pending.kind, q.pending.id)
                ELSE IF q.detail # None THEN LoadDetail(q) ELSE q
  IN LoadSource(opened, FALSE)

(* release, after which connect listens to the store of the new connection *)
(* or user.                                                                *)
Release(p) ==
  [Shut(p) EXCEPT
     !.sourceSequence = @ + 1, !.pane = None, !.sourceRequest = None,
     !.sourceRefreshPending = FALSE, !.detailRequest = None, !.detailRefreshPending = FALSE,
     !.tool = None, !.status = "loading", !.data = None]

-----------------------------------------------------------------------------
(* What becomes of an action or of the read of a report whose request      *)
(* fails with the connection.                                              *)
Rejected(p) ==
  [p EXCEPT !.reportStatus = IF p.reportRequest = None THEN @ ELSE "error",
            !.reportRequest = None,
            !.tool = IF @ = None THEN @ ELSE [@ EXCEPT !.busy = FALSE],
            !.response = IF @ = None THEN @ ELSE [@ EXCEPT !.busy = FALSE, !.form = None]]

(* External: the socket and the server.  A request is answered from what   *)
(* the server knows when it is made; the answer is the delay.              *)

Answer(s, call, ok) ==
  [kind |-> "reply", call |-> call,
   answer |-> [ok |-> ok, at |-> s.at, expired |-> s.expired]]

Data(s) == [at |-> s.at, open |-> s.open, kept |-> s.kept, paused |-> s.paused]

Event(s, conn) == <<[kind |-> "event", conn |-> conn, status |-> "current", data |-> Data(s)]>>

PageOf(selection) == IF selection.kind = "episode" THEN "problems" ELSE "sources"

(* The panel as it is opened, at a page or by the link of a selection. *)
Fresh(pending) ==
  [page |-> IF pending = None THEN "problems" ELSE PageOf(pending), status |-> "loading", data |-> None, conn |-> 1,
   source |-> CHOOSE n \in Nodes : TRUE, readings |-> 0, pane |-> None,
   sourceSequence |-> 0, sourceRequest |-> None, sourceRefreshPending |-> FALSE,
   detail |-> None, selections |-> 0, body |-> None,
   detailSequence |-> 0, detailRequest |-> None, detailRefreshPending |-> FALSE,
   report |-> None, reportStatus |-> None, members |-> None, reportEpisode |-> None,
   reportSequence |-> 0, reportRequest |-> None, pending |-> pending,
   tool |-> None, response |-> None, context |-> None, unread |-> None, asks |-> <<>>]

ReadInit ==
  /\ server = [at |-> 1, open |-> Opening, kept |-> {}, acked |-> {}, paused |-> Paused,
               expired |-> FALSE]
  /\ \E pending \in {None} \cup Links :
        panel = Fresh(pending)
  /\ up = TRUE
  /\ down = Event(server, 1)
  /\ spent = [publications |-> 0, faults |-> 0, turns |-> 0, presses |-> 0]

(* The panel after a handler; its requests are sent and answered. *)
Runs(p, rest) ==
  /\ panel' = [p EXCEPT !.asks = <<>>]
  /\ down' = IF up THEN rest \o [i \in DOMAIN p.asks |-> Answer(server, p.asks[i], TRUE)]
             ELSE rest

Click(p) == Turn /\ Runs(p, down) /\ UNCHANGED <<server, up>>

(* What follows at most once on another click: a dialog closed or replaced. *)
Follows(p) == Runs(p, down) /\ UNCHANGED <<server, up, spent>>

Goes(p, page) == [ClearReport(Shut(p)) EXCEPT !.page = page]

(* A destination of its own, by link or Back: applyPath. *)
Arrives(p, page) == [Goes(p, page) EXCEPT !.pending = None, !.tool = None]

(* A dialog is modal: the page behind it takes no click. *)
OnPage == panel.detail = None /\ panel.tool = None

OpenPage(page) == OnPage /\ Click(LoadSource(Goes(panel, page), FALSE))

OpenLink(selection) ==
  LET p == Arrives(panel, PageOf(selection))
  IN Click(LoadSource(IF Current(p) THEN OpenDetail(p, selection.kind, selection.id)
                      ELSE [p EXCEPT !.pending = selection], FALSE))

(* The link of a notification, of the whole of it or of one issue. *)
OpenReport(e) ==
  Click(LoadReport([Arrives(panel, "problems") EXCEPT !.report = Report, !.reportStatus = "loading",
                                          !.members = {}, !.reportEpisode = e]))

SelectSource(node) ==
  /\ OnPage /\ panel.page = "sources" /\ node # panel.source
  /\ Click(LoadSource([panel EXCEPT !.source = node], FALSE))

MoreEvidence ==
  LET p == LoadSourceMore(panel) IN OnPage /\ panel.page = "sources" /\ p # panel /\ Click(p)

Open(kind, id) ==
  /\ OnPage /\ Current(panel)
  /\ kind = "episode" => id \in panel.data.open
                         /\ (panel.members # None => id \in panel.members)
  /\ kind = "device" => panel.members = None
  /\ Click(OpenDetail(panel, kind, id))

Close ==
  /\ panel.detail # None
  /\ panel.response # None => ~panel.response.busy
  /\ Follows(Shut(panel))

RetryReport ==
  OnPage /\ panel.report # None /\ panel.reportStatus = "error" /\ Click(LoadReport(InvalidateReport(panel)))

(* A state of a shown entity changes in Home Assistant: set hass. *)
Readings ==
  LET p == [panel EXCEPT !.readings = 1 - @]
      seen == p.page = "sources" /\ Loaded(p.pane)
  IN seen /\ Click(LoadSource(p, FALSE))

(* set hass with another user: release, then connect to another store. *)
OtherUser ==
  /\ up
  /\ Turn
  /\ panel' = [Release(panel) EXCEPT !.conn = @ + 1]
  /\ down' = down \o Event(server, panel.conn + 1)
  /\ UNCHANGED <<server, up>>

(* The runtime publishes: an issue ended, opened or was acknowledged. *)
Publish(s) ==
  /\ server' = [s EXCEPT !.at = @ + 1]
  /\ down' = IF up THEN down \o Event(server', panel.conn) ELSE down

IssueOpens(e) ==
  /\ e \notin server.open \cup server.kept
  /\ Published
  /\ Publish([server EXCEPT !.open = @ \cup {e}])
  /\ UNCHANGED <<panel, up>>

IssueEnds(e, kept) ==
  /\ e \in server.open
  /\ Published
  /\ Publish([server EXCEPT !.open = @ \ {e}, !.kept = IF kept THEN @ \cup {e} ELSE @])
  /\ UNCHANGED <<panel, up>>

Expire ==
  /\ ~server.expired
  /\ Published
  /\ server' = [server EXCEPT !.expired = TRUE]
  /\ UNCHANGED <<panel, down, up>>

(* A reload of the integration: monitoring is unavailable, and back.  The  *)
(* requests under way are answered all the same.                           *)
Reloads ==
  /\ up
  /\ Faulty
  /\ server' = [server EXCEPT !.at = @ + 1]
  /\ down' = down \o <<[Event(server, panel.conn)[1] EXCEPT !.status = "unavailable"]>>
                  \o Event(server', panel.conn)
  /\ UNCHANGED <<panel, up>>

(* A request under way fails. *)
Fails(i) ==
  /\ down[i].kind = "reply" /\ down[i].answer.ok
  /\ Faulty
  /\ down' = [down EXCEPT ![i].answer.ok = FALSE]
  /\ UNCHANGED <<server, panel, up>>

(* The connection drops: every request fails after the store has told its  *)
(* listeners, and most are obsolete by then.                               *)
Disconnect ==
  /\ up
  /\ Faulty
  /\ up' = FALSE
  /\ panel' = Rejected([Listener(panel, "disconnected", None) EXCEPT !.asks = <<>>])
  /\ down' = <<>>
  /\ UNCHANGED server

Reconnect ==
  /\ ~up
  /\ up' = TRUE
  /\ down' = Event(server, panel.conn)
  /\ UNCHANGED <<server, panel, spent>>

Replied(p, call, answer) ==
  CASE call.slot = "source" -> SourceReply(p, call, answer)
    [] call.slot = "more" -> MoreReply(p, call, answer)
    [] call.slot = "detail" -> DetailReply(p, call, answer)
    [] call.slot = "report" -> ReportReply(p, call, answer)

ReadSlots == {"source", "more", "detail", "report"}

(* Messages come in order, but the answer to an action is not awaited for  *)
(* and may come after later ones.                                          *)
Action(m) == m.kind = "reply" /\ m.call.slot \notin ReadSlots

Ready == {i \in DOMAIN down : \A j \in 1..(i - 1) : Action(down[j])}

DeliverEvent(i) ==
  /\ down[i].kind = "event"
  /\ Runs(IF down[i].conn = panel.conn THEN Listener(panel, down[i].status, down[i].data)
          ELSE panel, RemoveAt(down, i))
  /\ UNCHANGED <<server, up, spent>>

DeliverRead(i) ==
  /\ down[i].kind = "reply" /\ ~Action(down[i])
  /\ Runs(Replied(panel, down[i].call, down[i].answer), RemoveAt(down, i))
  /\ UNCHANGED <<server, up, spent>>

ReadNext ==
  \/ \E page \in {"problems", "sources"} : OpenPage(page)
  \/ \E x \in Links : OpenLink(x)
  \/ \E e \in {None} \cup {x.id : x \in {y \in Links : y.kind = "episode"}} : OpenReport(e)
  \/ RetryReport
  \/ \E n \in Nodes : SelectSource(n)
  \/ MoreEvidence \/ Readings
  \/ \E e \in Episodes : Open("episode", e)
  \/ \E n \in Nodes : Open("node", n)
  \/ Open("device", Device)
  \/ Close \/ OtherUser
  \/ \E e \in Episodes, kept \in BOOLEAN : IssueEnds(e, kept)
  \/ \E e \in Episodes : IssueOpens(e)
  \/ Expire \/ Reloads
  \/ \E i \in DOMAIN down : Fails(i)
  \/ Disconnect \/ Reconnect
  \/ \E i \in Ready : DeliverEvent(i)
  \/ \E i \in Ready : DeliverRead(i)
=============================================================================
