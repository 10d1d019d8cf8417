---------------------------- MODULE PanelInvariant ----------------------------
(***************************************************************************)
(* The inductive invariants of the panel: why its safety properties hold.  *)
(*                                                                         *)
(* Inv describes the panel between two handlers, the server, and every     *)
(* message on its way: what an answer would let the panel claim holds      *)
(* before it arrives.  A handler that only reads is a chain of the         *)
(* operators of PanelReads, and Stays, Opens and Follow say what each of   *)
(* them may do to a panel that fits.                                       *)
(*                                                                         *)
(* ReadInv is why reads that overlap end, and end up to date: each number  *)
(* the panel waits for is of one request under way, what is on display is  *)
(* of the latest evidence or will be read again, and a read more is paid   *)
(* for by a publication, a fault or a click.                               *)
(***************************************************************************)
EXTENDS IssueActions

(* Everything the panel has.                                               *)
Fields ==
  {"page", "status", "data", "conn", "source", "readings", "pane", "sourceSequence",
   "sourceRequest", "sourceRefreshPending", "detail", "selections", "body", "detailSequence",
   "detailRequest", "detailRefreshPending", "report", "reportStatus", "members",
   "reportEpisode", "reportSequence", "reportRequest", "pending", "tool", "response",
   "context", "unread", "asks"}

(* The rows of a source are of one publication.                            *)
PaneFits(pane) ==
  pane # None =>
    /\ pane = [node |-> pane.node, stamp |-> pane.stamp, loading |-> pane.loading,
               pages |-> pane.pages, next |-> pane.next, more |-> pane.more,
               failed |-> pane.failed]
    /\ \E at : pane.pages \subseteq {at}

(* A request of a read: one for a source remembers the rows it replaces,   *)
(* one for a report the first of its members.                              *)
ReadFits(call) ==
  \/ /\ call.slot = "source"
     /\ call = [slot |-> "source", id |-> call.id, conn |-> call.conn, node |-> call.node,
                at |-> call.at, stamp |-> call.stamp, previous |-> call.previous]
     /\ PaneFits(call.previous)
  \/ /\ call.slot = "more"
     /\ call = [slot |-> "more", id |-> call.id, conn |-> call.conn, at |-> call.at]
  \/ /\ call.slot = "detail"
     /\ DOMAIN call = {"slot", "id", "n", "conn", "step", "at"}
  \/ /\ call.slot = "report"
     /\ call = [slot |-> "report", id |-> call.id, got |-> call.got]
     /\ call.got \in Seq(Episodes) /\ Len(call.got) < Len(Members)
     /\ \A i \in DOMAIN call.got : call.got[i] = Members[i]

AsksFit(p) ==
  p.asks \in Seq(Range(p.asks)) /\ \A call \in Range(p.asks) : ReadFits(call)

DetailFits(p) ==
  /\ p.detail # None => p.detail = [kind |-> p.detail.kind, id |-> p.detail.id, n |-> p.detail.n]
  /\ p.body # None => p.detail # None /\ p.body.n = p.detail.n
  /\ p.data # None => p.data.open \subseteq Episodes

ResponseFits(p) ==
  p.response # None =>
    /\ p.response = [n |-> p.response.n, chosen |-> p.response.chosen, busy |-> p.response.busy,
                     form |-> p.response.form, saved |-> p.response.saved]
    /\ p.response.form # None => p.response.form \subseteq Episodes

(* A link to an issue of a report waits for its members: no issue is open. *)
ReportFits(p) ==
  /\ p.report # None => p.members # None
  /\ p.reportStatus = "available" => p.members = Range(Members)
  /\ p.reportEpisode # None => /\ p.members = {} /\ p.pending = None
                               /\ p.detail # None => p.detail.kind # "episode"

(* An action's dialog stands alone.                                        *)
ToolFits(p) ==
  /\ p.selections \in Nat
  /\ p.tool # None =>
       /\ p.tool = [id |-> p.tool.id, kind |-> p.tool.kind, target |-> p.tool.target,
                    busy |-> p.tool.busy, done |-> p.tool.done]
       /\ p.tool.id \in Nat /\ p.tool.id <= p.selections /\ p.tool.kind \in Kinds
       /\ p.detail = None /\ p.pending = None /\ p.reportEpisode = None

Fits(p) ==
  /\ DOMAIN p = Fields /\ p = [f \in Fields |-> p[f]]
  /\ PaneFits(p.pane) /\ AsksFit(p)
  /\ DetailFits(p) /\ ResponseFits(p) /\ ReportFits(p) /\ ToolFits(p)

Saved(p) == IF p.response = None THEN {} ELSE p.response.saved

(* What a handler of reads does to a panel.                                *)
Follow(p, q) ==
  /\ Fits(q) /\ p.selections <= q.selections
  /\ q.tool \in {p.tool, None} /\ Saved(q) \subseteq Saved(p)

(* And what it keeps unless it opens something.                            *)
Stays(p, q) ==
  /\ Follow(p, q) /\ q.status = p.status /\ q.pending = p.pending /\ q.data = p.data
  /\ q.report = p.report /\ q.reportStatus = p.reportStatus /\ q.members = p.members
  /\ q.reportEpisode = p.reportEpisode

(* What the parts of a panel beside the pane and the requests read.        *)
Same(p, q) ==
  /\ q.page = p.page /\ q.status = p.status /\ q.data = p.data
  /\ q.detail = p.detail /\ q.selections = p.selections /\ q.body = p.body
  /\ q.report = p.report /\ q.reportStatus = p.reportStatus /\ q.members = p.members
  /\ q.reportEpisode = p.reportEpisode /\ q.pending = p.pending /\ q.tool = p.tool
  /\ q.response = p.response

Whole(p) == DOMAIN p = Fields /\ p = [f \in Fields |-> p[f]]

(* What opens no other dialog changes the dialog, its body and response.   *)
Beside(p, q) ==
  /\ Whole(q) /\ q.status = p.status /\ q.data = p.data /\ q.selections = p.selections
  /\ q.report = p.report /\ q.reportStatus = p.reportStatus /\ q.members = p.members
  /\ q.reportEpisode = p.reportEpisode /\ q.pending = p.pending
  /\ q.pane = p.pane /\ q.asks = p.asks
  /\ q.detail \in {p.detail, None} /\ q.tool \in {p.tool, None}

(* Another dialog opens: nothing else stands open, and no link to an issue *)
(* of a report waits for its members.                                      *)
Opens(p, q) ==
  /\ Follow(p, q) /\ q.status = p.status /\ q.pending = p.pending /\ q.data = p.data

(* What changes the report only.                                           *)
Reports(p, q) ==
  /\ Whole(q) /\ q.page = p.page /\ q.status = p.status /\ q.data = p.data
  /\ q.detail = p.detail /\ q.selections = p.selections /\ q.body = p.body
  /\ q.pending = p.pending /\ q.tool = p.tool /\ q.response = p.response
  /\ q.pane = p.pane

(* A link waits while the evidence is not current.                         *)
Awaits(p) == p.pending # None => ~Current(p)

(* What is a sequence of its elements, as every handler keeps it.          *)
Sequence(q) == q \in Seq(Range(q))

(* The server has saved an action.                                         *)
Holds(s, kind, e) ==
  CASE kind = "acknowledge" -> e \in s.acked
    [] kind = "shelve" -> e \in s.paused
    [] kind = "cancel_control" -> e \notin s.paused

(* The panel claims nothing the server does not hold.                      *)
Claims(p, s) ==
  /\ (p.tool # None /\ p.tool.done) => Holds(s, p.tool.kind, p.tool.target)
  /\ \A a \in Saved(p) : a[1] = "acknowledge" => a[2] \in s.acked

(* A request of a response to a device stays within the issues captured.   *)
CallFits(call) ==
  /\ DOMAIN call = {"slot", "n", "kind", "captured", "id", "tried", "rest"}
  /\ call = [x \in DOMAIN call |-> call[x]]
  /\ call.slot = "response" /\ call.kind \in {"acknowledge", "shelve"}
  /\ call.captured \subseteq Episodes /\ call.rest \in Seq(call.captured)

(* A message on its way: evidence, the answer of a read, or the answer of  *)
(* an action, which is a claim if the panel takes it for its own.          *)
EventFits(m) == m.kind = "event" /\ m.data.open \subseteq Episodes

ReplyFits(m) ==
  /\ m.kind = "reply" /\ DOMAIN m = {"kind", "call", "answer"} /\ m = [x \in DOMAIN m |-> m[x]]
  /\ DOMAIN m.answer = {"ok", "at", "expired"} /\ m.answer = [x \in DOMAIN m.answer |-> m.answer[x]]

Mail(p, s, m) ==
  \/ EventFits(m)
  \/ ReplyFits(m) /\ m.call.slot \in ReadSlots /\ ReadFits(m.call)
  \/ /\ ReplyFits(m) /\ m.call.slot = "tool"
     /\ m.call.tool \in Nat /\ m.call.tool <= p.selections
     /\ (p.tool # None /\ p.tool.id = m.call.tool /\ m.answer.ok)
          => Holds(s, p.tool.kind, p.tool.target)
  \/ /\ ReplyFits(m) /\ CallFits(m.call)
     /\ (m.call.kind = "acknowledge" /\ m.answer.ok) => m.call.id \in s.acked

Mails(p, s, messages) == Sequence(messages) /\ \A m \in Range(messages) : Mail(p, s, m)

ServerFits(s) ==
  /\ DOMAIN s = {"at", "open", "kept", "acked", "paused", "expired"}
  /\ s = [x \in DOMAIN s |-> s[x]]
  /\ s.open \subseteq Episodes

Inv ==
  /\ Fits(panel) /\ panel.asks = <<>> /\ Awaits(panel)
  /\ ServerFits(server)
  /\ Mails(panel, server, down)
  /\ Claims(panel, server)

(* A later state of the server that keeps what it has saved.               *)
Keeps(s, t) == s.acked \subseteq t.acked /\ s.paused = t.paused

(* What NeverSubstitutes says of a step.                                   *)
Chosen ==
  \A call \in Responses(down') \ Responses(down) : call.id \in call.captured \cap panel'.data.open

ResponseShape(r) ==
  /\ r = [n |-> r.n, chosen |-> r.chosen, busy |-> r.busy, form |-> r.form, saved |-> r.saved]
  /\ r.form # None => r.form \subseteq Episodes

(* What the dialog draws: no request is made, nothing new is claimed.      *)
Draws(p, q) == Stays(p, q) /\ q.asks = p.asks /\ q.detail = p.detail

-----------------------------------------------------------------------------
(* Reads that overlap (ReadsSettle)                                        *)

(* The requests under way, with those a handler has just asked for.        *)
Reads(m) == m.kind = "reply" /\ m.call.slot \in ReadSlots

Calls(messages) == {m.call : m \in {x \in Range(messages) : Reads(x)}}

Under(p, W) == W \cup Range(p.asks)

(* A pane that shows the rows of the publication in its stamp, unless that *)
(* publication has been followed by another.                               *)
Honest(p, x) ==
  (~x.loading /\ x.stamp # <<>>) =>
    /\ x.stamp[1] \in Nat /\ x.stamp[1] <= p.data.at
    /\ (x.stamp[1] = p.data.at /\ ~x.failed) => x.pages = {p.data.at}

PaneHolds(p) ==
  /\ p.sourceSequence \in Nat /\ p.sourceRefreshPending \in BOOLEAN
  /\ p.sourceRequest = None => ~p.sourceRefreshPending
  /\ p.sourceRequest # None =>
       /\ Current(p) /\ p.pane # None /\ p.sourceRequest \in SourceRequests
       /\ p.sourceRequest.slot \in {"source", "more"} /\ p.sourceRequest.id = p.sourceSequence
  /\ p.pane # None =>
       /\ p.pane \in Panes
       /\ p.pane.loading <=> (p.sourceRequest # None /\ p.sourceRequest.slot = "source")
       /\ p.pane.more <=> (p.sourceRequest # None /\ p.sourceRequest.slot = "more")
       /\ p.pane.loading => p.pane.node = p.sourceRequest.node
       /\ ~Current(p) => p.pane.stamp = <<>>
       /\ Honest(p, p.pane)

(* A request of loadSource or loadSourceMore; the one the panel waits for. *)
OfSource(call) == call.slot \in {"source", "more"}

Numbered(p, call) == OfSource(call) /\ call.id = p.sourceSequence

Awaited(p, call) ==
  /\ Own(p, call) /\ call.conn = p.conn
  /\ call.slot = "source" =>
       /\ call.node = p.sourceRequest.node /\ call.stamp = p.sourceRequest.stamp
       /\ call.at = call.stamp[1] /\ call.at \in Nat /\ call.at <= p.data.at
       /\ call.stamp # <<>>
       /\ call.previous # None =>
            /\ call.previous \in Panes
            /\ ~call.previous.loading /\ ~call.previous.more /\ Honest(p, call.previous)

SourceHolds(p, W) ==
  /\ PaneHolds(p)
  /\ \A call \in Under(p, W) : OfSource(call) => call.id \in Nat /\ call.id <= p.sourceSequence
  /\ \A call \in Under(p, W) : Numbered(p, call) => Awaited(p, call)
  /\ p.sourceRequest # None => \E call \in Under(p, W) : Numbered(p, call)
  /\ \A i \in DOMAIN p.asks : Numbered(p, p.asks[i]) =>
       /\ \A call \in W : ~Numbered(p, call)
       /\ \A j \in DOMAIN p.asks : Numbered(p, p.asks[j]) => i = j

(* The pane shows the latest evidence of the source, or will.              *)
Caught(p) ==
  (p.page = "sources" /\ Current(p)) =>
    IF p.sourceRequest = None
    THEN p.pane # None /\ p.pane.node = p.source /\ p.pane.stamp = Stamp(p)
    ELSE \/ p.sourceRefreshPending
         \/ p.sourceRequest.slot = "source" =>
              p.sourceRequest.node = p.source /\ p.sourceRequest.stamp = Stamp(p)

(* The source on display, and the number of current evidence.              *)
Timely(p) == p.source \in Nodes /\ p.readings \in {0, 1} /\ (Current(p) => p.data.at \in Nat)

(* What a step adds to the requests.                                       *)
Adds(p, q, slots) ==
  /\ Sequence(p.asks) /\ Sequence(q.asks) /\ Len(p.asks) <= Len(q.asks)
  /\ \A i \in 1..Len(p.asks) : q.asks[i] = p.asks[i]
  /\ \A i \in 1..Len(q.asks) : i > Len(p.asks) =>
       q.asks[i].slot \in slots /\ (q.asks[i].slot = "report" \/ q.asks[i].conn = p.conn)

(* What these properties read of a panel for the source,                   *)
SourceKept(p, q) ==
  /\ q.status = p.status /\ q.data = p.data /\ q.conn = p.conn /\ q.pane = p.pane
  /\ q.sourceSequence = p.sourceSequence /\ q.sourceRequest = p.sourceRequest
  /\ q.sourceRefreshPending = p.sourceRefreshPending

(* for the dialog and for the report.                                      *)
DetailKept(p, q) ==
  /\ q.status = p.status /\ q.data = p.data /\ q.conn = p.conn
  /\ q.detail = p.detail /\ q.selections = p.selections /\ q.body = p.body
  /\ q.detailSequence = p.detailSequence /\ q.detailRequest = p.detailRequest
  /\ q.detailRefreshPending = p.detailRefreshPending
  /\ q.context = p.context /\ q.unread = p.unread

ReportKept(p, q) ==
  /\ q.status = p.status /\ q.report = p.report /\ q.reportStatus = p.reportStatus
  /\ q.reportSequence = p.reportSequence /\ q.reportRequest = p.reportRequest

(* A step of a handler of the source: what it leaves alone, and what it    *)
(* asks for.                                                               *)
ForSource(p, q) ==
  /\ Fits(q) /\ DetailKept(p, q) /\ ReportKept(p, q)
  /\ q.page = p.page /\ q.source = p.source /\ q.readings = p.readings
  /\ Adds(p, q, {"source", "more"})

(* How many reads of the source the panel has asked for or is bound to.    *)
Weight(p) ==
  p.sourceSequence + (IF p.sourceRefreshPending THEN 1 ELSE 0)
    + (IF p.sourceRequest # None /\ p.sourceRequest.slot = "more" THEN 1 ELSE 0)

(* The request a read of the source sends.                                 *)
ReadCall(p) ==
  [slot |-> "source", id |-> p.sourceSequence + 1, conn |-> p.conn, node |-> p.source,
   at |-> p.data.at, stamp |-> Stamp(p), previous |-> Previous(p)]

(* A request more, which is the only one of its number.                    *)
Newer(p, q, call, W) ==
  /\ q.asks = Append(p.asks, call) /\ OfSource(call) /\ call.conn = p.conn
  /\ \A c \in Under(p, W) : ~Numbered(q, c)

(* A refresh that waits for the request under way.                         *)
Pend(p, waits) == [p EXCEPT !.sourceRefreshPending = waits]

(* The pane has what it is to show, or has asked for it.                   *)
Exact(p) ==
  IF p.sourceRequest = None
  THEN p.pane # None /\ p.pane.node = p.source /\ p.pane.stamp = Stamp(p)
  ELSE p.sourceRequest.slot = "source" /\ p.sourceRequest.node = p.source /\ p.sourceRequest.stamp = Stamp(p)

(* What loadSource does.                                                   *)
Waits(p, force) ==
  p.sourceRefreshPending \/ force \/ p.sourceRequest.node # p.source \/ p.sourceRequest.stamp # Stamp(p)

(* A step of a handler of the source, the requests under way, and what it  *)
(* costs.                                                                  *)
Loads(p, q, W, cost) ==
  /\ ForSource(p, q) /\ SourceHolds(q, W)
  /\ p.sourceSequence <= q.sourceSequence /\ Weight(q) <= Weight(p) + cost

(* The request is over, and the pane is x.                                 *)
Cleared(p, x) ==
  [p EXCEPT !.pane = x, !.sourceRequest = None, !.sourceRefreshPending = FALSE]

Over(p, x) == IF p.sourceRefreshPending THEN LoadSource(Cleared(p, x), TRUE) ELSE Cleared(p, x)

(* No request is under way.                                                *)
Free(p) == p.sourceRequest = None /\ p.sourceRefreshPending = FALSE

(* A pane to be left with.                                                 *)
Rests(p, x) == x # None => x \in Panes /\ ~x.loading /\ ~x.more /\ Honest(p, x)

(* The answer that is handled is the last of its number.                   *)
Final(p, call, W) == p.asks = <<>> /\ \A c \in W : Numbered(p, call) => ~Numbered(p, c)

(* An answer is of the evidence the panel has when it comes.               *)
Prompt(p, call, answer) ==
  answer.at \in Nat /\ (call.conn = p.conn => Current(p) /\ answer.at = p.data.at)

(* The pane a read of the source leaves.                                   *)
PaneRead(p, call, answer) ==
  IF answer.ok
  THEN [node |-> call.node, stamp |-> <<call.at, p.readings>>, loading |-> FALSE,
        pages |-> {answer.at}, next |-> TRUE, more |-> FALSE, failed |-> FALSE]
  ELSE [node |-> call.node, stamp |-> call.stamp, loading |-> FALSE,
        pages |-> {}, next |-> FALSE, more |-> FALSE, failed |-> TRUE]

(* The pane once more rows are no longer awaited,                          *)
Unmore(p) == [p.pane EXCEPT !.more = FALSE]

(* and with the last of them.                                              *)
Complete(p, call) == [p.pane EXCEPT !.more = FALSE, !.next = FALSE, !.stamp = <<call.at, p.readings>>]

(* The request for more rows.                                              *)
MoreCall(p) == [slot |-> "more", id |-> p.sourceSequence, conn |-> p.conn, at |-> p.data.at]

(* The dialog shows the latest evidence, or that its read failed.          *)
Told(p) ==
  /\ p.body # None /\ p.data.at \in {p.body.at, p.unread}
  /\ p.detail.kind = "device" => p.data.at = p.unread \/ (p.context # None /\ p.data.at = p.context)

(* The request under way is of the selection on display.                   *)
Latest(p) == p.detailRequest.id = p.detailSequence /\ p.detailRequest.n = p.detail.n

(* A request whose answer the dialog takes.                                *)
Heard(p, call) == call.slot = "detail" /\ call.id = p.detailSequence

DialogHolds(p) ==
  /\ p.detailSequence \in Nat /\ p.detailRefreshPending \in BOOLEAN
  /\ p.detailRequest = None => ~p.detailRefreshPending
  /\ p.detailRequest # None =>
       /\ Current(p) /\ p.detailRequest \in DetailRequests
       /\ p.detailRequest.id <= p.detailSequence /\ p.detailRequest.n <= p.selections
  /\ p.detail # None => /\ p.detail.n \in Nat /\ p.detail.n <= p.selections
                        /\ p.context # None => p.detail.kind = "device" /\ p.context \in Nat

(* The dialog shows the latest evidence, or will.                          *)
Shown(p) ==
  (p.detail # None /\ Current(p)) =>
    IF p.detailRequest = None THEN Told(p)
    ELSE p.detailRefreshPending \/ (Latest(p) /\ p.detailRequest.at = p.data.at)

Steps == {"node", "coverage", "context", "page"}

Following(p, call) ==
  /\ p.detailRequest # None /\ p.detailRequest.id = call.id
  /\ call.conn = p.conn /\ call.n = p.detailRequest.n
  /\ (call.step \in {"coverage", "page"} /\ ~p.detailRefreshPending) => call.at = p.detailRequest.at

DetailHolds(p, W) ==
  /\ DialogHolds(p)
  /\ \A call \in Under(p, W) : call.slot = "detail" =>
       call.id \in Nat /\ call.id <= p.detailSequence /\ call.step \in Steps /\ call.at \in Nat
  /\ \A call \in Under(p, W) : Heard(p, call) => Following(p, call)
  /\ p.detailRequest # None =>
       \E call \in Under(p, W) : call.slot = "detail" /\ call.id = p.detailRequest.id
  /\ \A i \in DOMAIN p.asks : Heard(p, p.asks[i]) =>
       /\ \A call \in W : ~Heard(p, call)
       /\ \A j \in DOMAIN p.asks : Heard(p, p.asks[j]) => i = j

(* A step of a handler of the dialog: what it leaves alone.                *)
ForDetail(p, q) ==
  /\ Fits(q) /\ SourceKept(p, q) /\ ReportKept(p, q)
  /\ q.page \in {p.page, "history"} /\ q.source = p.source /\ q.readings = p.readings
  /\ p.detailSequence \in Nat /\ q.detailSequence \in Nat /\ p.detailSequence <= q.detailSequence
  /\ Adds(p, q, {"detail"})

(* None of the requests under way is one the dialog takes.                 *)
Unheard(p, q, W) ==
  \A c \in Under(p, W) : /\ ~Heard(q, c)
                         /\ c.slot = "detail" => /\ c.id \in Nat /\ c.id <= q.detailSequence
                                                /\ c.step \in Steps /\ c.at \in Nat

(* Another read of the dialog, whatever comes of it.                       *)
Bump(p) == [p EXCEPT !.detailSequence = @ + 1]

(* A refresh that waits for the request under way.                         *)
Remember(p, waits) == [p EXCEPT !.detailRefreshPending = waits]

Waiting(p) == p.detailRefreshPending \/ p.detailRequest.n # p.detail.n \/ p.detailRequest.at # p.data.at

(* The first request of a read.                                            *)
DetailCall(p, step) ==
  [slot |-> "detail", id |-> p.detailSequence, n |-> p.detail.n, conn |-> p.conn, step |-> step, at |-> p.data.at]

DetailRequest(p) == [id |-> p.detailSequence, n |-> p.detail.n, at |-> p.data.at]

Fetch(p, step) == [Ask(p, DetailCall(p, step)) EXCEPT !.detailRequest = DetailRequest(p)]

(* A handler of the dialog that leaves it with what it is to show.         *)
Redraws(p, q, W) == ForDetail(p, q) /\ DetailHolds(q, W) /\ Shown(q)

(* The read of the dialog is over.                                         *)
Settled(p) == [p EXCEPT !.detailRequest = None, !.detailRefreshPending = FALSE]

Unasked(p) == p.detailRequest = None /\ p.detailRefreshPending = FALSE

(* The answer that is handled is the last the dialog takes.                *)
FinalRead(p, call, W) == p.asks = <<>> /\ \A c \in W : Heard(p, call) => ~Heard(p, c)

(* The next request of a chain.                                            *)
NextCall(call, step, at) == [call EXCEPT !.step = step, !.at = at]

(* The selection of openDetail, before it is read.                         *)
Selecting(p, kind, id) ==
  [p EXCEPT !.detail = [kind |-> kind, id |-> id, n |-> p.selections + 1],
            !.selections = @ + 1, !.body = None, !.response = None, !.context = None]

(* The read of a report.                                                   *)
OfReport(p, call) == call.slot = "report" /\ call.id = p.reportRequest

ReportHolds(p, W) ==
  /\ p.reportSequence \in Nat
  /\ p.reportRequest # None =>
       /\ p.reportRequest = p.reportSequence /\ p.report # None
       /\ \E call \in Under(p, W) : OfReport(p, call)

(* A report that is loading is read.                                       *)
ReportAsked(p) ==
  (Current(p) /\ p.report # None /\ p.reportStatus = "loading") => p.reportRequest # None

(* A step of a handler of the report: what it leaves alone.                *)
ForReport(p, q) ==
  /\ Fits(q) /\ SourceKept(p, q) /\ DetailKept(p, q)
  /\ q.page = p.page /\ q.source = p.source /\ q.readings = p.readings
  /\ Adds(p, q, {"report"})

(* A report that is not read any more, or that waits to be read.           *)
Unread(p) == p.reportRequest = None

(* What an answer of the report leaves alone, and its read that is over.   *)
Beyond(p, r) ==
  /\ Fits(r) /\ SourceKept(p, r) /\ DetailKept(p, r)
  /\ r.page = p.page /\ r.source = p.source /\ r.readings = p.readings
  /\ r.report = p.report /\ r.reportSequence = p.reportSequence

Finished(p, r) ==
  /\ Beyond(p, r) /\ r.asks = p.asks /\ r.reportRequest = None /\ r.reportStatus # "loading"

(* What holds of the panel at every moment, and what holds again at the    *)
(* end of a handler.                                                       *)
Base(p, W) == Timely(p) /\ SourceHolds(p, W) /\ DetailHolds(p, W) /\ ReportHolds(p, W)

Due(p) == Caught(p) /\ Shown(p) /\ ReportAsked(p)

(* A part of a handler, which costs at most so many reads of the source.   *)
Moves(p, q, cost) ==
  /\ Fits(q) /\ q.status = p.status /\ q.data = p.data /\ q.conn = p.conn
  /\ Adds(p, q, ReadSlots)
  /\ p.sourceSequence \in Nat /\ q.sourceSequence \in Nat /\ p.sourceSequence <= q.sourceSequence
  /\ p.detailSequence \in Nat /\ q.detailSequence \in Nat /\ p.detailSequence <= q.detailSequence
  /\ Weight(p) \in Nat /\ Weight(q) \in Nat /\ Weight(q) <= Weight(p) + cost
  /\ (~Current(p) /\ p.reportRequest = None) => q.reportRequest = None

(* What these reads do not look at may change, and the page.               *)
Apart(p, q) ==
  /\ Fits(q) /\ q.asks = p.asks /\ SourceKept(p, q) /\ DetailKept(p, q) /\ ReportKept(p, q)

(* loadSource at the end of a handler.                                     *)
Handles(p, q, W, cost) == Moves(p, q, cost) /\ Base(q, W) /\ Due(q)

(* The dialog of an action opens in place of the issue's.                  *)
Tooled(p, u) == [Shut(p) EXCEPT !.selections = @ + 1, !.tool = u]

(* A panel without requests of its own, as a handler leaves it.            *)
Calmly(p, q, W) == Fits(q) /\ Handles(p, q, W, 0) /\ q.asks = <<>>

(* What the panel does without a read, and the action it may ask for.      *)
Performs(p, rest, W) ==
  \E q : /\ Calmly(p, q, W)
         /\ \/ Acts(q, rest)
            \/ Current(q) /\ \E call : call.slot \notin ReadSlots /\ call.kind \in Kinds /\ Acts(Ask(q, call), rest)

(* What an answer costs: one read when the source could not be read.       *)
Charge(p, call, answer) == IF Numbered(p, call) /\ ~answer.ok THEN 1 ELSE 0

(* The panel as the listener is told, before it reads anything.            *)
Noticed(p, status, data) ==
  [(IF status # "current" /\ Current(p) THEN InvalidateReads(p) ELSE p) EXCEPT
     !.status = status, !.data = IF status = "current" THEN data ELSE @]

(* What the panel has of a read under way is of its number.                *)
Followed(p) ==
  (p.detailRequest # None /\ p.detail # None) =>
    p.detailRefreshPending \/ p.detailRequest.n # p.detail.n \/ p.detailRequest.id = p.detailSequence

(* The numbers and requests the evidence does not change.                  *)
Retained(p, q) ==
  /\ q.asks = p.asks /\ q.conn = p.conn /\ q.pane = p.pane
  /\ q.sourceSequence = p.sourceSequence /\ q.sourceRequest = p.sourceRequest
  /\ q.sourceRefreshPending = p.sourceRefreshPending
  /\ q.source = p.source /\ q.readings = p.readings
  /\ q.detail = p.detail /\ q.selections = p.selections /\ q.context = p.context
  /\ q.detailSequence = p.detailSequence /\ q.detailRequest = p.detailRequest
  /\ q.detailRefreshPending = p.detailRefreshPending
  /\ q.report = p.report /\ q.reportSequence = p.reportSequence /\ q.reportRequest = p.reportRequest

(* Nothing is under way that the panel waits for, and nothing is current.  *)
Idling(q) ==
  /\ ~Current(q) /\ q.sourceRequest = None /\ q.sourceRefreshPending = FALSE
  /\ q.detailRequest = None /\ q.detailRefreshPending = FALSE
  /\ q.pane # None => q.pane \in Panes /\ q.pane.stamp = <<>> /\ q.pane.loading = FALSE /\ q.pane.more = FALSE

(* The evidence stops being current, or is still not.                      *)
Away(p, status) == Noticed(p, status, None)

(* The listener, once it has been told and has read the report.            *)
Displays(status, q) ==
  IF status = "current" /\ q.pending # None
  THEN OpenDetail([q EXCEPT !.pending = None], q.pending.kind, q.pending.id)
  ELSE IF q.detail # None THEN LoadDetail(q) ELSE q

(* The evidence as it is told.                                             *)
Informed(p, data) == Noticed(p, "current", data)

(* The panel without the requests it has just made.                        *)
Rested(q) == [q EXCEPT !.asks = <<>>]

(* The messages on their way: evidence of the present connection, its end, *)
(* and answers that name a publication.                                    *)
Tells(m, p) == m.kind = "event" /\ m.conn = p.conn /\ m.status = "current"

Ends(m, p) == m.kind = "event" /\ m.conn = p.conn /\ m.status # "current"

Dated(m, p) == Reads(m) /\ m.call.slot # "report" /\ m.call.conn = p.conn

Messages(D, p) ==
  \A i \in DOMAIN D :
    /\ D[i].kind = "event" => D[i].conn \in Nat /\ D[i].conn <= p.conn /\ D[i].data.at \in Nat
    /\ Reads(D[i]) => /\ D[i].answer.at \in Nat
                      /\ D[i].call.slot # "report" => D[i].call.conn \in Nat /\ D[i].call.conn <= p.conn

Clock(p, s) ==
  /\ s.at \in Nat /\ p.conn \in Nat
  /\ Current(p) => p.data.at \in Nat /\ p.data.at <= s.at

(* Evidence comes in the order it is published, and again after its end.   *)
EventsOrdered(D, p, s) ==
  /\ \A i \in DOMAIN D : Tells(D[i], p) =>
       /\ D[i].data.at <= s.at /\ (Current(p) => p.data.at < D[i].data.at)
       /\ \A j \in DOMAIN D : (j < i /\ Tells(D[j], p)) => D[j].data.at < D[i].data.at
  /\ \A i \in DOMAIN D : Ends(D[i], p) => i + 1 \in DOMAIN D /\ Tells(D[i + 1], p)

(* An answer is of the latest evidence that comes before it.               *)
AnswersOrdered(D, p) ==
  \A i \in DOMAIN D : Dated(D[i], p) =>
     /\ \A j \in DOMAIN D : (j < i /\ Tells(D[j], p)) => D[j].data.at <= D[i].answer.at
     /\ \/ Current(p) /\ p.data.at = D[i].answer.at
        \/ \E j \in DOMAIN D : j < i /\ Tells(D[j], p) /\ D[j].data.at = D[i].answer.at

Queue(D, p, s) == Messages(D, p) /\ Clock(p, s) /\ EventsOrdered(D, p, s) /\ AnswersOrdered(D, p)

(* The panel knows of the latest publication, or will.                     *)
Announced(D, p, s) ==
  \/ Current(p) /\ p.data.at = s.at
  \/ \E j \in DOMAIN D : Tells(D[j], p) /\ D[j].data.at = s.at

(* The sequence without one of its messages.                               *)
Skip(i, k) == IF k < i THEN k ELSE k + 1

Removed(D, i, R) ==
  /\ Len(D) \in Nat /\ DOMAIN D = 1..Len(D) /\ i \in 1..Len(D) /\ DOMAIN R = 1..(Len(D) - 1)
  /\ \A k \in DOMAIN R : R[k] = D[Skip(i, k)]

(* Two sequences after one another.                                        *)
After(D, E, F) ==
  /\ Len(D) \in Nat /\ DOMAIN D = 1..Len(D) /\ Len(E) \in Nat /\ DOMAIN E = 1..Len(E)
  /\ DOMAIN F = 1..(Len(D) + Len(E))
  /\ \A k \in 1..Len(D) : F[k] = D[k]
  /\ \A k \in 1..Len(E) : F[Len(D) + k] = E[k]

(* Nothing but answers to actions comes before it.                         *)
Foremost(D, i) == \A j \in DOMAIN D : j < i => Action(D[j])

(* The answers that a number of the panel still waits for, one each.       *)
Counted(m, p) == Reads(m) /\ Numbered(p, m.call)

Answered(m, p) == Reads(m) /\ Heard(p, m.call)

Alone(D, p) ==
  \A i, j \in DOMAIN D :
    ((Counted(D[i], p) /\ Counted(D[j], p)) \/ (Answered(D[i], p) /\ Answered(D[j], p))) => i = j

(* No request has a number the panel has not given.                        *)
Bounded(p, W) ==
  \A call \in W :
    /\ OfSource(call) => call.id \in Nat /\ call.id <= p.sourceSequence
    /\ call.slot = "detail" => call.id \in Nat /\ call.id <= p.detailSequence

(* What the queue and the panel have of each other between two steps.      *)
Held(D, p, s, u) ==
  /\ Base(p, Calls(D)) /\ Due(p) /\ Queue(D, p, s) /\ Alone(D, p)
  /\ IF u THEN Announced(D, p, s) ELSE D = <<>> /\ ~Current(p) /\ Unread(p)

(* The bound of ReadsBounded, with what the panel and the queue are bound  *)
(* to: n counts the faults and turns.                                      *)
Affords(D, p, n) ==
  /\ Current(p) =>
       /\ Weight(p) + 1 <= 2 * (p.data.at + n)
       /\ (\E i \in DOMAIN D : Counted(D[i], p) /\ ~D[i].answer.ok) =>
            Weight(p) + 2 <= 2 * (p.data.at + n)
  /\ ~Current(p) =>
       \A i \in DOMAIN D : Tells(D[i], p) => p.sourceSequence + 2 <= 2 * (D[i].data.at + n)

(* No evidence and no failure that counts comes in.                        *)
Familiar(F, q, D, p) ==
  /\ \A k \in DOMAIN F : Tells(F[k], q) => \E j \in DOMAIN D : F[k] = D[j] /\ Tells(D[j], p)
  /\ \A k \in DOMAIN F : (Counted(F[k], q) /\ ~F[k].answer.ok) =>
       \E j \in DOMAIN D : F[k] = D[j] /\ Counted(D[j], p) /\ ~D[j].answer.ok

(* The messages on their way after a handler.                              *)
Answers(q, s) == [i \in DOMAIN q.asks |-> Answer(s, q.asks[i], TRUE)]

Sent(R, q, s, u) == IF u THEN R \o Answers(q, s) ELSE R

(* While there is a connection.                                            *)
Tracked(D, p, s, n) == Held(D, p, s, TRUE) /\ Affords(D, p, n)

(* The inductive invariant of the reads.                                   *)
Used == spent.faults + spent.turns

Spends == spent \in [{"publications", "faults", "turns", "presses"} -> Nat]

ReadInv ==
  /\ Held(down, panel, server, up) /\ Affords(down, panel, Used)
  /\ ~up => panel.sourceSequence + 2 <= 2 * (server.at + Used)
  /\ up \in BOOLEAN /\ Spends

(* The queue as a handler finds it, perhaps without the message it takes.  *)
Found(R) ==
  /\ Sequence(R) /\ Base(panel, Calls(R)) /\ Due(panel)
  /\ Queue(R, panel, server) /\ Alone(R, panel) /\ Affords(R, panel, Used)
  /\ IF up THEN Announced(R, panel, server)
     ELSE R = <<>> /\ ~Current(panel) /\ Unread(panel)

(* What is left of the panel for another user.                             *)
Released(p, n) == [Release(p) EXCEPT !.conn = n]
=============================================================================
