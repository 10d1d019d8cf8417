----------------------------- MODULE PanelSafety -----------------------------
(***************************************************************************)
(* What the panel shows of the reads, requests and answers under way, for  *)
(* every report, set of issues and bound: nothing mixed or partial         *)
(* (ShownIsWhole), nothing claimed that the server has not saved           *)
(* (ConfirmedSaved), no issue acted on that was not captured at the click  *)
(* and still open (NeverSubstitutes), and reads that overlap settled on the*)
(* latest evidence (ReadsSettle).  The invariants are in PanelInvariant.   *)
(***************************************************************************)
EXTENDS PanelInvariant, FiniteSetTheorems, WellFoundedInduction, TLAPS

(* Doing nothing is a step of a handler of reads. *)
LEMMA Nothing == \A p : Fits(p) => Stays(p, p)
BY DEF Stays, Follow, Fits, ToolFits

(* Steps of a handler follow one another. *)
LEMMA Onward ==
  ASSUME NEW p, Fits(p), NEW q, NEW r, Follow(p, q), Follow(q, r)
  PROVE  Follow(p, r)
BY DEF Follow, Fits, ToolFits

(* So do those that open nothing. *)
LEMMA StaysOn ==
  ASSUME NEW p, Fits(p), NEW q, NEW r, Stays(p, q), Stays(q, r)
  PROVE  Stays(p, r)
BY Onward DEF Stays

(* A next step, from a panel that fits. *)
LEMMA ThenStays ==
  ASSUME NEW p, Fits(p), NEW q, NEW r, Stays(p, q), Fits(q) => Stays(q, r)
  PROVE  Stays(p, r)
BY StaysOn DEF Stays, Follow

(* A sequence of its elements, and one more. *)
LEMMA AppendFits ==
  ASSUME NEW q, q \in Seq(Range(q)), NEW x
  PROVE  Append(q, x) \in Seq(Range(Append(q, x))) /\ Range(Append(q, x)) = Range(q) \cup {x}
<1>1. Append(q, x) \in Seq(Range(q) \cup {x}) /\ Len(Append(q, x)) = Len(q) + 1 OBVIOUS
<1>2. \A i \in 1..Len(q) : Append(q, x)[i] = q[i] OBVIOUS
<1>3. Append(q, x)[Len(q) + 1] = x OBVIOUS
<1>4. DOMAIN Append(q, x) = 1..(Len(q) + 1) /\ DOMAIN q = 1..Len(q) /\ Len(q) \in Nat BY <1>1
<1>5. Range(Append(q, x)) = Range(q) \cup {x}
 <2>1. Range(Append(q, x)) \subseteq Range(q) \cup {x} BY <1>2, <1>3, <1>4 DEF Range
 <2>2. x \in Range(Append(q, x)) BY <1>3, <1>4 DEF Range
 <2>3. \A i \in 1..Len(q) : q[i] \in Range(Append(q, x)) BY <1>2, <1>4 DEF Range
 <2> QED BY Zenon, <1>4, <2>1, <2>2, <2>3 DEF Range
<1> QED BY <1>1, <1>5

(* A panel whose dialog, report and data are the same fits as before. *)
LEMMA SameStays ==
  ASSUME NEW p, Fits(p), NEW q, Whole(q), Same(p, q), PaneFits(q.pane), AsksFit(q)
  PROVE  Stays(p, q)
<1>1. Fits(q) BY DEF Whole, Same, Fits, DetailFits, ResponseFits, ReportFits, ToolFits
<1>2. p.selections <= q.selections BY DEF Same, Fits, ToolFits
<1>3. Saved(q) = Saved(p) BY Zenon, Zenon DEF Same, Saved
<1> QED BY <1>1, <1>2, <1>3 DEF Stays, Follow, Same

(* Asking changes nothing else. *)
LEMMA AskStays ==
  ASSUME NEW p, Fits(p), NEW call, ReadFits(call)
  PROVE  Stays(p, Ask(p, call))
<1> DEFINE q == Ask(p, call)
<1>1. q = [p EXCEPT !.asks = Append(p.asks, call)] BY DEF Ask
<1>2. AsksFit(q)
 <2>1. q.asks = Append(p.asks, call) BY <1>1 DEF Fits, Fields
 <2>2. p.asks \in Seq(Range(p.asks)) BY DEF Fits, AsksFit
 <2> HIDE DEF q
 <2> QED BY <2>1, <2>2, AppendFits DEF Fits, AsksFit
<1>3. Whole(q) BY <1>1 DEF Fits, Fields, Whole
<1>4. Same(p, q) /\ q.pane = p.pane BY <1>1 DEF Fits, Fields, Same
<1> HIDE DEF q
<1>5. PaneFits(q.pane) BY <1>4 DEF Fits
<1>6. Stays(p, q) BY <1>2, <1>3, <1>4, <1>5, SameStays
<1> QED BY <1>6 DEF q

-----------------------------------------------------------------------------

(* The source pane                                                         *)

(* The rows of the same source, kept while it is read again. *)
LEMMA PreviousFits == \A p : Fits(p) => PaneFits(Previous(p))
BY DEF Previous, Fits, PaneFits

(* loadSource: a request and the rows it replaces. *)
LEMMA ReadingStays ==
  ASSUME NEW p, Fits(p)
  PROVE  Stays(p, Reading(p))
<1> DEFINE old == Previous(p)
           call == [slot |-> "source", id |-> p.sourceSequence + 1, conn |-> p.conn, node |-> p.source,
                    at |-> p.data.at, stamp |-> Stamp(p), previous |-> old]
           pane == [node |-> p.source, stamp |-> Stamp(p), loading |-> TRUE,
                    pages |-> IF old = None THEN {} ELSE old.pages,
                    next |-> old # None /\ old.next,
                    more |-> old # None /\ old.more,
                    failed |-> old # None /\ old.failed]
           request == [slot |-> "source", id |-> p.sourceSequence + 1, node |-> p.source, stamp |-> Stamp(p)]
           q == [p EXCEPT !.sourceSequence = @ + 1, !.sourceRequest = request, !.pane = pane]
<1>1. Reading(p) = Ask(q, call) BY DEF Reading
<1>2. PaneFits(old) BY PreviousFits
<1>3. PaneFits(pane) BY <1>2 DEF PaneFits
<1>4. ReadFits(call) BY <1>2 DEF ReadFits
<1> HIDE DEF pane, request, call
<1>5. Whole(q) /\ Same(p, q) /\ q.pane = pane /\ q.asks = p.asks BY ZenonT(40) DEF Fits, Fields, Whole, Same
<1> HIDE DEF q
<1>6. Stays(p, q) BY <1>3, <1>5, SameStays DEF Fits, AsksFit
<1>7. Fits(q) => Stays(q, Ask(q, call)) BY <1>4, AskStays
<1>8. Stays(p, Ask(q, call)) BY <1>6, <1>7, ThenStays
<1> QED BY <1>1, <1>8

(* loadSource, with the request under way or the stamp on display. *)
LEMMA LoadSourceStays ==
  ASSUME NEW p, Fits(p), NEW force
  PROVE  Stays(p, LoadSource(p, force))
<1> DEFINE pending == p.sourceRefreshPending \/ force \/ p.sourceRequest.node # p.source
                      \/ p.sourceRequest.stamp # Stamp(p)
           q == [p EXCEPT !.sourceRefreshPending = pending]
<1>1. LoadSource(p, force) \in {p, q, Reading(p)} BY DEF LoadSource
<1> HIDE DEF pending
<1>2. Whole(q) /\ Same(p, q) /\ q.pane = p.pane /\ q.asks = p.asks BY DEF Fits, Fields, Whole, Same
<1> HIDE DEF q
<1>3. Stays(p, q) BY <1>2, SameStays DEF Fits, AsksFit
<1> QED BY <1>1, <1>3, Nothing, ReadingStays

(* Its finally block, with the refresh that waited. *)
LEMMA SourceDoneStays ==
  ASSUME NEW p, Fits(p), NEW call
  PROVE  Stays(p, SourceDone(p, call))
<1> DEFINE q == [p EXCEPT !.sourceRequest = None, !.sourceRefreshPending = FALSE]
<1>1. SourceDone(p, call) \in {p, q, LoadSource(q, TRUE)} BY DEF SourceDone
<1>2. Whole(q) /\ Same(p, q) /\ q.pane = p.pane /\ q.asks = p.asks BY Zenon DEF Fits, Fields, Whole, Same
<1> HIDE DEF q
<1>3. Stays(p, q) BY <1>2, SameStays DEF Fits, AsksFit
<1>4. Stays(p, LoadSource(q, TRUE)) BY Zenon, LoadSourceStays, <1>3, ThenStays
<1> QED BY Zenon, <1>1, <1>3, <1>4, Nothing

(* Setting the pane. *)
LEMMA PaneStays ==
  ASSUME NEW p, Fits(p), NEW pane, PaneFits(pane)
  PROVE  Stays(p, [p EXCEPT !.pane = pane])
<1> DEFINE q == [p EXCEPT !.pane = pane]
<1>1. Whole(q) /\ Same(p, q) /\ q.pane = pane /\ q.asks = p.asks BY DEF Fits, Fields, Whole, Same
<1> HIDE DEF q
<1>2. Stays(p, q) BY <1>1, SameStays DEF Fits, AsksFit
<1> QED BY <1>2 DEF q

(* Its answer: the rows of one publication, or none. *)
LEMMA SourceReplyStays ==
  ASSUME NEW p, Fits(p), NEW call, PaneFits(call.previous), NEW answer
  PROVE  Stays(p, SourceReply(p, call, answer))
<1> DEFINE read == [node |-> call.node, stamp |-> <<call.at, p.readings>>, loading |-> FALSE,
                    pages |-> {answer.at}, next |-> TRUE, more |-> FALSE, failed |-> FALSE]
           failed == [node |-> call.node, stamp |-> call.stamp, loading |-> FALSE,
                      pages |-> {}, next |-> FALSE, more |-> FALSE, failed |-> TRUE]
           shown(pane) == [p EXCEPT !.pane = pane]
           pane == IF answer.ok THEN read ELSE failed
<1>1. SourceReply(p, call, answer) \in
        {LoadSource(SourceDone(shown(pane), call), FALSE), SourceDone(shown(call.previous), call),
         SourceDone(p, call)} BY Zenon DEF SourceReply
<1>2. PaneFits(pane) BY Zenon DEF PaneFits
<1> HIDE DEF pane
<1>3. Stays(p, shown(pane)) /\ Stays(p, shown(call.previous)) BY <1>2, PaneStays
<1> HIDE DEF shown
<1>4. ASSUME NEW q, Stays(p, q)
      PROVE  Stays(p, SourceDone(q, call)) /\ Stays(p, LoadSource(SourceDone(q, call), FALSE))
 BY ZenonT(40), SourceDoneStays, <1>4, ThenStays, LoadSourceStays
<1>5. Stays(p, p) BY Nothing
<1> QED BY Zenon, <1>1, <1>3, <1>4, <1>5

(* loadSourceMore: the rows on display stay. *)
LEMMA LoadSourceMoreStays ==
  ASSUME NEW p, Fits(p)
  PROVE  Stays(p, LoadSourceMore(p))
<1> DEFINE request == [slot |-> "more", id |-> p.sourceSequence, node |-> p.pane.node, stamp |-> p.pane.stamp]
           call == [slot |-> "more", id |-> p.sourceSequence, conn |-> p.conn, at |-> p.data.at]
           q == [p EXCEPT !.pane.more = TRUE, !.sourceRequest = request]
<1>1. LoadSourceMore(p) = p \/ (p.pane # None /\ LoadSourceMore(p) = Ask(q, call)) BY DEF LoadSourceMore
<1>2. ReadFits(call) BY DEF ReadFits
<1> HIDE DEF request, call
<1>3. ASSUME p.pane # None PROVE Stays(p, Ask(q, call))
 <2>1. Whole(q) /\ Same(p, q) /\ q.pane = [p.pane EXCEPT !.more = TRUE] /\ q.asks = p.asks
  BY Zenon DEF Fits, Fields, Whole, Same
 <2>2. PaneFits(q.pane) BY Zenon, <1>3, <2>1 DEF Fits, PaneFits
 <2> HIDE DEF q
 <2>3. Stays(p, q) BY <2>1, <2>2, SameStays DEF Fits, AsksFit
 <2>4. Fits(q) => Stays(q, Ask(q, call)) BY <1>2, AskStays
 <2> QED BY <2>3, <2>4, ThenStays
<1> QED BY <1>1, <1>3, Nothing

(* More rows are added to those of the one publication they are of.        *)
MoreOver(p) == [p EXCEPT !.pane.more = FALSE]

MoreAdded(p, call, answer) ==
  [MoreOver(p) EXCEPT !.pane.pages = @ \cup {answer.at}, !.pane.next = FALSE,
                    !.pane.stamp = <<call.at, p.readings>>]

MoreStamped(p, call) == [MoreOver(p) EXCEPT !.pane.next = FALSE, !.pane.stamp = <<call.at, p.readings>>]

LEMMA MoreIsSame ==
  ASSUME NEW p, Fits(p), p.pane # None, NEW call, NEW answer, p.pane.pages = {answer.at}
  PROVE  MoreAdded(p, call, answer) = MoreStamped(p, call)
<1> DEFINE done == MoreOver(p)
           pane == done.pane
           stamp == <<call.at, p.readings>>
           full == [pane EXCEPT !.pages = @ \cup {answer.at}, !.next = FALSE, !.stamp = stamp]
           bare == [pane EXCEPT !.next = FALSE, !.stamp = stamp]
<1>1. DOMAIN p = Fields /\ PaneFits(p.pane) BY DEF Fits, Whole
<1>2. pane = [p.pane EXCEPT !.more = FALSE] /\ DOMAIN done = Fields BY Zenon, <1>1 DEF MoreOver, Fields
<1>3. /\ pane = [node |-> pane.node, stamp |-> pane.stamp, loading |-> pane.loading, pages |-> pane.pages,
                 next |-> pane.next, more |-> pane.more, failed |-> pane.failed]
      /\ pane.pages = {answer.at}
 <2>1. p.pane = [node |-> p.pane.node, stamp |-> p.pane.stamp, loading |-> p.pane.loading,
                 pages |-> p.pane.pages, next |-> p.pane.next, more |-> p.pane.more,
                 failed |-> p.pane.failed] BY <1>1 DEF PaneFits
 <2> HIDE DEF pane
 <2> QED BY <1>2, <2>1
<1>4. MoreAdded(p, call, answer) = [done EXCEPT !.pane = full] BY Zenon, <1>2 DEF MoreAdded
<1>5. MoreStamped(p, call) = [done EXCEPT !.pane = bare] BY Zenon, <1>2 DEF MoreStamped
<1> HIDE DEF done, pane, stamp
<1>6. [pane EXCEPT !.pages = pane.pages \cup {answer.at}] = pane
 <2>1. pane.pages \cup {answer.at} = pane.pages BY <1>3
 <2> HIDE DEF full, bare
 <2>2. [pane EXCEPT !.pages = pane.pages] = pane BY <1>3
 <2> QED BY Zenon, <2>1, <2>2
<1>7. full = bare BY Zenon, <1>6
<1> HIDE DEF full, bare
<1> QED BY Zenon, <1>4, <1>5, <1>7

(* Its three ways: another read, at once or later, or the rows of the same. *)
LEMMA MoreReplyForms ==
  ASSUME NEW p, Fits(p), NEW call, NEW answer
  PROVE  \/ MoreReply(p, call, answer) = p /\ (p.pane = None \/ call.id # p.sourceSequence)
         \/ /\ p.pane # None
            /\ \/ MoreReply(p, call, answer) = LoadSource(SourceDone(MoreOver(p), call), FALSE)
               \/ MoreReply(p, call, answer) = SourceDone(LoadSource(MoreOver(p), TRUE), call)
               \/ /\ call.at = p.data.at /\ p.pane.pages = {answer.at}
                  /\ MoreReply(p, call, answer) = LoadSource(SourceDone(MoreStamped(p, call), call), FALSE)
<1>1. p.pane # None /\ p.pane.pages = {answer.at} => MoreAdded(p, call, answer) = MoreStamped(p, call)
  BY Zenon, MoreIsSame
<1>2. MoreReply(p, call, answer) =
        IF call.id # p.sourceSequence \/ p.pane = None THEN p
        ELSE IF ~answer.ok THEN LoadSource(SourceDone(MoreOver(p), call), FALSE)
        ELSE IF call.at # p.data.at \/ p.pane.pages # {answer.at}
             THEN SourceDone(LoadSource(MoreOver(p), TRUE), call)
        ELSE LoadSource(SourceDone(MoreAdded(p, call, answer), call), FALSE)
  BY Zenon DEF MoreReply, MoreOver, MoreAdded
<1> QED BY Zenon, <1>1, <1>2

(* Its answer: more of the same publication, or a new read. *)
LEMMA MoreReplyStays ==
  ASSUME NEW p, Fits(p), NEW call, NEW answer
  PROVE  Stays(p, MoreReply(p, call, answer))
<1> DEFINE done == [p EXCEPT !.pane.more = FALSE]
           whole == [done EXCEPT !.pane.next = FALSE, !.pane.stamp = <<call.at, p.readings>>]
<1>1. \/ MoreReply(p, call, answer) = p
      \/ /\ p.pane # None
         /\ MoreReply(p, call, answer) \in
           {LoadSource(SourceDone(done, call), FALSE), SourceDone(LoadSource(done, TRUE), call),
            LoadSource(SourceDone(whole, call), FALSE)} BY Zenon, MoreReplyForms DEF MoreOver, MoreStamped
<1>2. ASSUME p.pane # None PROVE Stays(p, done) /\ Stays(p, whole)
 <2>1. Whole(done) /\ Same(p, done) /\ done.pane = [p.pane EXCEPT !.more = FALSE] /\ done.asks = p.asks
  BY Zenon DEF Fits, Fields, Whole, Same
 <2>2. PaneFits(done.pane) /\ done.pane = [node |-> done.pane.node, stamp |-> done.pane.stamp,
              loading |-> done.pane.loading, pages |-> done.pane.pages, next |-> done.pane.next,
              more |-> done.pane.more, failed |-> done.pane.failed] /\ done.pane.pages = p.pane.pages
  BY Zenon, <1>2, <2>1 DEF Fits, PaneFits
 <2> HIDE DEF done
 <2>3. Stays(p, done) BY <2>1, <2>2, SameStays DEF Fits, AsksFit
 <2>4. Whole(whole) /\ Same(p, whole) /\ whole.asks = p.asks
       /\ whole.pane = [done.pane EXCEPT !.next = FALSE, !.stamp = <<call.at, p.readings>>]
  BY Zenon, <2>1 DEF Fields, Whole, Same
 <2>5. PaneFits(whole.pane)
  <3> DEFINE stamp == <<call.at, p.readings>>
  <3>1. whole.pane = [done.pane EXCEPT !.next = FALSE, !.stamp = stamp] BY <2>4
  <3> HIDE DEF stamp, whole
  <3>2. \E at : done.pane.pages \subseteq {at} BY <1>2, <2>2 DEF Fits, PaneFits
  <3> QED BY Zenon, <2>2, <3>1, <3>2 DEF PaneFits
 <2> HIDE DEF whole
 <2> QED BY <2>3, <2>4, <2>5, SameStays DEF Fits, AsksFit
<1> HIDE DEF done, whole
<1>3. ASSUME NEW q, Stays(p, q)
      PROVE  Stays(p, LoadSource(SourceDone(q, call), FALSE)) /\ Stays(p, SourceDone(LoadSource(q, TRUE), call))
 <2> DEFINE over == SourceDone(q, call)
            again == LoadSource(q, TRUE)
 <2>1. Fits(q) => Stays(q, over) /\ Stays(q, again) BY Zenon, SourceDoneStays, LoadSourceStays
 <2>2. Stays(p, over) /\ Stays(p, again) BY Zenon, <1>3, <2>1, ThenStays
 <2>3. Fits(over) => Stays(over, LoadSource(over, FALSE)) BY Zenon, LoadSourceStays
 <2>4. Fits(again) => Stays(again, SourceDone(again, call)) BY Zenon, SourceDoneStays
 <2> HIDE DEF over, again
 <2>5. Stays(p, LoadSource(over, FALSE)) /\ Stays(p, SourceDone(again, call)) BY Zenon, <2>2, <2>3, <2>4, ThenStays
 <2> QED BY Zenon, <2>5 DEF over, again
<1> QED BY Zenon, <1>1, <1>2, <1>3, Nothing

-----------------------------------------------------------------------------

(* The detail dialog                                                       *)

(* A panel whose dialog is drawn again or closed. *)
LEMMA BesideStays ==
  ASSUME NEW p, Fits(p), NEW q, Beside(p, q), q.body # None => q.detail # None /\ q.body.n = q.detail.n,
         ResponseFits(q), Saved(q) \subseteq Saved(p)
  PROVE  Stays(p, q)
<1>1. DetailFits(q) BY DEF Beside, Fits, DetailFits
<1>2. ReportFits(q) BY DEF Beside, Fits, ReportFits
<1>3. ToolFits(q) BY DEF Beside, Fits, ToolFits
<1>4. PaneFits(q.pane) /\ AsksFit(q) BY DEF Beside, Fits, AsksFit
<1>5. Fits(q) BY <1>1, <1>2, <1>3, <1>4 DEF Fits, Beside, Whole
<1>6. p.selections <= q.selections BY DEF Beside, Fits, ToolFits
<1> QED BY <1>5, <1>6 DEF Stays, Follow, Beside

(* What the dialog of a device claims is in its response. *)
LEMMA SameSaved == \A p, q : q.response = p.response => Saved(q) = Saved(p)
BY Zenon, Zenon DEF Saved

(* A dialog that closes takes what it shows with it. *)
LEMMA ShutStays ==
  ASSUME NEW p, Fits(p)
  PROVE  Stays(p, Shut(p)) /\ Shut(p).detail = None /\ Shut(p).tool = p.tool
<1> DEFINE q == Shut(p)
<1>1. Beside(p, q) /\ q.body = None /\ q.response = p.response /\ q.detail = None /\ q.tool = p.tool
 BY ZenonT(40) DEF Shut, Fits, Fields, Whole, Beside
<1> HIDE DEF q
<1>2. ResponseFits(q) BY <1>1 DEF Fits, ResponseFits
<1>3. Saved(q) \subseteq Saved(p) BY <1>1, SameSaved
<1>4. Stays(p, q) BY <1>1, <1>2, <1>3, BesideStays
<1> QED BY <1>1, <1>4 DEF q

(* showHistory closes the dialog. *)
LEMMA ShowHistoryStays ==
  ASSUME NEW p, Fits(p)
  PROVE  Stays(p, ShowHistory(p))
<1> DEFINE q == ShowHistory(p)
<1>1. Beside(p, q) /\ q.body = None /\ q.response = p.response
 BY ZenonT(40) DEF ShowHistory, Shut, Fits, Fields, Whole, Beside
<1> HIDE DEF q
<1>2. ResponseFits(q) BY <1>1 DEF Fits, ResponseFits
<1>3. Saved(q) \subseteq Saved(p) BY <1>1, SameSaved
<1>4. Stays(p, q) BY <1>1, <1>2, <1>3, BesideStays
<1> QED BY <1>4 DEF q

(* The issues of the device on display are open ones. *)
LEMMA RelatedFacts ==
  ASSUME NEW p, Fits(p)
  PROVE  /\ Related(p) \subseteq Episodes
         /\ Related(p) # {} => p.detail # None /\ Related(p) = p.data.open
BY DEF Related, Fits, DetailFits

(* The response to the device on display. *)
LEMMA ResponseStays ==
  ASSUME NEW p, Fits(p)
  PROVE  /\ Response(p) = [n |-> Response(p).n, chosen |-> Response(p).chosen, busy |-> Response(p).busy,
                           form |-> Response(p).form, saved |-> Response(p).saved]
         /\ Response(p).form # None => Response(p).form \subseteq Episodes
         /\ Response(p).saved = Saved(p)
BY Zenon DEF Response, Fits, ResponseFits, Saved

(* The dialog shows its own selection. *)
LEMMA ShowStays ==
  ASSUME NEW p, Fits(p), p.detail # None, NEW what, NEW at
  PROVE  /\ Stays(p, Show(p, p.detail.n, what, at))
         /\ Show(p, p.detail.n, what, at).asks = p.asks
         /\ Show(p, p.detail.n, what, at).detail = p.detail
<1> DEFINE device == p.detail.kind = "device" /\ what = "evidence"
           r == IF device THEN Response(p) ELSE p.response
           c == IF device THEN at ELSE p.context
           u == IF what = "error" THEN at ELSE p.unread
           q == [p EXCEPT !.response = r, !.context = c, !.unread = u]
           body == [n |-> p.detail.n, what |-> what, at |-> at, rows |-> Related(p),
                    chosen |-> IF device THEN q.response.chosen ELSE {}]
           s == [q EXCEPT !.body = body]
<1>1. Show(p, p.detail.n, what, at) = s BY DEF Show
<1>2. body.n = p.detail.n OBVIOUS
<1>3. r = p.response \/ r = Response(p) OBVIOUS
<1> HIDE DEF body, r, c, u
<1>4. Beside(p, s) /\ s.body = body /\ s.detail = p.detail /\ s.response = r
 BY ZenonT(40) DEF Fits, Fields, Whole, Beside
<1> HIDE DEF s
<1>5. ResponseFits(s) /\ Saved(s) \subseteq Saved(p)
 BY <1>4, SameSaved, ResponseStays, <1>3 DEF Fits, ResponseFits, Saved
<1>6. Stays(p, s) BY <1>2, <1>4, <1>5, BesideStays
<1> QED BY <1>1, <1>4, <1>6 DEF Beside

(* readDetail: a request, or what the evidence settles. *)
LEMMA ReadSelectionStays ==
  ASSUME NEW p, Fits(p), p.detail # None
  PROVE  Stays(p, ReadSelection(p))
<1> DEFINE call(step) == [slot |-> "detail", id |-> p.detailSequence, n |-> p.detail.n,
                          conn |-> p.conn, step |-> step, at |-> p.data.at]
<1>1. ReadSelection(p) \in {Ask(p, call("context")), Ask(p, call("node")), ShowHistory(p),
                            Show(p, p.detail.n, "ended", p.data.at)} BY DEF ReadSelection
<1>2. ReadFits(call("context")) /\ ReadFits(call("node")) BY DEF ReadFits
<1> HIDE DEF call
<1>3. Stays(p, Ask(p, call("context"))) /\ Stays(p, Ask(p, call("node"))) BY <1>2, AskStays
<1>4. Stays(p, ShowHistory(p)) /\ Stays(p, Show(p, p.detail.n, "ended", p.data.at))
 BY ShowHistoryStays, ShowStays
<1> QED BY <1>1, <1>3, <1>4

(* readDetail: what is shown of an earlier evidence may go. *)
LEMMA ReadDetailStays ==
  ASSUME NEW p, Fits(p)
  PROVE  Stays(p, ReadDetail(p))
<1> DEFINE q == [p EXCEPT !.detailSequence = @ + 1]
           r == [q EXCEPT !.body = None]
           s == [q EXCEPT !.body = q.body]
<1>1. \/ ReadDetail(p) \in {q, r, s}
      \/ p.detail # None /\ ReadDetail(p) = ReadSelection(q) BY Zenon DEF ReadDetail
<1>2. Beside(p, q) /\ q.body = p.body /\ q.response = p.response /\ q.detail = p.detail
 BY DEF Fits, Fields, Whole, Beside
<1>3. Beside(p, r) /\ r.body = None /\ r.response = p.response BY Zenon DEF Fits, Fields, Whole, Beside
<1>4. Beside(p, s) /\ s.body = p.body /\ s.response = p.response /\ s.detail = p.detail
 BY Zenon DEF Fits, Fields, Whole, Beside
<1> HIDE DEF q, r, s
<1>5. ASSUME NEW t, t.response = p.response PROVE ResponseFits(t) /\ Saved(t) \subseteq Saved(p)
 BY <1>5, SameSaved DEF Fits, ResponseFits
<1>6. p.body # None => p.detail # None /\ p.body.n = p.detail.n BY DEF Fits, DetailFits
<1>7. Stays(p, q) BY <1>2, <1>5, <1>6, BesideStays
<1>8. Stays(p, r) BY <1>3, <1>5, <1>6, BesideStays
<1>9. Stays(p, s) BY <1>4, <1>5, <1>6, BesideStays
<1>10. p.detail # None => Stays(p, ReadSelection(q)) BY <1>2, ReadSelectionStays, <1>7, ThenStays
<1> QED BY <1>1, <1>7, <1>8, <1>9, <1>10

(* loadDetail: one request, a later one remembered. *)
LEMMA LoadDetailStays ==
  ASSUME NEW p, Fits(p)
  PROVE  Stays(p, LoadDetail(p))
<1> DEFINE flag == p.detailRefreshPending \/ p.detailRequest.n # p.detail.n \/ p.detailRequest.at # p.data.at
           q == [p EXCEPT !.detailRefreshPending = flag]
           s == ReadDetail(p)
           request == [id |-> s.detailSequence, n |-> p.detail.n, at |-> p.data.at]
           t == [s EXCEPT !.detailRequest = request]
<1>1. LoadDetail(p) \in {s, q, t} BY DEF LoadDetail
<1> HIDE DEF flag, request
<1>2. Whole(q) /\ Same(p, q) /\ q.pane = p.pane /\ q.asks = p.asks BY DEF Fits, Fields, Whole, Same
<1> HIDE DEF q
<1>3. Stays(p, q) BY <1>2, SameStays DEF Fits, AsksFit
<1>4. Stays(p, s) BY ReadDetailStays
<1> HIDE DEF s
<1>5. Fits(s) BY <1>4 DEF Stays, Follow
<1>6. Whole(t) /\ Same(s, t) /\ t.pane = s.pane /\ t.asks = s.asks BY <1>5 DEF Fits, Fields, Whole, Same
<1> HIDE DEF t
<1>7. Fits(s) => Stays(s, t) BY <1>6, SameStays DEF Fits, AsksFit
<1>8. Stays(p, t) BY <1>4, <1>7, ThenStays
<1> QED BY <1>1, <1>3, <1>4, <1>8

(* Its finally block, with the refresh that waited. *)
LEMMA DetailDoneStays ==
  ASSUME NEW p, Fits(p), NEW call
  PROVE  Stays(p, DetailDone(p, call))
<1> DEFINE q == [p EXCEPT !.detailRequest = None, !.detailRefreshPending = FALSE]
<1>1. DetailDone(p, call) \in {p, q, LoadDetail(q)} BY DEF DetailDone
<1>2. Whole(q) /\ Same(p, q) /\ q.pane = p.pane /\ q.asks = p.asks BY Zenon DEF Fits, Fields, Whole, Same
<1> HIDE DEF q
<1>3. Stays(p, q) BY <1>2, SameStays DEF Fits, AsksFit
<1>4. Fits(q) => Stays(q, LoadDetail(q)) BY LoadDetailStays
<1>5. Stays(p, LoadDetail(q)) BY <1>3, <1>4, ThenStays
<1> QED BY <1>1, <1>3, <1>5, Nothing

(* Each answer of its chain. *)
LEMMA DetailReplyStays ==
  ASSUME NEW p, Fits(p), NEW call, ReadFits(call), call.slot = "detail", NEW answer
  PROVE  Stays(p, DetailReply(p, call, answer))
<1> DEFINE next(step) == [call EXCEPT !.step = step, !.at = answer.at]
           at == IF call.step = "node" THEN answer.at ELSE call.at
           failed == Show(p, call.n, "error", p.data.at)
           read == Show(p, call.n, "evidence", at)
<1>1. \/ DetailReply(p, call, answer) = DetailDone(p, call)
      \/ /\ p.detail # None /\ p.detail.n = call.n
         /\ DetailReply(p, call, answer) \in
              {DetailDone(failed, call), DetailDone(read, call), Ask(p, next("coverage")), Ask(p, next("page"))}
 BY DEF DetailReply, DetailCurrent
<1>2. ReadFits(next("coverage")) /\ ReadFits(next("page"))
 <2>1. call.slot = "detail" /\ DOMAIN call = {"slot", "id", "n", "conn", "step", "at"} BY DEF ReadFits
 <2>2. \A step : /\ DOMAIN next(step) = {"slot", "id", "n", "conn", "step", "at"}
                 /\ next(step).slot = "detail" BY <2>1
 <2> HIDE DEF next
 <2> QED BY <2>2 DEF ReadFits
<1> HIDE DEF next, at
<1>3. Stays(p, Ask(p, next("coverage"))) /\ Stays(p, Ask(p, next("page"))) BY <1>2, AskStays
<1>4. ASSUME NEW q, Stays(p, q) PROVE Stays(p, DetailDone(q, call)) BY DetailDoneStays, <1>4, ThenStays
<1>5. p.detail # None /\ p.detail.n = call.n => Stays(p, failed) /\ Stays(p, read) BY ShowStays
<1> HIDE DEF failed, read
<1>6. Stays(p, p) BY Nothing
<1> QED BY <1>1, <1>3, <1>4, <1>5, <1>6

(* What opens nothing is the lesser of two. *)
LEMMA StaysOpens == \A p, q : Stays(p, q) => Opens(p, q)
BY DEF Stays, Opens

(* A next step, from a panel that fits. *)
LEMMA ThenOpens ==
  ASSUME NEW p, Fits(p), NEW q, NEW r, Opens(p, q), Fits(q) => Opens(q, r)
  PROVE  Opens(p, r)
BY Onward DEF Opens, Follow

(* openDetail: a selection of its own, nothing shown of another. *)
LEMMA OpenDetailOpens ==
  ASSUME NEW p, Fits(p), NEW kind, NEW id, p.tool = None,
         kind = "episode" => p.reportEpisode = None
  PROVE  Opens(p, OpenDetail(p, kind, id))
<1> DEFINE detail == [kind |-> kind, id |-> id, n |-> p.selections + 1]
           q == [p EXCEPT !.detail = detail, !.selections = @ + 1, !.body = None, !.response = None,
                          !.context = None]
<1>1. OpenDetail(p, kind, id) = LoadDetail(q) BY DEF OpenDetail
<1>2. detail = [kind |-> detail.kind, id |-> detail.id, n |-> detail.n] /\ detail.kind = kind OBVIOUS
<1> HIDE DEF detail
<1>3. /\ Whole(q) /\ q.detail = detail /\ q.selections = p.selections + 1 /\ q.body = None
      /\ q.response = None /\ q.status = p.status /\ q.pending = p.pending /\ q.data = p.data
      /\ q.report = p.report /\ q.reportStatus = p.reportStatus /\ q.members = p.members
      /\ q.reportEpisode = p.reportEpisode /\ q.tool = None /\ q.pane = p.pane /\ q.asks = p.asks
 BY ZenonT(40) DEF Fits, Fields, Whole
<1> HIDE DEF q
<1>4. DetailFits(q) /\ ResponseFits(q) /\ Saved(q) = {} BY <1>2, <1>3 DEF Fits, DetailFits, ResponseFits, Saved
<1>5. ReportFits(q) BY <1>2, <1>3 DEF Fits, ReportFits
<1>6. ToolFits(q) /\ p.selections <= q.selections BY <1>3 DEF Fits, ToolFits
<1>7. PaneFits(q.pane) /\ AsksFit(q) BY <1>3 DEF Fits, AsksFit
<1>8. Fits(q) BY <1>3, <1>4, <1>5, <1>6, <1>7 DEF Fits, Whole
<1>9. Opens(p, q) BY <1>3, <1>4, <1>6, <1>8 DEF Opens, Follow
<1>10. Opens(q, LoadDetail(q)) BY <1>8, LoadDetailStays, StaysOpens
<1>11. Opens(p, LoadDetail(q)) BY <1>9, <1>10, ThenOpens
<1> QED BY <1>1, <1>11

-----------------------------------------------------------------------------

(* The report                                                              *)

(* A panel whose report alone changes. *)
LEMMA ReportsOpens ==
  ASSUME NEW p, Fits(p), NEW q, Reports(p, q), AsksFit(q), ReportFits(q),
         q.reportEpisode \in {p.reportEpisode, None}
  PROVE  Opens(p, q)
BY SameSaved DEF Reports, Fits, DetailFits, ResponseFits, ToolFits, Whole, Opens, Follow

(* loadNotificationReport: the members start from none. *)
LEMMA LoadReportOpens ==
  ASSUME NEW p, Fits(p)
  PROVE  Opens(p, LoadReport(p)) /\ LoadReport(p).detail = p.detail /\ LoadReport(p).tool = p.tool
         /\ LoadReport(p).reportEpisode = p.reportEpisode
<1> DEFINE q == [p EXCEPT !.reportSequence = @ + 1, !.reportRequest = p.reportSequence + 1,
                          !.reportStatus = "loading"]
           call == [slot |-> "report", id |-> p.reportSequence + 1, got |-> <<>>]
<1>1. LoadReport(p) = p \/ LoadReport(p) = Ask(q, call) BY DEF LoadReport
<1>2. ReadFits(call)
 <2>1. call.slot = "report" /\ call.got = <<>> /\ call = [slot |-> "report", id |-> call.id, got |-> call.got]
  OBVIOUS
 <2>2. <<>> \in Seq(Episodes) /\ Len(<<>>) = 0 /\ DOMAIN <<>> = {} OBVIOUS
 <2>3. 0 < Len(Members) BY PanelAssumption
 <2> HIDE DEF call
 <2> QED BY <2>1, <2>2, <2>3 DEF ReadFits
<1> HIDE DEF call
<1>3. /\ Reports(p, q) /\ q.asks = p.asks /\ q.report = p.report /\ q.members = p.members
      /\ q.reportEpisode = p.reportEpisode /\ q.reportStatus = "loading"
       BY ZenonT(40) DEF Fits, Fields, Whole, Reports
<1> HIDE DEF q
<1>4. ReportFits(q) /\ AsksFit(q) BY Zenon, <1>3 DEF Fits, ReportFits, AsksFit, Reports
<1>5. Opens(p, q) BY <1>3, <1>4, ReportsOpens
<1>6. Fits(q) => Stays(q, Ask(q, call)) BY <1>2, AskStays
<1>7. Opens(p, Ask(q, call)) BY <1>5, <1>6, StaysOpens, ThenOpens
<1>8. Fits(q) BY <1>5 DEF Opens, Follow
<1>9. /\ Ask(q, call).detail = p.detail /\ Ask(q, call).tool = p.tool
      /\ Ask(q, call).reportEpisode = p.reportEpisode BY <1>3, <1>8 DEF Ask, Fits, Fields, Reports
<1>10. Opens(p, p) BY Nothing, StaysOpens
<1> QED BY <1>1, <1>7, <1>9, <1>10

(* A report that is read again has no members until then. *)
LEMMA InvalidateReportOpens ==
  ASSUME NEW p, Fits(p)
  PROVE  /\ Opens(p, InvalidateReport(p)) /\ InvalidateReport(p).detail = p.detail
         /\ InvalidateReport(p).tool = p.tool /\ InvalidateReport(p).reportEpisode = p.reportEpisode
         /\ InvalidateReport(p).asks = p.asks
<1> DEFINE q == InvalidateReport(p)
<1>1. /\ Reports(p, q) /\ q.asks = p.asks /\ q.report = p.report
      /\ q.members = IF p.report = None THEN p.members ELSE {}
      /\ q.reportStatus = IF p.report = None THEN p.reportStatus ELSE "loading"
      /\ q.reportEpisode = p.reportEpisode BY ZenonT(40) DEF InvalidateReport, Fits, Fields, Whole, Reports
<1> HIDE DEF q
<1>2. ReportFits(q) /\ AsksFit(q) BY <1>1, PanelAssumption DEF Fits, ReportFits, AsksFit, Reports
<1>3. Opens(p, q) BY <1>1, <1>2, ReportsOpens
<1> QED BY <1>1, <1>3 DEF q, Reports

(* Without a report its members restrict nothing. *)
LEMMA ClearReportOpens ==
  ASSUME NEW p, Fits(p)
  PROVE  /\ Opens(p, ClearReport(p)) /\ ClearReport(p).detail = p.detail
         /\ ClearReport(p).tool = p.tool /\ ClearReport(p).reportEpisode = None
         /\ ClearReport(p).report = None
<1> DEFINE r == InvalidateReport(p)
           q == [r EXCEPT !.report = None, !.reportStatus = None, !.members = None,
                          !.reportEpisode = None]
<1>1. ClearReport(p) = q BY DEF ClearReport
<1>2. Opens(p, r) /\ r.detail = p.detail /\ r.tool = p.tool BY InvalidateReportOpens
<1>3. Fits(r) BY <1>2 DEF Opens, Follow
<1> HIDE DEF r
<1>4. Reports(r, q) /\ q.asks = r.asks /\ q.report = None /\ q.reportStatus = None /\ q.reportEpisode = None
      /\ q.members = None BY ZenonT(40), <1>3 DEF Fits, Fields, Whole, Reports
<1> HIDE DEF q
<1>5. ReportFits(q) /\ AsksFit(q) BY <1>3, <1>4, PanelAssumption DEF Fits, ReportFits, AsksFit
<1>6. Opens(r, q) BY <1>3, <1>4, <1>5, ReportsOpens
<1>7. Opens(p, q) BY <1>2, <1>6, ThenOpens
<1> QED BY <1>1, <1>2, <1>4, <1>7 DEF Reports

(* The members read so far and the next one. *)
LEMMA AllMembers ==
  ASSUME NEW got \in Seq(Episodes), Len(got) < Len(Members),
         \A i \in DOMAIN got : got[i] = Members[i],
         NEW more, more = Append(got, Members[Len(got) + 1])
  PROVE  /\ more \in Seq(Episodes)
         /\ \A i \in DOMAIN more : more[i] = Members[i]
         /\ Range(more) \subseteq Episodes
         /\ ~(Len(more) < Len(Members)) => Range(more) = Range(Members)
<1>1. Members \in Seq(Episodes) /\ Len(Members) \in Nat /\ DOMAIN Members = 1..Len(Members) BY PanelAssumption
<1>2. Len(got) \in Nat /\ DOMAIN got = 1..Len(got) /\ Len(got) + 1 \in DOMAIN Members BY <1>1
<1>3. Members[Len(got) + 1] \in Episodes BY <1>1, <1>2
<1>4. /\ more \in Seq(Episodes) /\ Len(more) = Len(got) + 1 /\ DOMAIN more = 1..(Len(got) + 1)
      /\ more[Len(got) + 1] = Members[Len(got) + 1] /\ \A i \in 1..Len(got) : more[i] = got[i] BY <1>2, <1>3
<1>5. \A i \in DOMAIN more : more[i] = Members[i] BY <1>2, <1>4
<1>6. Range(more) \subseteq Episodes BY <1>4 DEF Range
<1>7. ASSUME ~(Len(more) < Len(Members)) PROVE Range(more) = Range(Members)
 <2>1. Len(got) + 1 = Len(Members)
  <3>1. \A a, b \in Nat : a < b /\ ~(a + 1 < b) => a + 1 = b OBVIOUS
  <3>2. ~(Len(got) + 1 < Len(Members)) BY Zenon, <1>4, <1>7, Zenon
  <3> QED BY Zenon, <1>1, <1>2, <3>1, <3>2
 <2>2. DOMAIN more = DOMAIN Members BY Zenon, <1>1, <1>4, <2>1
 <2> QED BY <1>5, <2>2 DEF Range
<1> QED BY <1>4, <1>5, <1>6, <1>7

(* Its answer: the next member, or all of them at once. *)
LEMMA ReportReplyOpens ==
  ASSUME NEW p, Fits(p), NEW call, ReadFits(call), call.slot = "report", NEW answer
  PROVE  Opens(p, ReportReply(p, call, answer))
<1> DEFINE status == IF answer.ok THEN "expired" ELSE "error"
           failed == [p EXCEPT !.reportRequest = None, !.reportStatus = status]
           got == Append(call.got, Members[Len(call.got) + 1])
           next == [call EXCEPT !.got = got]
           q == [p EXCEPT !.reportRequest = None, !.members = Range(got),
                          !.reportStatus = "available", !.reportEpisode = None]
<1>1. \/ ReportReply(p, call, answer) \in {p, failed}
      \/ Len(got) < Len(Members) /\ ReportReply(p, call, answer) = Ask(p, next)
      \/ /\ ~(Len(got) < Len(Members)) /\ p.report # None
         /\ \/ ReportReply(p, call, answer) = q
            \/ /\ p.reportEpisode \in Range(got)
               /\ ReportReply(p, call, answer) = OpenDetail(q, "episode", p.reportEpisode) BY DEF ReportReply
<1>2. /\ call = [slot |-> "report", id |-> call.id, got |-> call.got]
      /\ call.got \in Seq(Episodes) /\ Len(call.got) < Len(Members)
      /\ \A i \in DOMAIN call.got : call.got[i] = Members[i] BY DEF ReadFits
<1>3. /\ got \in Seq(Episodes) /\ Range(got) \subseteq Episodes
      /\ \A i \in DOMAIN got : got[i] = Members[i]
      /\ ~(Len(got) < Len(Members)) => Range(got) = Range(Members)
 <2> HIDE DEF got
 <2>1. got = Append(call.got, Members[Len(call.got) + 1]) BY DEF got
 <2> QED BY Zenon, <1>2, <2>1, AllMembers
<1> HIDE DEF got
<1>4. Len(got) < Len(Members) => Stays(p, Ask(p, next)) BY <1>2, <1>3, AskStays DEF ReadFits
<1>5. Opens(p, failed)
 <2>1. status # "available" OBVIOUS
 <2> HIDE DEF status
 <2>2. /\ Reports(p, failed) /\ failed.asks = p.asks /\ failed.report = p.report
       /\ failed.members = p.members /\ failed.reportEpisode = p.reportEpisode
       /\ failed.reportStatus = status BY Zenon DEF Fits, Fields, Whole, Reports
 <2> HIDE DEF failed
 <2>3. ReportFits(failed) /\ AsksFit(failed) BY Zenon, <2>1, <2>2 DEF Fits, ReportFits, AsksFit, Reports
 <2> QED BY <2>2, <2>3, ReportsOpens
<1>6. ASSUME ~(Len(got) < Len(Members)), p.report # None
      PROVE  Opens(p, q) /\ q.reportEpisode = None /\ q.tool = p.tool
 <2>1. /\ Reports(p, q) /\ q.asks = p.asks /\ q.report = p.report
       /\ q.members = Range(got) /\ q.reportEpisode = None
       /\ q.reportStatus = "available" BY ZenonT(40) DEF Fits, Fields, Whole, Reports
 <2> HIDE DEF q
 <2>2. Range(got) # None BY <1>3, PanelAssumption
 <2>3. ReportFits(q) /\ AsksFit(q) BY <1>3, <1>6, <2>1, <2>2 DEF Fits, ReportFits, AsksFit
 <2> QED BY <2>1, <2>3, ReportsOpens DEF Reports
<1>7. ASSUME ~(Len(got) < Len(Members)), p.report # None, p.reportEpisode \in Range(got)
      PROVE  Opens(p, OpenDetail(q, "episode", p.reportEpisode))
 <2>1. p.reportEpisode # None BY <1>3, <1>7, PanelAssumption
 <2>2. p.tool = None BY <2>1 DEF Fits, ToolFits
 <2>3. Opens(p, q) /\ q.reportEpisode = None /\ q.tool = None BY <1>6, <1>7, <2>2
 <2> HIDE DEF q
 <2>4. Fits(q) => Opens(q, OpenDetail(q, "episode", p.reportEpisode)) BY <2>3, OpenDetailOpens
 <2> QED BY <2>3, <2>4, ThenOpens
<1> HIDE DEF q, failed, next
<1>8. Opens(p, p) BY Nothing, StaysOpens
<1> QED BY <1>1, <1>4, <1>5, <1>6, <1>7, <1>8, StaysOpens

-----------------------------------------------------------------------------

(* The stream                                                              *)

(* loadSource at the end of another step. *)
LEMMA LoadSourceOpens ==
  ASSUME NEW p, NEW q, Fits(p), Opens(p, q), NEW force
  PROVE  Opens(p, LoadSource(q, force))
BY LoadSourceStays, StaysOpens, ThenOpens

(* What is read when the evidence stops being current. *)
LEMMA InvalidateReadsOpens ==
  ASSUME NEW p, Fits(p)
  PROVE  Opens(p, InvalidateReads(p)) /\ InvalidateReads(p).asks = p.asks
<1> DEFINE r == InvalidateReport(p)
           pane == IF r.pane = None THEN r.pane
                   ELSE [r.pane EXCEPT !.stamp = <<>>, !.loading = FALSE, !.more = FALSE]
           q == [r EXCEPT !.sourceSequence = @ + 1, !.sourceRequest = None,
                          !.sourceRefreshPending = FALSE, !.pane = pane,
                          !.detailSequence = @ + 1, !.detailRequest = None,
                          !.detailRefreshPending = FALSE]
<1>1. InvalidateReads(p) = q BY DEF InvalidateReads
<1>2. Opens(p, r) /\ r.asks = p.asks BY InvalidateReportOpens
<1>3. Fits(r) BY <1>2 DEF Opens, Follow
<1> HIDE DEF r
<1>4. PaneFits(pane) BY Zenon, <1>3 DEF Fits, PaneFits
<1> HIDE DEF pane
<1>5. Whole(q) /\ Same(r, q) /\ q.pane = pane /\ q.asks = r.asks BY ZenonT(40), <1>3 DEF Fits, Fields, Whole, Same
<1> HIDE DEF q
<1>6. Stays(r, q) BY <1>3, <1>4, <1>5, SameStays DEF Fits, AsksFit
<1>7. Opens(p, q) BY <1>2, <1>6, StaysOpens, ThenOpens
<1> QED BY <1>1, <1>2, <1>5, <1>7

(* The listener of the store: invalidate, tell, read the report, open what *)
(* waits or the dialog again, and the source.                              *)
LEMMA ListenerFollows ==
  ASSUME NEW p, Fits(p), Awaits(p), NEW status, NEW data,
         status = "current" => data.open \subseteq Episodes
  PROVE  Follow(p, Listener(p, status, data)) /\ Awaits(Listener(p, status, data))
<1> DEFINE left == IF status # "current" /\ Current(p) THEN InvalidateReads(p) ELSE p
           known == IF status = "current" THEN data ELSE left.data
           told == [left EXCEPT !.status = status, !.data = known]
           q == LoadReport(told)
           free == [q EXCEPT !.pending = None]
           opened == IF status = "current" /\ q.pending # None
                     THEN OpenDetail(free, q.pending.kind, q.pending.id)
                     ELSE IF q.detail # None THEN LoadDetail(q) ELSE q
<1>1. Listener(p, status, data) = LoadSource(opened, FALSE) BY DEF Listener
<1>2. Opens(p, left) BY InvalidateReadsOpens, Nothing, StaysOpens
<1>3. Fits(left) BY <1>2 DEF Opens, Follow
<1> HIDE DEF left
<1>4. known # None => known.open \subseteq Episodes BY <1>3 DEF Fits, DetailFits
<1> HIDE DEF known
<1>5. /\ Whole(told) /\ told.page = left.page /\ told.status = status /\ told.data = known
      /\ told.detail = left.detail /\ told.selections = left.selections /\ told.body = left.body
      /\ told.report = left.report /\ told.reportStatus = left.reportStatus /\ told.members = left.members
      /\ told.reportEpisode = left.reportEpisode /\ told.pending = left.pending /\ told.tool = left.tool
      /\ told.response = left.response /\ told.pane = left.pane /\ told.asks = left.asks
 BY Zenon, <1>3 DEF Fits, Fields, Whole
<1> HIDE DEF told
<1>6. Fits(told)
 BY Zenon, <1>3, <1>4, <1>5 DEF Fits, DetailFits, ResponseFits, AsksFit, ReportFits, ToolFits, Whole
<1>7. Follow(left, told) BY <1>5, SameSaved, <1>3, <1>6 DEF Fits, ToolFits, Follow
<1>8. Follow(p, told) BY <1>2, <1>7, Onward DEF Opens
<1>9. Opens(told, q) BY <1>6, LoadReportOpens
<1>10. Fits(q) /\ q.status = status /\ q.pending = p.pending BY <1>2, <1>5, <1>9 DEF Opens, Follow
<1>11. Follow(p, q) BY <1>8, <1>9, Onward DEF Opens
<1> HIDE DEF q
<1>12. ASSUME status = "current", q.pending # None
       PROVE  /\ Follow(q, OpenDetail(free, q.pending.kind, q.pending.id))
              /\ OpenDetail(free, q.pending.kind, q.pending.id).pending = None
 <2>1. q.tool = None /\ q.reportEpisode = None BY <1>10, <1>12 DEF Fits, ToolFits, ReportFits
 <2>2. /\ Whole(free) /\ free.page = q.page /\ free.status = q.status /\ free.data = q.data
       /\ free.detail = q.detail /\ free.selections = q.selections /\ free.body = q.body
       /\ free.report = q.report /\ free.reportStatus = q.reportStatus /\ free.members = q.members
       /\ free.reportEpisode = q.reportEpisode /\ free.pending = None /\ free.tool = q.tool
       /\ free.response = q.response /\ free.pane = q.pane /\ free.asks = q.asks
  BY <1>10 DEF Fits, Fields, Whole
 <2> HIDE DEF free
 <2>3. Fits(free)
  BY Zenon, <1>10, <2>2, <2>1 DEF Fits, DetailFits, ResponseFits, AsksFit, ReportFits, ToolFits, Whole
 <2>4. Follow(q, free) BY <2>2, SameSaved, <1>10, <2>3 DEF Fits, ToolFits, Follow
 <2>5. Opens(free, OpenDetail(free, q.pending.kind, q.pending.id)) BY <2>1, <2>2, <2>3, OpenDetailOpens
 <2>6. Follow(q, OpenDetail(free, q.pending.kind, q.pending.id)) BY <1>10, <2>4, <2>5, Onward DEF Opens
 <2> QED BY <2>2, <2>5, <2>6 DEF Opens
<1>13. Opens(q, q) /\ Opens(q, LoadDetail(q)) BY <1>10, Nothing, LoadDetailStays, StaysOpens
<1> HIDE DEF free
<1>14. /\ Follow(q, opened)
       /\ opened.status = status \/ opened.pending = None
       /\ status = "current" => opened.pending = None BY <1>12, <1>10, <1>13 DEF Opens
<1>15. Follow(p, opened) /\ Fits(opened) BY <1>11, <1>14, Onward DEF Follow
<1> HIDE DEF opened
<1>16. Opens(opened, LoadSource(opened, FALSE)) BY Zenon, <1>15, LoadSourceStays, StaysOpens
<1>17. Follow(p, LoadSource(opened, FALSE)) BY Zenon, <1>15, <1>16, Onward DEF Opens
<1>18. Awaits(LoadSource(opened, FALSE)) BY Zenon, <1>14, <1>16 DEF Awaits, Opens, Current
<1> QED BY Zenon, <1>1, <1>17, <1>18

(* release, before the panel listens to another store. *)
LEMMA ReleaseFollows ==
  ASSUME NEW p, Fits(p), NEW conn
  PROVE  LET q == [Release(p) EXCEPT !.conn = conn]
         IN Follow(p, q) /\ Awaits(q) /\ q.asks = p.asks
<1> DEFINE r == Shut(p)
           q == [Release(p) EXCEPT !.conn = conn]
<1>1. Stays(p, r) /\ r.detail = None BY ShutStays
<1>2. Fits(r) /\ r.body = None /\ r.asks = p.asks
 <2>1. r.body = None /\ r.asks = p.asks BY DEF Shut, Fits, Fields
 <2> HIDE DEF r
 <2> QED BY <1>1, <2>1 DEF Stays, Follow
<1>3. q = [[r EXCEPT
     !.sourceSequence = @ + 1, !.pane = None, !.sourceRequest = None,
     !.sourceRefreshPending = FALSE, !.detailRequest = None, !.detailRefreshPending = FALSE,
     !.tool = None, !.status = "loading", !.data = None] EXCEPT !.conn = conn] BY DEF Release
<1> HIDE DEF r, q
<1>4. /\ Whole(q) /\ q.detail = r.detail /\ q.selections = r.selections /\ q.body = r.body
      /\ q.report = r.report /\ q.reportStatus = r.reportStatus /\ q.members = r.members
      /\ q.reportEpisode = r.reportEpisode /\ q.pending = r.pending
      /\ q.tool = None /\ q.response = r.response /\ q.pane = None /\ q.asks = r.asks
      /\ q.status = "loading" /\ q.data = None BY ZenonT(40), <1>2, <1>3 DEF Fits, Fields, Whole
<1>5. DetailFits(q) /\ ResponseFits(q) /\ AsksFit(q) /\ PaneFits(q.pane)
 BY Zenon, <1>1, <1>2, <1>4 DEF Fits, DetailFits, ResponseFits, AsksFit, PaneFits
<1>6. ReportFits(q) /\ ToolFits(q) /\ r.selections <= q.selections
 BY <1>1, <1>2, <1>4 DEF Fits, ReportFits, ToolFits
<1>7. Saved(q) = Saved(r) BY <1>4, SameSaved
<1>8. Fits(q) BY <1>4, <1>5, <1>6 DEF Fits, Whole
<1>9. Follow(r, q) BY <1>4, <1>6, <1>7, <1>8 DEF Follow
<1>10. Follow(p, q) BY <1>1, <1>9, Onward DEF Stays
<1>11. Awaits(q) BY <1>4 DEF Awaits, Current
<1> QED BY <1>2, <1>4, <1>10, <1>11 DEF q

(* The page is left: what stood open is closed. *)
LEMMA GoesFollows ==
  ASSUME NEW p, Fits(p), NEW page
  PROVE  /\ Opens(p, Goes(p, page)) /\ Goes(p, page).tool = p.tool
         /\ Goes(p, page).detail = None /\ Goes(p, page).reportEpisode = None
<1> DEFINE r == Shut(p)
           c == ClearReport(r)
           q == [c EXCEPT !.page = page]
<1>1. Goes(p, page) = q BY DEF Goes
<1>2. Stays(p, r) /\ r.detail = None /\ r.tool = p.tool BY ShutStays
<1> HIDE DEF r
<1>3. Fits(r) BY <1>2 DEF Stays, Follow
<1>4. Opens(r, c) /\ c.detail = r.detail /\ c.tool = r.tool /\ c.reportEpisode = None BY <1>3, ClearReportOpens
<1>5. Fits(c) BY <1>4 DEF Opens, Follow
<1> HIDE DEF c
<1>6. /\ Beside(c, q) /\ q.body = c.body /\ q.response = c.response /\ q.detail = c.detail /\ q.tool = c.tool
      /\ q.reportEpisode = c.reportEpisode BY <1>5 DEF Fits, Fields, Whole, Beside
<1> HIDE DEF q
<1>7. ResponseFits(q) BY <1>5, <1>6 DEF Fits, ResponseFits
<1>8. q.body # None => q.detail # None /\ q.body.n = q.detail.n BY <1>5, <1>6 DEF Fits, DetailFits
<1>9. Saved(q) = Saved(c) BY <1>6, SameSaved
<1>10. Stays(c, q) BY <1>5, <1>6, <1>7, <1>8, <1>9, BesideStays
<1>11. Opens(p, c) BY <1>2, <1>4, StaysOpens, ThenOpens
<1>12. Opens(p, q) BY <1>10, <1>11, StaysOpens, ThenOpens
<1> QED BY <1>1, <1>2, <1>4, <1>6, <1>12

(* A destination of its own leaves no dialog, action or link. *)
LEMMA ArrivesFollows ==
  ASSUME NEW p, Fits(p), NEW page
  PROVE  LET q == Arrives(p, page)
         IN /\ Follow(p, q) /\ q.pending = None /\ q.tool = None
            /\ q.detail = None /\ q.reportEpisode = None
<1> DEFINE r == Goes(p, page)
           q == Arrives(p, page)
<1>1. Opens(p, r) /\ r.detail = None /\ r.reportEpisode = None BY GoesFollows
<1>2. Fits(r) BY <1>1 DEF Opens, Follow
<1>3. q = [r EXCEPT !.pending = None, !.tool = None] BY DEF Arrives
<1> HIDE DEF r, q
<1>4. /\ Whole(q) /\ q.detail = r.detail /\ q.selections = r.selections /\ q.body = r.body
      /\ q.report = r.report /\ q.reportStatus = r.reportStatus /\ q.members = r.members
      /\ q.reportEpisode = r.reportEpisode /\ q.pending = None
      /\ q.tool = None /\ q.response = r.response /\ q.pane = r.pane /\ q.asks = r.asks
      /\ q.data = r.data BY Zenon, <1>2, <1>3 DEF Fits, Fields, Whole
<1>5. DetailFits(q) /\ ResponseFits(q) /\ AsksFit(q)
 BY Zenon, <1>2, <1>4 DEF Fits, DetailFits, ResponseFits, AsksFit
<1>6. ReportFits(q) /\ ToolFits(q) /\ r.selections <= q.selections
 BY <1>1, <1>2, <1>4 DEF Fits, ReportFits, ToolFits
<1>7. Saved(q) = Saved(r) BY <1>4, SameSaved
<1>8. Fits(q) BY <1>2, <1>4, <1>5, <1>6 DEF Fits, Whole
<1>9. Follow(r, q) BY <1>4, <1>6, <1>7, <1>8 DEF Follow
<1>10. Follow(p, q) BY <1>1, <1>9, Onward DEF Opens
<1> QED BY <1>1, <1>4, <1>10 DEF q

-----------------------------------------------------------------------------

(* Sequences of messages                                                   *)

(* A finite set as a sequence. *)
LEMMA SetToSeqType ==
  ASSUME NEW S, IsFiniteSet(S)
  PROVE  SetToSeq(S) \in Seq(S)
<1> DEFINE D == 1..Cardinality(S)
           q == SetToSeq(S)
<1>1. Cardinality(S) \in Nat /\ ExistsBijection(D, S) BY FS_CardinalityType
<1>2. PICK f : f \in Bijection(D, S) BY <1>1 DEF ExistsBijection
<1>3. f \in [D -> S] /\ IsInjective(f) BY <1>2 DEF Bijection, Injection, IsInjective
<1>4. q \in [D -> S] BY <1>3 DEF SetToSeq
<1> HIDE DEF q
<1>5. q \in Seq(S) BY <1>1, <1>4
<1> QED BY <1>5 DEF q

(* A nonempty set of numbers has a least one. *)
LEMMA MinMember ==
  ASSUME NEW T, T \subseteq Nat, T # {}
  PROVE  Min(T) \in T
<1> DEFINE Less == OpToRel(<, Nat)
<1>1. IsWellFoundedOn(Less, Nat) BY Zenon, NatLessThanWellFounded
<1> HIDE DEF Less
<1>2. PICK x \in T : \A y \in T : ~ (<<y, x>> \in Less) BY Zenon, <1>1, WFMin
<1>3. \A y \in T : ~ (y < x) BY Zenon, <1>2 DEF Less, OpToRel
<1>4. \A y \in T : x <= y BY <1>3
<1> QED BY Zenon, <1>4 DEF Min

(* Two sequences after one another. *)
LEMMA ConcatFacts ==
  ASSUME NEW a, NEW b, Sequence(a), Sequence(b)
  PROVE  Sequence(a \o b) /\ Range(a \o b) = Range(a) \cup Range(b)
<1> DEFINE R == Range(a) \cup Range(b)
           c == a \o b
<1>1. a \in Seq(R) /\ b \in Seq(R)
 <2>1. Range(a) \subseteq R /\ Range(b) \subseteq R OBVIOUS
 <2> HIDE DEF R
 <2> QED BY <2>1 DEF Sequence
<1> HIDE DEF R
<1>2. /\ c \in Seq(R) /\ Len(c) = Len(a) + Len(b)
      /\ \A i \in 1..Len(a) : c[i] = a[i]
      /\ \A i \in 1..Len(b) : c[Len(a) + i] = b[i] BY <1>1
<1>3. /\ Len(a) \in Nat /\ Len(b) \in Nat /\ DOMAIN a = 1..Len(a) /\ DOMAIN b = 1..Len(b)
      /\ DOMAIN c = 1..(Len(a) + Len(b)) BY <1>1, <1>2
<1> HIDE DEF c
<1>4. Range(c) \subseteq Range(a) \cup Range(b)
 <2>1. ASSUME NEW i \in DOMAIN c PROVE c[i] \in Range(a) \cup Range(b)
  <3>1. CASE i <= Len(a) BY <1>3, <2>1, <3>1, <1>2 DEF Range
  <3>2. CASE ~(i <= Len(a))
   <4>1. i - Len(a) \in 1..Len(b) /\ Len(a) + (i - Len(a)) = i BY <1>3, <2>1, <3>2
   <4>2. c[Len(a) + (i - Len(a))] = b[i - Len(a)] BY <1>2, <4>1
   <4> QED BY <1>3, <4>1, <4>2 DEF Range
  <3> QED BY <3>1, <3>2
 <2> QED BY <2>1 DEF Range
<1>5. Range(a) \subseteq Range(c) BY <1>2, <1>3 DEF Range
<1>6. Range(b) \subseteq Range(c) BY <1>2, <1>3 DEF Range
<1>7. Range(c) = R BY <1>4, <1>5, <1>6 DEF R
<1>8. Sequence(c) BY <1>2, <1>7 DEF Sequence
<1> QED BY <1>4, <1>5, <1>6, <1>8 DEF c

(* A sequence of one message. *)
LEMMA OneFacts == \A m : Sequence(<<m>>) /\ Range(<<m>>) = {m}
<1> TAKE m
<1>1. <<m>> \in Seq({m}) /\ DOMAIN <<m>> = {1} /\ <<m>>[1] = m OBVIOUS
<1>2. Range(<<m>>) = {m} BY <1>1 DEF Range
<1> QED BY <1>1, <1>2 DEF Sequence

(* The empty sequence. *)
LEMMA NoneFacts == Sequence(<<>>) /\ Range(<<>>) = {}
BY DEF Range, Sequence

(* A part of a sequence. *)
LEMMA PartFacts ==
  ASSUME NEW q, Sequence(q), NEW m \in Nat, NEW n \in Nat, 1 <= m, n <= Len(q)
  PROVE  Sequence(SubSeq(q, m, n)) /\ Range(SubSeq(q, m, n)) \subseteq Range(q)
<1> DEFINE c == SubSeq(q, m, n)
<1>1. q \in Seq(Range(q)) /\ Len(q) \in Nat /\ DOMAIN q = 1..Len(q) BY DEF Sequence
<1>2. c = [i \in 1..(n - m + 1) |-> q[i + m - 1]] BY <1>1
<1> HIDE DEF c
<1>3. ASSUME NEW i \in 1..(n - m + 1) PROVE i + m - 1 \in DOMAIN q BY <1>1, <1>3
<1>4. Range(c) \subseteq Range(q) BY <1>2, <1>3 DEF Range
<1>5. c \in Seq(Range(c))
 <2> DEFINE k == IF n - m + 1 \in Nat THEN n - m + 1 ELSE 0
 <2>1. k \in Nat /\ 1..(n - m + 1) = 1..k OBVIOUS
 <2> HIDE DEF k
 <2>2. c = [i \in 1..k |-> q[i + m - 1]] BY <1>2, <2>1
 <2>3. c \in [1..k -> Range(c)] BY <2>2 DEF Range
 <2> QED BY <2>1, <2>3
<1> QED BY <1>4, <1>5 DEF Sequence, c

(* A sequence without the message that is handled. *)
LEMMA RemoveFacts ==
  ASSUME NEW q, Sequence(q), NEW i \in DOMAIN q
  PROVE  Sequence(RemoveAt(q, i)) /\ Range(RemoveAt(q, i)) \subseteq Range(q)
<1>1. Len(q) \in Nat /\ DOMAIN q = 1..Len(q) /\ i \in Nat /\ i - 1 \in Nat /\ i + 1 \in Nat
      /\ i - 1 <= Len(q) /\ 1 <= i + 1 BY DEF Sequence
<1>2. Sequence(SubSeq(q, 1, i - 1)) /\ Range(SubSeq(q, 1, i - 1)) \subseteq Range(q) BY <1>1, PartFacts
<1>3. Sequence(SubSeq(q, i + 1, Len(q))) /\ Range(SubSeq(q, i + 1, Len(q))) \subseteq Range(q)
 BY <1>1, PartFacts
<1> QED BY <1>2, <1>3, ConcatFacts DEF RemoveAt

(* An element for each of a sequence. *)
LEMMA EachFacts ==
  ASSUME NEW q, Sequence(q), NEW c, DOMAIN c = DOMAIN q, c = [i \in DOMAIN c |-> c[i]]
  PROVE  Sequence(c)
BY DEF Sequence, Range

-----------------------------------------------------------------------------

(* The inductive invariant                                                 *)

(* What is on its way still fits after a handler of reads. *)
LEMMA MailsFollow ==
  ASSUME NEW p, NEW q, Fits(p), Follow(p, q), NEW s, NEW t, Keeps(s, t),
         NEW messages, Mails(p, s, messages)
  PROVE  Mails(q, t, messages)
<1>1. ASSUME NEW kind \in Kinds, NEW e, Holds(s, kind, e) PROVE Holds(t, kind, e)
 BY Zenon, <1>1 DEF Holds, Keeps, Kinds
<1>0. p.tool # None => p.tool.kind \in Kinds BY DEF Fits, ToolFits
<1>2. p.selections \in Nat /\ q.selections \in Nat /\ p.selections <= q.selections BY DEF Fits, ToolFits, Follow
<1>3. ASSUME NEW m, Mail(p, s, m) PROVE Mail(q, t, m) BY <1>2, <1>0, <1>1, <1>3 DEF Mail, Follow, Keeps
<1> QED BY <1>3 DEF Mails

(* And what is claimed still holds. *)
LEMMA ClaimsFollow ==
  ASSUME NEW p, NEW q, Fits(p), Follow(p, q), NEW s, NEW t, Keeps(s, t), Claims(p, s)
  PROVE  Claims(q, t)
<1>1. ASSUME NEW kind \in Kinds, NEW e, Holds(s, kind, e) PROVE Holds(t, kind, e)
 BY Zenon, <1>1 DEF Holds, Keeps, Kinds
<1>0. p.tool # None => p.tool.kind \in Kinds BY DEF Fits, ToolFits
<1>2. (q.tool # None /\ q.tool.done) => Holds(t, q.tool.kind, q.tool.target) BY <1>0, <1>1 DEF Claims, Follow
<1>3. \A a \in Saved(q) : a[1] = "acknowledge" => a[2] \in t.acked BY DEF Claims, Follow, Keeps
<1> QED BY <1>2, <1>3 DEF Claims

(* Messages after one another. *)
LEMMA MailsConcat ==
  ASSUME NEW p, NEW s, NEW a, NEW b, Mails(p, s, a), Mails(p, s, b)
  PROVE  Mails(p, s, a \o b)
BY ConcatFacts DEF Mails

(* Some of the messages. *)
LEMMA MailsPart ==
  ASSUME NEW p, NEW s, NEW a, NEW b, Mails(p, s, a), Sequence(b), Range(b) \subseteq Range(a)
  PROVE  Mails(p, s, b)
BY DEF Mails

(* The requests of the responses among the messages. *)
LEMMA ResponsesOf ==
  ASSUME NEW a
  PROVE  Responses(a) = {m.call : m \in {x \in Range(a) : x.kind = "reply" /\ x.call.slot = "response"}}
BY DEF Responses, Range

(* The requests of a handler of reads are answered, and its panel is whole *)
(* again.                                                                  *)
LEMMA RunsPreserves ==
  ASSUME Fits(panel), Mails(panel, server, down), Claims(panel, server),
         ServerFits(server), NEW q, Follow(panel, q), Awaits(q), NEW rest, Sequence(rest),
         Range(rest) \subseteq Range(down), Runs(q, rest), server' = server
  PROVE  Inv' /\ Responses(down') \subseteq Responses(down)
<1> DEFINE p == [q EXCEPT !.asks = <<>>]
           answers == [i \in DOMAIN q.asks |-> Answer(server, q.asks[i], TRUE)]
<1>1. Fits(q) BY DEF Follow
<1>2. Stays(q, p) /\ p.asks = <<>>
 <2>1. Whole(p) /\ Same(q, p) /\ p.pane = q.pane /\ p.asks = <<>> BY <1>1 DEF Fits, Fields, Whole, Same
 <2> HIDE DEF p
 <2>2. AsksFit(p) BY <2>1, NoneFacts DEF AsksFit, Sequence
 <2> QED BY <1>1, <2>1, <2>2, SameStays DEF Fits
<1>3. panel' = p BY DEF Runs
<1> HIDE DEF p
<1>4. Follow(panel, p) BY <1>2, Onward DEF Stays
<1>5. Awaits(p) BY <1>2 DEF Awaits, Stays, Current
<1>6. Keeps(server, server) BY DEF Keeps
<1>7. Mails(p, server, rest) BY <1>4, <1>6, MailsFollow, MailsPart
<1>8. Sequence(q.asks) /\ \A i \in DOMAIN q.asks : ReadFits(q.asks[i])
 BY Zenon, <1>1 DEF Fits, AsksFit, Sequence, Range
<1>9. DOMAIN answers = DOMAIN q.asks /\ answers = [i \in DOMAIN answers |-> answers[i]] BY Zenon
<1>10. \A i \in DOMAIN q.asks : ReplyFits(answers[i]) /\ answers[i].call = q.asks[i]
 BY Zenon DEF Answer, ReplyFits
<1>11. \A i \in DOMAIN q.asks : q.asks[i].slot \in ReadSlots BY Zenon, <1>8 DEF ReadFits, ReadSlots
<1> HIDE DEF answers
<1>12. \A m \in Range(answers) : ReplyFits(m) /\ m.call.slot \in ReadSlots /\ ReadFits(m.call)
 BY <1>8, <1>9, <1>10, <1>11 DEF Range
<1>13. Mails(p, server, answers) BY <1>8, <1>9, <1>12, EachFacts DEF Mails, Mail
<1>14. down' \in {rest, rest \o answers} BY DEF Runs, answers
<1>15. Mails(p, server, down') BY Zenon, <1>7, <1>13, <1>14, MailsConcat
<1>16. Range(down') \subseteq Range(down) \cup Range(answers)
 <2>1. Range(rest \o answers) = Range(rest) \cup Range(answers) BY <1>7, <1>13, ConcatFacts DEF Mails
 <2> QED BY Zenon, <1>14, <2>1
<1>17. Responses(down') \subseteq Responses(down)
 <2>1. \A m \in Range(answers) : m.call.slot # "response" BY <1>12 DEF ReadSlots
 <2> QED BY <1>16, <2>1, ResponsesOf
<1>18. Claims(p, server) BY <1>4, <1>6, ClaimsFollow
<1>19. Inv' BY <1>2, <1>5, <1>15, <1>18, <1>3 DEF Stays, Follow, Inv
<1> QED BY <1>17, <1>19

-----------------------------------------------------------------------------

(* Reading                                                                 *)

(* A click and what follows it; and a message that is handled. *)
LEMMA HandlerPreserves ==
  ASSUME Inv, NEW q, Follow(panel, q), Awaits(q), NEW rest, Sequence(rest),
         Range(rest) \subseteq Range(down), Runs(q, rest), server' = server
  PROVE  Inv' /\ Chosen
BY RunsPreserves DEF Inv, Chosen

(* A click: nothing on its way is handled. *)
LEMMA ClickPreserves ==
  ASSUME Inv, NEW q, Follow(panel, q), Awaits(q), Runs(q, down), server' = server
  PROVE  Inv' /\ Chosen
BY HandlerPreserves DEF Inv, Mails

(* What follows no link lets none go unread. *)
LEMMA OpensAwaits == \A p, q : Awaits(p) /\ Opens(p, q) => Follow(p, q) /\ Awaits(q)
BY DEF Awaits, Opens, Current

(* A click that follows no link. *)
LEMMA OpensPreserves ==
  ASSUME Inv, NEW q, Opens(panel, q), Runs(q, down), server' = server
  PROVE  Inv' /\ Chosen
BY OpensAwaits, ClickPreserves DEF Inv

(* Another page. *)
LEMMA OpenPagePreserves ==
  ASSUME Inv, NEW page, OpenPage(page)
  PROVE  Inv' /\ Chosen
BY Zenon, GoesFollows, LoadSourceOpens, OpensPreserves DEF Inv, OpenPage, Click

(* A selection that waits for evidence. *)
LEMMA WaitFollows ==
  ASSUME NEW p, Fits(p), p.tool = None, p.reportEpisode = None, NEW pending
  PROVE  Follow(p, [p EXCEPT !.pending = pending])
<1> DEFINE q == [p EXCEPT !.pending = pending]
<1>1. /\ Whole(q) /\ q.page = p.page /\ q.status = p.status /\ q.data = p.data
      /\ q.detail = p.detail /\ q.selections = p.selections /\ q.body = p.body
      /\ q.report = p.report /\ q.reportStatus = p.reportStatus /\ q.members = p.members
      /\ q.reportEpisode = p.reportEpisode /\ q.tool = p.tool
      /\ q.response = p.response /\ q.pane = p.pane /\ q.asks = p.asks BY DEF Fits, Fields, Whole
<1> HIDE DEF q
<1>2. DetailFits(q) /\ ResponseFits(q) /\ AsksFit(q) BY <1>1 DEF Fits, DetailFits, ResponseFits, AsksFit
<1>3. ReportFits(q) /\ ToolFits(q) /\ p.selections <= q.selections BY <1>1 DEF Fits, ReportFits, ToolFits
<1>4. Saved(q) = Saved(p) BY <1>1, SameSaved
<1>5. Fits(q) BY <1>1, <1>2, <1>3 DEF Fits, Whole
<1>6. Follow(p, q) BY <1>1, <1>3, <1>4, <1>5 DEF Follow
<1> QED BY <1>6 DEF q

(* A link opens its selection, or waits for evidence. *)
LEMMA OpenLinkPreserves ==
  ASSUME Inv, NEW selection, OpenLink(selection)
  PROVE  Inv' /\ Chosen
<1> DEFINE p == Arrives(panel, PageOf(selection))
           open == OpenDetail(p, selection.kind, selection.id)
           wait == [p EXCEPT !.pending = selection]
           q == IF Current(p) THEN open ELSE wait
<1>1. Runs(LoadSource(q, FALSE), down) /\ server' = server BY Zenon DEF OpenLink, Click
<1>2. Fits(panel) BY DEF Inv
<1>3. Follow(panel, p) /\ p.pending = None /\ p.tool = None /\ p.detail = None /\ p.reportEpisode = None
 BY <1>2, ArrivesFollows
<1>4. Fits(p) BY <1>3 DEF Follow
<1> HIDE DEF p
<1>5. Opens(p, open) BY <1>3, <1>4, OpenDetailOpens
<1>6. Follow(p, wait) BY <1>3, <1>4, WaitFollows
<1>7. wait.status = p.status BY <1>4 DEF Fits, Fields
<1> HIDE DEF open, wait
<1>8. Follow(p, q) BY <1>5, <1>6 DEF Opens
<1>9. Awaits(q) BY <1>3, <1>5, <1>7 DEF Awaits, Opens, Current
<1> HIDE DEF q
<1>10. Fits(q) BY <1>8 DEF Follow
<1>11. Opens(q, LoadSource(q, FALSE)) BY Zenon, <1>10, LoadSourceStays, StaysOpens
<1>12. Follow(q, LoadSource(q, FALSE)) /\ Awaits(LoadSource(q, FALSE)) BY Zenon, <1>9, <1>11, OpensAwaits
<1>13. Follow(panel, q) BY <1>2, <1>3, <1>8, Onward
<1>14. Follow(panel, LoadSource(q, FALSE)) BY Zenon, <1>2, <1>12, <1>13, Onward
<1> QED BY Zenon, <1>1, <1>12, <1>14, ClickPreserves

(* The link of a notification: its report, none of its members yet. *)
LEMMA OpenReportPreserves ==
  ASSUME Inv, NEW e, OpenReport(e)
  PROVE  Inv' /\ Chosen
<1> DEFINE p == Arrives(panel, "problems")
           q == [p EXCEPT !.report = Report, !.reportStatus = "loading", !.members = {},
                          !.reportEpisode = e]
<1>1. Runs(LoadReport(q), down) /\ server' = server BY DEF OpenReport, Click
<1>2. Fits(panel) BY DEF Inv
<1>3. Follow(panel, p) /\ p.pending = None /\ p.tool = None /\ p.detail = None /\ p.reportEpisode = None
 BY <1>2, ArrivesFollows
<1>4. Fits(p) BY <1>3 DEF Follow
<1> HIDE DEF p
<1>5. /\ Whole(q) /\ q.page = p.page /\ q.status = p.status /\ q.data = p.data
      /\ q.detail = p.detail /\ q.selections = p.selections /\ q.body = p.body
      /\ q.reportStatus = "loading" /\ q.members = {} /\ q.tool = p.tool /\ q.pending = p.pending
      /\ q.response = p.response /\ q.pane = p.pane /\ q.asks = p.asks BY ZenonT(40), <1>4 DEF Fits, Fields, Whole
<1> HIDE DEF q
<1>6. DetailFits(q) /\ ResponseFits(q) /\ AsksFit(q)
 BY Zenon, <1>4, <1>5 DEF Fits, DetailFits, ResponseFits, AsksFit
<1>7. ReportFits(q) BY <1>3, <1>5, PanelAssumption DEF ReportFits
<1>8. ToolFits(q) /\ p.selections <= q.selections BY <1>3, <1>4, <1>5 DEF Fits, ToolFits
<1>9. Saved(q) = Saved(p) BY <1>5, SameSaved
<1>10. Fits(q) BY <1>4, <1>5, <1>6, <1>7, <1>8 DEF Fits, Whole
<1>11. Follow(p, q) /\ Awaits(q) BY <1>3, <1>5, <1>8, <1>9, <1>10 DEF Follow, Awaits
<1>12. Follow(panel, q) BY <1>2, <1>3, <1>11, Onward
<1>13. Follow(q, LoadReport(q)) /\ Awaits(LoadReport(q)) BY <1>10, <1>11, LoadReportOpens, OpensAwaits
<1>14. Follow(panel, LoadReport(q)) BY <1>2, <1>12, <1>13, Onward
<1> QED BY <1>1, <1>13, <1>14, ClickPreserves

(* What only the source or the readings change. *)
LEMMA LooksStays ==
  ASSUME NEW p, Fits(p), NEW x
  PROVE  Stays(p, [p EXCEPT !.source = x]) /\ Stays(p, [p EXCEPT !.readings = x])
<1> DEFINE q == [p EXCEPT !.source = x]
           r == [p EXCEPT !.readings = x]
<1>1. Whole(q) /\ Same(p, q) /\ q.pane = p.pane /\ q.asks = p.asks BY DEF Fits, Fields, Whole, Same
<1>2. Whole(r) /\ Same(p, r) /\ r.pane = p.pane /\ r.asks = p.asks BY DEF Fits, Fields, Whole, Same
<1> HIDE DEF q, r
<1>3. Stays(p, q) /\ Stays(p, r) BY <1>1, <1>2, SameStays DEF Fits, AsksFit
<1> QED BY <1>3 DEF q, r

(* Another source. *)
LEMMA SelectSourcePreserves ==
  ASSUME Inv, NEW node, SelectSource(node)
  PROVE  Inv' /\ Chosen
<1> DEFINE q == [panel EXCEPT !.source = node]
<1>1. Runs(LoadSource(q, FALSE), down) /\ server' = server BY Zenon DEF SelectSource, Click
<1>2. Fits(panel) BY DEF Inv
<1>3. Stays(panel, q) BY Zenon, <1>2, LooksStays
<1> HIDE DEF q
<1>4. Opens(panel, LoadSource(q, FALSE)) BY Zenon, <1>2, <1>3, StaysOpens, LoadSourceOpens
<1> QED BY Zenon, <1>1, <1>4, OpensPreserves

(* A state changes in Home Assistant. *)
LEMMA ReadingsPreserves ==
  ASSUME Inv, Readings
  PROVE  Inv' /\ Chosen
<1> DEFINE q == [panel EXCEPT !.readings = 1 - @]
<1>1. Runs(LoadSource(q, FALSE), down) /\ server' = server BY Zenon DEF Readings, Click
<1>2. Fits(panel) BY DEF Inv
<1>3. Stays(panel, q) BY Zenon, <1>2, LooksStays
<1> HIDE DEF q
<1>4. Opens(panel, LoadSource(q, FALSE)) BY Zenon, <1>2, <1>3, StaysOpens, LoadSourceOpens
<1> QED BY Zenon, <1>1, <1>4, OpensPreserves

(* Further rows of the source. *)
LEMMA MoreEvidencePreserves ==
  ASSUME Inv, MoreEvidence
  PROVE  Inv' /\ Chosen
BY LoadSourceMoreStays, StaysOpens, OpensPreserves DEF Inv, MoreEvidence, Click

(* A report that failed is read again. *)
LEMMA RetryReportPreserves ==
  ASSUME Inv, RetryReport
  PROVE  Inv' /\ Chosen
<1> DEFINE q == InvalidateReport(panel)
<1>1. Runs(LoadReport(q), down) /\ server' = server BY DEF RetryReport, Click
<1>2. Fits(panel) BY DEF Inv
<1>3. Opens(panel, q) BY <1>2, InvalidateReportOpens
<1> HIDE DEF q
<1>4. Fits(q) => Opens(q, LoadReport(q)) BY LoadReportOpens
<1>5. Opens(panel, LoadReport(q)) BY <1>2, <1>3, <1>4, ThenOpens
<1> QED BY <1>1, <1>5, OpensPreserves

(* An issue, node or device of the page: none of a report whose members    *)
(* are not read.                                                           *)
LEMMA OpenPreserves ==
  ASSUME Inv, NEW kind, NEW id, Open(kind, id)
  PROVE  Inv' /\ Chosen
BY Zenon, PanelAssumption, OpenDetailOpens, OpensPreserves DEF Inv, Open, OnPage, Fits, ReportFits, Click

(* The dialog closes. *)
LEMMA ClosePreserves ==
  ASSUME Inv, Close
  PROVE  Inv' /\ Chosen
BY ShutStays, StaysOpens, OpensPreserves DEF Inv, Close, Follows

-----------------------------------------------------------------------------

(* The server and the connection                                           *)

(* Evidence the server publishes. *)
LEMMA EventMails ==
  ASSUME NEW s, ServerFits(s), NEW conn, NEW p, NEW t
  PROVE  Mails(p, t, Event(s, conn)) /\ Responses(Event(s, conn)) = {}
<1> DEFINE m == [kind |-> "event", conn |-> conn, status |-> "current", data |-> Data(s)]
<1>1. Event(s, conn) = <<m>> BY DEF Event
<1>2. m.kind = "event" /\ m.data.open \subseteq Episodes BY DEF Data, ServerFits
<1> HIDE DEF m
<1> QED BY <1>1, <1>2, OneFacts, ResponsesOf DEF Mails, Mail, EventFits

(* The requests of responses among messages after one another. *)
LEMMA ConcatResponses ==
  ASSUME NEW a, NEW b, Sequence(a), Sequence(b)
  PROVE  Responses(a \o b) = Responses(a) \cup Responses(b)
BY ConcatFacts, ResponsesOf

(* The evidence of a later server arrives at the same panel. *)
LEMMA EventPreserves ==
  ASSUME Inv, NEW q, Follow(panel, q), Awaits(q), q.asks = <<>>, panel' = q,
         ServerFits(server'), Keeps(server, server'),
         NEW news, Mails(q, server', news), Responses(news) = {},
         down' \in {down, down \o news, news}
  PROVE  Inv' /\ Chosen
<1>1. Fits(panel) /\ Mails(panel, server, down) /\ Claims(panel, server) BY DEF Inv
<1>2. Mails(q, server', down) BY <1>1, MailsFollow
<1>3. Claims(q, server') BY <1>1, ClaimsFollow
<1>4. Mails(q, server', down') BY Zenon, <1>2, MailsConcat
<1>5. Responses(down') \subseteq Responses(down)
 <2>1. Responses(down \o news) = Responses(down) \cup Responses(news) BY Zenon, <1>1, ConcatResponses DEF Mails
 <2> QED BY Zenon, <2>1, Zenon
<1>6. Fits(q) BY DEF Follow
<1>7. Inv' BY <1>3, <1>4, <1>6 DEF Inv
<1> QED BY <1>5, <1>7 DEF Chosen

(* The panel where nothing touches it. *)
LEMMA Unmoved == Inv => Follow(panel, panel) /\ Awaits(panel) /\ panel.asks = <<>> /\ ServerFits(server)
BY Nothing DEF Inv, Stays

(* Another user: the panel forgets what it knew. *)
LEMMA OtherUserPreserves ==
  ASSUME Inv, OtherUser
  PROVE  Inv' /\ Chosen
<1> DEFINE q == [Release(panel) EXCEPT !.conn = panel.conn + 1]
<1>1. panel' = q /\ server' = server /\ down' = down \o Event(server, panel.conn + 1)
 BY DEF Inv, Fits, Fields, Release, Shut, OtherUser
<1>2. Fits(panel) /\ ServerFits(server) /\ panel.asks = <<>> BY DEF Inv
<1>3. Follow(panel, q) /\ Awaits(q) /\ q.asks = <<>> BY Zenon, <1>2, ReleaseFollows
<1> HIDE DEF q
<1>4. Mails(q, server', Event(server, panel.conn + 1)) /\ Responses(Event(server, panel.conn + 1)) = {}
 BY Zenon, <1>2, EventMails
<1>5. Keeps(server, server') /\ ServerFits(server') BY <1>1, <1>2 DEF Keeps
<1> QED BY Zenon, <1>1, <1>3, <1>4, <1>5, EventPreserves

(* The runtime publishes. *)
LEMMA PublishPreserves ==
  ASSUME Inv, NEW s, ServerFits(s), Keeps(server, s), Publish(s), panel' = panel
  PROVE  Inv' /\ Chosen
<1>1. server' = [s EXCEPT !.at = @ + 1] /\ down' \in {down, down \o Event(server', panel.conn)} BY DEF Publish
<1>2. ServerFits(server') /\ Keeps(server, server') BY <1>1 DEF ServerFits, Keeps
<1>3. Follow(panel, panel) /\ Awaits(panel) /\ panel.asks = <<>> BY Unmoved
<1>4. Mails(panel, server', Event(server', panel.conn)) /\ Responses(Event(server', panel.conn)) = {}
 BY <1>2, EventMails
<1> QED BY Zenon, <1>1, <1>2, <1>3, <1>4, EventPreserves

(* An issue opens. *)
LEMMA IssueOpensPreserves ==
  ASSUME Inv, NEW e \in Episodes, IssueOpens(e)
  PROVE  Inv' /\ Chosen
<1> DEFINE s == [server EXCEPT !.open = @ \cup {e}]
<1>1. ServerFits(s) /\ Keeps(server, s) BY Zenon DEF Inv, ServerFits, Keeps
<1> QED BY <1>1, PublishPreserves DEF IssueOpens

(* An issue ends. *)
LEMMA IssueEndsPreserves ==
  ASSUME Inv, NEW e \in Episodes, NEW kept, IssueEnds(e, kept)
  PROVE  Inv' /\ Chosen
<1> DEFINE s == [server EXCEPT !.open = @ \ {e}, !.kept = IF kept THEN @ \cup {e} ELSE @]
<1>1. ServerFits(s) /\ Keeps(server, s) BY Zenon DEF Inv, ServerFits, Keeps
<1> QED BY <1>1, PublishPreserves DEF IssueEnds

(* The report expires. *)
LEMMA ExpirePreserves ==
  ASSUME Inv, Expire
  PROVE  Inv' /\ Chosen
BY Zenon, Unmoved, NoneFacts, ResponsesOf, EventPreserves DEF Inv, ServerFits, Keeps, Expire, Mails

(* The integration is reloaded: unavailable, and back. *)
LEMMA ReloadsPreserves ==
  ASSUME Inv, Reloads
  PROVE  Inv' /\ Chosen
<1> DEFINE m == [Event(server, panel.conn)[1] EXCEPT !.status = "unavailable"]
           news == <<m>> \o Event(server', panel.conn)
<1>1. ServerFits(server') /\ Keeps(server, server') BY Zenon DEF Inv, ServerFits, Keeps, Reloads
<1>2. Follow(panel, panel) /\ Awaits(panel) /\ panel.asks = <<>> BY Unmoved
<1>3. EventFits(m) BY DEF Event, Data, EventFits, Inv, ServerFits
<1>4. /\ Sequence(<<m>>) /\ Sequence(Event(server', panel.conn)) /\ Sequence(down)
      /\ Mails(panel, server', Event(server', panel.conn)) /\ Responses(Event(server', panel.conn)) = {}
 BY Zenon, <1>1, EventMails, OneFacts DEF Mails, Inv
<1>5. down' = down \o <<m>> \o Event(server', panel.conn) /\ panel' = panel BY DEF Reloads
<1> HIDE DEF m
<1>6. Mails(panel, server', <<m>>) /\ Responses(<<m>>) = {}
 BY <1>3, OneFacts, ResponsesOf DEF Mails, Mail, EventFits
<1>7. Mails(panel, server', news) /\ Responses(news) = {} BY <1>4, <1>6, MailsConcat, ConcatResponses
<1>8. (down \o <<m>>) \o Event(server', panel.conn) = down \o news BY <1>4 DEF Sequence
<1> QED BY Zenon, <1>1, <1>2, <1>5, <1>7, <1>8, EventPreserves

(* The connection is back, with new evidence. *)
LEMMA ReconnectPreserves ==
  ASSUME Inv, Reconnect
  PROVE  Inv' /\ Chosen
BY Unmoved, EventMails, EventPreserves DEF Reconnect, Keeps, Inv

(* A request under way fails: it was not saved for all the panel knows. *)
LEMMA FailsPreserves ==
  ASSUME Inv, NEW i \in DOMAIN down, Fails(i)
  PROVE  Inv' /\ Chosen
<1> DEFINE m == down[i]
           n == [m EXCEPT !.answer.ok = FALSE]
<1>1. /\ down' = [down EXCEPT ![i] = n] /\ m.kind = "reply" /\ server' = server /\ panel' = panel BY DEF Fails
<1>2. Mail(panel, server, m) /\ Sequence(down) BY DEF Inv, Mails, Range
<1>3. ReplyFits(m) BY <1>1, <1>2 DEF Mail, EventFits
<1>4. ReplyFits(n) /\ n.call = m.call /\ n.answer.ok = FALSE
 <2>1. m.answer = [ok |-> m.answer.ok, at |-> m.answer.at, expired |-> m.answer.expired] BY <1>3 DEF ReplyFits
 <2> DEFINE a == [m.answer EXCEPT !.ok = FALSE]
 <2>2. DOMAIN a = {"ok", "at", "expired"} /\ a = [x \in DOMAIN a |-> a[x]] /\ a.ok = FALSE
  BY Zenon, <1>3 DEF ReplyFits
 <2>3. n = [m EXCEPT !.answer = a] OBVIOUS
 <2> HIDE DEF a, n, m
 <2> QED BY <1>3, <2>2, <2>3 DEF ReplyFits
<1> HIDE DEF n
<1>5. Mail(panel, server, n) BY <1>1, <1>2, <1>3, <1>4 DEF Mail, EventFits, CallFits
<1>6. /\ DOMAIN down' = DOMAIN down /\ down' = [j \in DOMAIN down' |-> down'[j]]
      /\ \A j \in DOMAIN down : down'[j] = IF j = i THEN n ELSE down[j] BY Zenon, <1>1, <1>2 DEF Sequence
<1>7. Sequence(down') BY <1>2, <1>6, EachFacts
<1>8. \A j \in DOMAIN down' : down'[j] = n \/ down'[j] \in Range(down) BY <1>6 DEF Range
<1>9. Mails(panel, server, down') BY <1>5, <1>7, <1>8 DEF Mails, Range, Inv
<1>10. Responses(down') \subseteq Responses(down)
 <2>1. m \in Range(down) /\ m.kind = "reply" /\ n.kind = "reply" BY <1>1, <1>4 DEF Range, ReplyFits
 <2>2. Range(down') \subseteq Range(down) \cup {n} BY <1>8 DEF Range
 <2> QED BY <1>4, <2>1, <2>2, ResponsesOf
<1>11. Inv' BY <1>1, <1>9 DEF Inv
<1> QED BY <1>10, <1>11 DEF Chosen

(* Every request has failed: what is claimed stays claimed, and no answer  *)
(* is on its way.                                                          *)
LEMMA DisconnectPreserves ==
  ASSUME Inv, Disconnect
  PROVE  Inv' /\ Chosen
<1> DEFINE l == Listener(panel, "disconnected", None)
           p == [l EXCEPT !.asks = <<>>]
           status == IF p.reportRequest = None THEN p.reportStatus ELSE "error"
           tool == IF p.tool = None THEN p.tool ELSE [p.tool EXCEPT !.busy = FALSE]
           response == IF p.response = None THEN p.response
                       ELSE [p.response EXCEPT !.busy = FALSE, !.form = None]
           q == [p EXCEPT !.reportStatus = status, !.reportRequest = None, !.tool = tool,
                          !.response = response]
<1>1. panel' = q /\ server' = server /\ down' = <<>> BY DEF Disconnect, Rejected
<1>2. Fits(panel) /\ Awaits(panel) /\ Claims(panel, server) /\ ServerFits(server) BY DEF Inv
<1>3. Follow(panel, l) /\ Awaits(l) BY <1>2, ListenerFollows
<1>4. Fits(l) BY <1>3 DEF Follow
<1> HIDE DEF l
<1>5. Whole(p) /\ Same(l, p) /\ p.pane = l.pane /\ p.asks = <<>> BY <1>4 DEF Fits, Fields, Whole, Same
<1> HIDE DEF p
<1>6. Stays(l, p) BY Zenon, <1>5, NoneFacts, <1>4, SameStays DEF AsksFit, Sequence, Fits
<1>7. Fits(p) /\ Awaits(p) BY <1>3, <1>6 DEF Stays, Follow, Awaits, Current
<1>8. Claims(p, server) BY <1>2, <1>3, <1>6, Onward, ClaimsFollow DEF Stays, Keeps
<1>9. /\ tool # None => p.tool # None
      /\ tool # None => /\ tool = [id |-> tool.id, kind |-> tool.kind, target |-> tool.target,
                                   busy |-> tool.busy, done |-> tool.done]
                        /\ tool.id = p.tool.id /\ tool.kind = p.tool.kind /\ tool.target = p.tool.target
                        /\ tool.done = p.tool.done
 <2>1. CASE p.tool = None BY <2>1
 <2>2. CASE p.tool # None
  <3>1. p.tool = [id |-> p.tool.id, kind |-> p.tool.kind, target |-> p.tool.target,
                  busy |-> p.tool.busy, done |-> p.tool.done] BY <1>7, <2>2 DEF Fits, ToolFits
  <3> DEFINE t == p.tool
             u == [t EXCEPT !.busy = FALSE]
  <3>2. tool = u BY <2>2
  <3> DEFINE D == {"id", "kind", "target", "busy", "done"}
  <3>3. DOMAIN t = D BY <3>1
  <3>4. /\ DOMAIN u = D /\ u = [x \in D |-> u[x]]
        /\ u.id = t.id /\ u.kind = t.kind /\ u.target = t.target /\ u.done = t.done BY Zenon, <3>3
  <3> HIDE DEF u
  <3>5. u = [id |-> u.id, kind |-> u.kind, target |-> u.target, busy |-> u.busy, done |-> u.done] BY <3>4
  <3> QED BY Zenon, <2>2, <3>2, <3>4, <3>5
 <2> QED BY <2>1, <2>2
<1>10. /\ response # None => p.response # None
       /\ response # None => /\ response = [n |-> response.n, chosen |-> response.chosen, busy |-> response.busy,
                                            form |-> response.form, saved |-> response.saved]
                             /\ response.form = None /\ response.saved = p.response.saved
 <2>1. CASE p.response = None BY <2>1
 <2>2. CASE p.response # None
  <3> DEFINE t == p.response
             u == [t EXCEPT !.busy = FALSE, !.form = None]
  <3>1. t = [n |-> t.n, chosen |-> t.chosen, busy |-> t.busy, form |-> t.form, saved |-> t.saved]
   BY <1>7, <2>2 DEF Fits, ResponseFits
  <3>2. response = u BY <2>2
  <3> DEFINE D == {"n", "chosen", "busy", "form", "saved"}
  <3>3. DOMAIN t = D BY <3>1
  <3>4. /\ DOMAIN u = D /\ u = [x \in D |-> u[x]]
        /\ u.form = None /\ u.saved = t.saved BY Zenon, <3>3
  <3> HIDE DEF u
  <3>5. u = [n |-> u.n, chosen |-> u.chosen, busy |-> u.busy, form |-> u.form, saved |-> u.saved] BY <3>4
  <3> QED BY Zenon, <2>2, <3>2, <3>4, <3>5
 <2> QED BY <2>1, <2>2
<1>11. status \in {p.reportStatus, "error"} OBVIOUS
<1> HIDE DEF tool, response, status
<1>12. /\ Whole(q) /\ q.page = p.page /\ q.status = p.status /\ q.data = p.data
       /\ q.detail = p.detail /\ q.selections = p.selections /\ q.body = p.body
       /\ q.report = p.report /\ q.reportStatus = status /\ q.members = p.members
       /\ q.reportEpisode = p.reportEpisode /\ q.pending = p.pending /\ q.tool = tool
       /\ q.response = response /\ q.pane = p.pane /\ q.asks = <<>>
        BY ZenonT(40), <1>5, <1>7 DEF Fits, Fields, Whole
<1> HIDE DEF q
<1>13. DetailFits(q) /\ ResponseFits(q) BY <1>7, <1>10, <1>12 DEF Fits, DetailFits, ResponseFits
<1>14. ReportFits(q) BY Zenon, <1>7, <1>11, <1>12 DEF Fits, ReportFits
<1>15. ToolFits(q) BY <1>7, <1>9, <1>12 DEF Fits, ToolFits
<1>16. AsksFit(q) BY <1>12, NoneFacts DEF AsksFit, Sequence
<1>17. Fits(q) /\ Awaits(q) BY <1>7, <1>12, <1>13, <1>14, <1>15, <1>16 DEF Fits, Whole, Awaits, Current
<1>18. Claims(q, server) BY <1>10, <1>12, <1>8, <1>9 DEF Saved, Claims
<1>19. Mails(q, server, <<>>) /\ Responses(<<>>) = {} BY NoneFacts, ResponsesOf DEF Mails
<1>20. Inv' BY <1>1, <1>2, <1>12, <1>17, <1>18, <1>19 DEF Inv
<1> QED BY <1>1, <1>19, <1>20 DEF Chosen

(* The message that is handled next. *)
LEMMA ReadyFacts ==
  ASSUME Inv, NEW i \in Ready
  PROVE  /\ i \in DOMAIN down /\ Mail(panel, server, down[i])
         /\ Sequence(RemoveAt(down, i)) /\ Range(RemoveAt(down, i)) \subseteq Range(down)
BY RemoveFacts DEF Ready, Inv, Mails, Range

(* Evidence arrives, or that of another connection. *)
LEMMA DeliverEventPreserves ==
  ASSUME Inv, NEW i \in Ready, DeliverEvent(i)
  PROVE  Inv' /\ Chosen
<1> DEFINE m == down[i]
           q == IF m.conn = panel.conn THEN Listener(panel, m.status, m.data) ELSE panel
<1>1. m.kind = "event" /\ Runs(q, RemoveAt(down, i)) /\ server' = server BY DEF DeliverEvent
<1>2. m.data.open \subseteq Episodes BY Zenon, <1>1, ReadyFacts DEF Mail, EventFits, ReplyFits, CallFits
<1>3. Follow(panel, Listener(panel, m.status, m.data)) /\ Awaits(Listener(panel, m.status, m.data))
 BY <1>2, ListenerFollows DEF Inv
<1>4. Follow(panel, q) /\ Awaits(q) BY <1>3, Unmoved
<1> QED BY <1>1, <1>4, ReadyFacts, HandlerPreserves

(* The answer of a read arrives. *)
LEMMA DeliverReadPreserves ==
  ASSUME Inv, NEW i \in Ready, DeliverRead(i)
  PROVE  Inv' /\ Chosen
<1> DEFINE m == down[i]
           q == Replied(panel, m.call, m.answer)
<1>1. m.kind = "reply" /\ ~Action(m) /\ Runs(q, RemoveAt(down, i)) /\ server' = server BY DEF DeliverRead
<1>2. m.call.slot \in ReadSlots /\ ReadFits(m.call)
 BY Zenon, <1>1, ReadyFacts DEF Mail, EventFits, ReplyFits, CallFits, Action, ReadSlots
<1>3. Fits(panel) BY DEF Inv
<1> HIDE DEF m
<1>4. Opens(panel, q)
 <2>1. CASE m.call.slot = "source" BY <1>2, <2>1, <1>3, SourceReplyStays, StaysOpens DEF ReadFits, Replied
 <2>2. CASE m.call.slot = "more" BY <1>3, <2>2, MoreReplyStays, StaysOpens DEF Replied
 <2>3. CASE m.call.slot = "detail" BY <1>2, <1>3, <2>3, DetailReplyStays, StaysOpens DEF Replied
 <2>4. CASE m.call.slot = "report" BY <1>2, <1>3, <2>4, ReportReplyOpens DEF Replied
 <2> QED BY <1>2, <2>1, <2>2, <2>3, <2>4 DEF ReadSlots
<1> HIDE DEF q
<1>5. Follow(panel, q) /\ Awaits(q) BY <1>4, OpensAwaits DEF Inv
<1> QED BY <1>1, <1>5, ReadyFacts, HandlerPreserves

(* Every step that only reads. *)
LEMMA ReadNextPreserves ==
  ASSUME Inv, ReadNext
  PROVE  Inv' /\ Chosen
<1>1. CASE \E page \in {"problems", "sources"} : OpenPage(page) BY <1>1, OpenPagePreserves
<1>2. CASE \E x \in Links : OpenLink(x) BY <1>2, OpenLinkPreserves
<1>3. CASE \E e \in {None} \cup {x.id : x \in {y \in Links : y.kind = "episode"}} : OpenReport(e)
 BY <1>3, OpenReportPreserves
<1>4. CASE RetryReport \/ MoreEvidence \/ Readings
 BY <1>4, RetryReportPreserves, MoreEvidencePreserves, ReadingsPreserves
<1>5. CASE \E n \in Nodes : SelectSource(n) BY <1>5, SelectSourcePreserves
<1>6. CASE (\E e \in Episodes : Open("episode", e)) \/ (\E n \in Nodes : Open("node", n)) \/ Open("device", Device)
 BY <1>6, OpenPreserves
<1>7. CASE Close \/ OtherUser BY <1>7, ClosePreserves, OtherUserPreserves
<1>8. CASE \E e \in Episodes, kept \in BOOLEAN : IssueEnds(e, kept) BY <1>8, IssueEndsPreserves
<1>9. CASE \E e \in Episodes : IssueOpens(e) BY <1>9, IssueOpensPreserves
<1>10. CASE Expire \/ Reloads \/ Disconnect \/ Reconnect
 BY <1>10, ExpirePreserves, ReloadsPreserves, DisconnectPreserves, ReconnectPreserves
<1>11. CASE \E i \in DOMAIN down : Fails(i) BY <1>11, FailsPreserves
<1>12. CASE (\E i \in Ready : DeliverEvent(i)) \/ (\E i \in Ready : DeliverRead(i))
 BY <1>12, DeliverEventPreserves, DeliverReadPreserves
<1> QED BY <1>1, <1>2, <1>3, <1>4, <1>5, <1>6, <1>7, <1>8, <1>9, <1>10, <1>11, <1>12 DEF ReadNext

-----------------------------------------------------------------------------

(* Acting                                                                  *)

(* A handler that asks for nothing. *)
LEMMA QuietFacts ==
  ASSUME NEW q, Fits(q), q.asks = <<>>, NEW rest, Sequence(rest), Runs(q, rest)
  PROVE  panel' = q /\ down' = rest
<1> DEFINE p == [q EXCEPT !.asks = <<>>]
           answers == [i \in DOMAIN q.asks |-> Answer(server, q.asks[i], TRUE)]
<1>1. panel' = p /\ down' \in {rest, rest \o answers} BY DEF Runs
<1>2. p = q BY DEF Fits, Fields
<1>3. answers = <<>> OBVIOUS
<1> HIDE DEF p, answers
<1>4. rest \o answers = rest BY <1>3 DEF Sequence
<1> QED BY <1>1, <1>2, <1>4

(* A handler that asks for nothing may still claim. *)
LEMMA QuietPreserves ==
  ASSUME Inv, NEW q, Fits(q), q.asks = <<>>, Awaits(q), NEW rest, Mails(q, server, rest),
         Claims(q, server), Range(rest) \subseteq Range(down), Runs(q, rest), server' = server
  PROVE  Inv' /\ Chosen
BY QuietFacts, ResponsesOf DEF Mails, Inv, Chosen

(* A handler that asks for one action. *)
LEMMA AskedFacts ==
  ASSUME NEW p, Fits(p), p.asks = <<>>, NEW call, NEW rest, Acts(Ask(p, call), rest)
  PROVE  /\ panel' = p
         /\ server' = IF Accepts(server, call) THEN Served(server, call) ELSE server
         /\ down' = (rest \o (IF Accepts(server, call) THEN Event(server', p.conn) ELSE <<>>))
                      \o <<Answer(server', call, Accepts(server, call))>>
<1> DEFINE q == Ask(p, call)
<1>1. q = [p EXCEPT !.asks = <<call>>] BY DEF Ask
<1>2. q.asks = <<call>> /\ q.asks # <<>> /\ q.asks[1] = call /\ q.conn = p.conn BY <1>1 DEF Fits, Fields
<1>3. [q EXCEPT !.asks = <<>>] = p BY <1>1 DEF Fits, Fields
<1> HIDE DEF q
<1>4. Acts(q, rest) BY DEF q
<1> QED BY Zenon, <1>2, <1>3, <1>4 DEF Acts

(* The dialog of an action, another operation under way or over. *)
LEMMA ToolSet ==
  ASSUME NEW p, Fits(p), p.tool # None, NEW u,
         u = [id |-> u.id, kind |-> u.kind, target |-> u.target, busy |-> u.busy, done |-> u.done],
         u.id = p.tool.id, u.kind = p.tool.kind, u.target = p.tool.target,
         NEW q, q = [p EXCEPT !.tool = u]
  PROVE  /\ Fits(q) /\ q.asks = p.asks /\ q.tool = u /\ Saved(q) = Saved(p) /\ q.selections = p.selections
         /\ q.status = p.status /\ q.pending = p.pending /\ q.data = p.data
BY ZenonT(40), SameSaved DEF Fits, Fields, Whole, DetailFits, ResponseFits, AsksFit, ReportFits, ToolFits

(* The dialog of an action while its request is under way. *)
LEMMA ToolBusy ==
  ASSUME NEW p, Fits(p), p.tool # None, NEW busy
  PROVE  LET u == [p.tool EXCEPT !.busy = busy]
         IN /\ u = [id |-> u.id, kind |-> u.kind, target |-> u.target, busy |-> u.busy, done |-> u.done]
            /\ u.id = p.tool.id /\ u.kind = p.tool.kind /\ u.target = p.tool.target
            /\ u.done = p.tool.done
<1> DEFINE D == {"id", "kind", "target", "busy", "done"}
           u == [p.tool EXCEPT !.busy = busy]
<1>1. DOMAIN p.tool = D BY DEF Fits, ToolFits
<1>2. /\ DOMAIN u = D /\ u = [x \in D |-> u[x]]
      /\ u.id = p.tool.id /\ u.kind = p.tool.kind /\ u.target = p.tool.target /\ u.done = p.tool.done BY <1>1
<1> HIDE DEF u
<1>3. u = [id |-> u.id, kind |-> u.kind, target |-> u.target, busy |-> u.busy, done |-> u.done] BY <1>2
<1> QED BY <1>2, <1>3 DEF u

(* The same operation, and a server that has more. *)
LEMMA MailsTool ==
  ASSUME NEW p, NEW q, NEW s, NEW t, NEW messages, Mails(p, s, messages),
         p.selections \in Nat, q.selections \in Nat, p.selections <= q.selections,
         s.acked \subseteq t.acked,
         \A m \in Range(messages) :
            /\ m.call.tool <= p.selections
            /\ q.tool # None /\ q.tool.id = m.call.tool
            => /\ p.tool # None /\ p.tool.id = m.call.tool
               /\ Holds(s, p.tool.kind, p.tool.target) => Holds(t, q.tool.kind, q.tool.target)
  PROVE  Mails(q, t, messages)
<1>1. ASSUME NEW m \in Range(messages) PROVE Mail(q, t, m) BY DEF Mails, Mail
<1> QED BY <1>1 DEF Mails

(* openImmediate and openControl: an operation no answer belongs to yet. *)
LEMMA OpenToolPreserves ==
  ASSUME Inv, NEW kind \in Kinds, OpenTool(kind)
  PROVE  Inv' /\ Chosen
<1> DEFINE r == Shut(panel)
           u == [id |-> panel.selections + 1, kind |-> kind,
                 target |-> panel.detail.id, busy |-> FALSE, done |-> FALSE]
           q == [r EXCEPT !.selections = @ + 1, !.tool = u]
<1>1. /\ panel.detail # None /\ panel.detail.kind = "episode" /\ Current(panel)
      /\ Runs(q, down) /\ server' = server BY DEF OpenTool, Allowed, Follows
<1>2. Fits(panel) /\ Awaits(panel) /\ panel.asks = <<>> /\ Mails(panel, server, down) /\ Claims(panel, server)
 BY DEF Inv
<1>3. panel.pending = None /\ panel.reportEpisode = None /\ panel.selections \in Nat
 BY <1>1, <1>2 DEF Awaits, Fits, ReportFits, ToolFits
<1>4. Stays(panel, r) /\ r.detail = None BY <1>2, ShutStays
<1>5. r.asks = <<>> /\ r.selections = panel.selections /\ r.body = None BY <1>2 DEF Shut, Fits, Fields
<1>6. /\ Fits(r) /\ r.pending = None /\ r.reportEpisode = None /\ r.status = panel.status
      /\ Saved(r) \subseteq Saved(panel) BY <1>3, <1>4 DEF Stays, Follow
<1> HIDE DEF r
<1>7. /\ u = [id |-> u.id, kind |-> u.kind, target |-> u.target, busy |-> u.busy, done |-> u.done]
      /\ u.id = panel.selections + 1 /\ u.kind \in Kinds /\ u.done = FALSE OBVIOUS
<1> HIDE DEF u
<1>8. /\ Whole(q) /\ q.page = r.page /\ q.status = r.status /\ q.data = r.data
      /\ q.detail = r.detail /\ q.selections = r.selections + 1 /\ q.body = r.body
      /\ q.report = r.report /\ q.reportStatus = r.reportStatus /\ q.members = r.members
      /\ q.reportEpisode = r.reportEpisode /\ q.pending = r.pending /\ q.tool = u
      /\ q.response = r.response /\ q.pane = r.pane /\ q.asks = r.asks BY Zenon, <1>6 DEF Fits, Fields, Whole
<1> HIDE DEF q
<1>9. DetailFits(q) /\ ResponseFits(q) /\ AsksFit(q) /\ ReportFits(q)
 BY Zenon, <1>6, <1>8 DEF Fits, DetailFits, ResponseFits, AsksFit, ReportFits
<1>10. q.selections \in Nat /\ panel.selections <= q.selections /\ u.id <= q.selections /\ u.id \in Nat
       /\ ~(u.id <= panel.selections) BY <1>3, <1>5, <1>7, <1>8
<1>11. ToolFits(q) BY <1>4, <1>6, <1>7, <1>8, <1>10 DEF ToolFits
<1>12. Fits(q) /\ Awaits(q) BY <1>6, <1>8, <1>9, <1>11 DEF Fits, Whole, Awaits
<1>13. Saved(q) \subseteq Saved(panel) BY <1>6, <1>8, SameSaved
<1>14. Claims(q, server) BY <1>2, <1>7, <1>8, <1>13 DEF Claims
<1>15. Mails(q, server, down) BY <1>2, <1>3, <1>7, <1>8, <1>10, MailsTool
<1> QED BY <1>1, <1>5, <1>8, <1>12, <1>14, <1>15, QuietPreserves

(* The dialog of an action closes before its answer. *)
LEMMA CloseToolPreserves ==
  ASSUME Inv, CloseTool
  PROVE  Inv' /\ Chosen
<1> DEFINE q == [panel EXCEPT !.tool = None]
<1>1. Runs(q, down) /\ server' = server BY DEF CloseTool, Follows
<1>2. Fits(panel) BY DEF Inv
<1>3. Beside(panel, q) /\ q.body = panel.body /\ q.response = panel.response /\ q.detail = panel.detail
 BY <1>2 DEF Fits, Fields, Whole, Beside
<1> HIDE DEF q
<1>5. ResponseFits(q) /\ Saved(q) \subseteq Saved(panel) BY <1>2, <1>3, SameSaved DEF Fits, ResponseFits
<1>6. q.body # None => q.detail # None /\ q.body.n = q.detail.n BY <1>2, <1>3 DEF Fits, DetailFits
<1>7. Opens(panel, q) BY <1>2, <1>3, <1>5, <1>6, BesideStays, StaysOpens
<1> QED BY <1>1, <1>7, OpensPreserves

(* What the services of the integration save. *)
LEMMA ServedFacts ==
  ASSUME NEW s, ServerFits(s), NEW call, call.kind \in Kinds
  PROVE  /\ ServerFits(Served(s, call)) /\ s.acked \subseteq Served(s, call).acked
         /\ Holds(Served(s, call), call.kind, call.id)
BY Zenon DEF ServerFits, Served, Holds, Kinds

(* The answer to an action. *)
LEMMA AnswerFits ==
  ASSUME NEW s, NEW call, NEW ok
  PROVE  LET m == Answer(s, call, ok)
         IN ReplyFits(m) /\ m.call = call /\ m.answer.ok = ok /\ m.kind = "reply"
BY DEF Answer, ReplyFits

(* executeImmediate and execute: the server saves before it answers. *)
LEMMA SubmitPreserves ==
  ASSUME Inv, Submit
  PROVE  Inv' /\ Chosen
<1> DEFINE u == [panel.tool EXCEPT !.busy = TRUE]
           p == [panel EXCEPT !.tool = u]
           call == [slot |-> "tool", tool |-> panel.tool.id, kind |-> panel.tool.kind,
                    id |-> panel.tool.target]
           ok == Accepts(server, call)
           m == Answer(server', call, ok)
           news == IF ok THEN Event(server', p.conn) ELSE <<>>
<1>1. panel.tool # None /\ ~panel.tool.done /\ Acts(Ask(p, call), down) BY DEF Submit, Press
<1>2. /\ Fits(panel) /\ Awaits(panel) /\ panel.asks = <<>> /\ Mails(panel, server, down)
      /\ Claims(panel, server) /\ ServerFits(server) BY DEF Inv
<1>3. /\ u = [id |-> u.id, kind |-> u.kind, target |-> u.target, busy |-> u.busy, done |-> u.done]
      /\ u.id = panel.tool.id /\ u.kind = panel.tool.kind /\ u.target = panel.tool.target
      /\ u.done = panel.tool.done BY Zenon, <1>1, <1>2, ToolBusy
<1> HIDE DEF u
<1>4. /\ Fits(p) /\ p.asks = <<>> /\ p.tool = u /\ Saved(p) = Saved(panel) /\ p.selections = panel.selections
      /\ p.status = panel.status /\ p.pending = panel.pending /\ p.data = panel.data
 BY <1>1, <1>2, <1>3, ToolSet
<1>5. panel.tool.kind \in Kinds /\ panel.tool.id \in Nat /\ panel.selections \in Nat
      /\ panel.tool.id <= panel.selections BY <1>1, <1>2 DEF Fits, ToolFits
<1>6. call.slot = "tool" /\ call.tool = panel.tool.id /\ call.kind = panel.tool.kind /\ call.id = panel.tool.target
 OBVIOUS
<1> HIDE DEF p, call
<1>7. /\ panel' = p /\ server' = IF ok THEN Served(server, call) ELSE server
      /\ down' = (down \o news) \o <<m>> BY <1>1, <1>4, AskedFacts
<1>8. /\ ServerFits(server') /\ server.acked \subseteq server'.acked
      /\ ok => Holds(server', panel.tool.kind, panel.tool.target)
      /\ Holds(server, panel.tool.kind, panel.tool.target) => Holds(server', panel.tool.kind, panel.tool.target)
 BY <1>2, <1>5, <1>6, <1>7, ServedFacts
<1> HIDE DEF ok
<1>9. Mails(p, server', down)
 <2>1. p.tool.id = panel.tool.id /\ p.tool.kind = panel.tool.kind /\ p.tool.target = panel.tool.target
  BY <1>3, <1>4
 <2>2. Holds(server, panel.tool.kind, panel.tool.target) => Holds(server', p.tool.kind, p.tool.target)
  BY <1>8, <2>1
 <2>3. p.selections = panel.selections /\ p.selections \in Nat /\ panel.selections <= p.selections BY <1>4, <1>5
 <2> QED BY <1>1, <1>2, <1>8, <2>1, <2>2, <2>3, MailsTool
<1>10. Mails(p, server', news) /\ Responses(news) = {} BY <1>8, EventMails, NoneFacts, ResponsesOf DEF Mails
<1>11. ReplyFits(m) /\ m.call = call /\ m.answer.ok = ok /\ m.kind = "reply" BY AnswerFits
<1> HIDE DEF m, news
<1>12. Mail(p, server', m) BY <1>3, <1>4, <1>5, <1>6, <1>8, <1>11 DEF Mail
<1>13. Mails(p, server', <<m>>) /\ Responses(<<m>>) = {} BY <1>6, <1>11, <1>12, OneFacts, ResponsesOf DEF Mails
<1>14. Mails(p, server', down \o news) /\ Responses(down \o news) = Responses(down)
 BY ZenonT(40), <1>9, <1>10, MailsConcat, ConcatResponses DEF Mails
<1>15. Mails(p, server', down') /\ Responses(down') = Responses(down)
 <2> DEFINE a == down \o news
            b == <<m>>
 <2>1. Mails(p, server', a) /\ Mails(p, server', b) /\ Responses(b) = {} /\ Responses(a) = Responses(down)
  BY <1>13, <1>14
 <2>2. down' = a \o b BY <1>7
 <2> HIDE DEF a, b
 <2>3. Mails(p, server', a \o b) BY <2>1, MailsConcat
 <2>4. Responses(a \o b) = Responses(a) \cup Responses(b) BY <2>1, ConcatResponses DEF Mails
 <2> QED BY <2>1, <2>2, <2>3, <2>4
<1>16. Claims(p, server') BY <1>1, <1>2, <1>3, <1>4, <1>8 DEF Claims
<1>17. Inv' BY <1>2, <1>4, <1>7, <1>8, <1>15, <1>16 DEF Inv, Awaits, Current
<1> QED BY <1>15, <1>17 DEF Chosen

(* The answer, which may be that of a dialog that is gone. *)
LEMMA ToolReplyPreserves ==
  ASSUME Inv, NEW i \in Ready, down[i].kind = "reply", down[i].call.slot = "tool",
         Acts(ToolReply(panel, down[i].call, down[i].answer), RemoveAt(down, i))
  PROVE  Inv' /\ Chosen
<1> DEFINE m == down[i]
           q == ToolReply(panel, m.call, m.answer)
           rest == RemoveAt(down, i)
           u == [panel.tool EXCEPT !.busy = FALSE, !.done = m.answer.ok]
           p == [panel EXCEPT !.tool = u]
<1>1. /\ Fits(panel) /\ Awaits(panel) /\ panel.asks = <<>> /\ Mails(panel, server, down)
      /\ Claims(panel, server) /\ ServerFits(server) BY DEF Inv
<1>2. Mail(panel, server, m) /\ Sequence(rest) /\ Range(rest) \subseteq Range(down) BY ReadyFacts
<1>3. (panel.tool # None /\ panel.tool.id = m.call.tool /\ m.answer.ok)
        => Holds(server, panel.tool.kind, panel.tool.target) BY <1>2 DEF Mail, EventFits, ReadFits, CallFits
<1>4. Mails(panel, server, rest) BY <1>1, <1>2, MailsPart
<1>5. q = panel \/ (panel.tool # None /\ panel.tool.id = m.call.tool /\ q = p) BY Zenon DEF ToolReply
<1>6. Acts(q, rest) OBVIOUS
<1> HIDE DEF m, q, rest
<1>7. Fits(q) /\ q.asks = <<>> /\ Awaits(q) /\ Mails(q, server, rest) /\ Claims(q, server)
 <2>1. CASE q = panel BY <1>1, <1>4, <2>1
 <2>2. CASE panel.tool # None /\ panel.tool.id = m.call.tool /\ q = p
  <3>1. /\ u = [id |-> u.id, kind |-> u.kind, target |-> u.target, busy |-> u.busy, done |-> u.done]
        /\ u.id = panel.tool.id /\ u.kind = panel.tool.kind /\ u.target = panel.tool.target
        /\ u.done = m.answer.ok
   <4> DEFINE D == {"id", "kind", "target", "busy", "done"}
              t == panel.tool
   <4>1. t = [id |-> t.id, kind |-> t.kind, target |-> t.target, busy |-> t.busy, done |-> t.done]
    BY <1>1, <2>2 DEF Fits, ToolFits
   <4>2. DOMAIN t = D BY <4>1
   <4>3. /\ DOMAIN u = D /\ u = [x \in D |-> u[x]]
         /\ u.id = t.id /\ u.kind = t.kind /\ u.target = t.target /\ u.done = m.answer.ok BY Zenon, <4>2
   <4> HIDE DEF u
   <4>4. u = [id |-> u.id, kind |-> u.kind, target |-> u.target, busy |-> u.busy, done |-> u.done] BY <4>3
   <4> QED BY <4>3, <4>4
  <3> HIDE DEF u
  <3>2. /\ Fits(p) /\ p.asks = <<>> /\ p.tool = u /\ Saved(p) = Saved(panel) /\ p.selections = panel.selections
        /\ p.status = panel.status /\ p.pending = panel.pending BY <1>1, <2>2, <3>1, ToolSet
  <3> HIDE DEF p
  <3>3. Claims(p, server) BY <1>1, <1>3, <2>2, <3>1, <3>2 DEF Claims
  <3>4. panel.selections \in Nat BY <1>1 DEF Fits, ToolFits
  <3>5. Mails(p, server, rest) BY <1>4, <2>2, <3>1, <3>2, <3>4, MailsTool
  <3>6. Awaits(p) BY <1>1, <3>2 DEF Awaits, Current
  <3> QED BY <2>2, <3>2, <3>3, <3>5, <3>6
 <2> QED BY <1>5, <2>1, <2>2
<1>8. Runs(q, rest) /\ server' = server BY Zenon, <1>6, <1>7 DEF Acts
<1> QED BY <1>2, <1>7, <1>8, QuietPreserves

-----------------------------------------------------------------------------

(* The issues of a device                                                  *)

(* Drawing nothing. *)
LEMMA DrawsItself == \A p : Fits(p) => Draws(p, p)
BY Nothing DEF Draws

(* Drawing again. *)
LEMMA ThenDraws ==
  ASSUME NEW p, Fits(p), NEW q, NEW r, Draws(p, q), Fits(q) => Draws(q, r)
  PROVE  Draws(p, r)
BY StaysOn DEF Draws, Stays, Follow

(* Another response of the device, that claims no more. *)
LEMMA RespondDraws ==
  ASSUME NEW p, Fits(p), NEW r, ResponseShape(r), r.saved \subseteq Saved(p)
  PROVE  Draws(p, [p EXCEPT !.response = r])
<1> DEFINE q == [p EXCEPT !.response = r]
<1>1. Beside(p, q) /\ q.body = p.body /\ q.response = r /\ q.detail = p.detail
 BY DEF Fits, Fields, Whole, Beside
<1> HIDE DEF q
<1>2. ResponseFits(q) BY <1>1 DEF ResponseFits, ResponseShape
<1>3. Saved(q) \subseteq Saved(p) BY <1>1 DEF Saved
<1>4. q.body # None => q.detail # None /\ q.body.n = q.detail.n BY <1>1 DEF Fits, DetailFits
<1>5. Stays(p, q) BY <1>1, <1>2, <1>3, <1>4, BesideStays
<1> QED BY <1>1, <1>5 DEF Draws, Beside, q

(* renderDeviceIssues. *)
LEMMA RenderedDraws ==
  ASSUME NEW p, Fits(p)
  PROVE  Draws(p, Rendered(p))
BY DrawsItself, ShowStays DEF Rendered, Draws

(* A response with another choice, form or mark. *)
LEMMA ChosenShape ==
  ASSUME NEW r, ResponseShape(r), NEW x
  PROVE  /\ ResponseShape([r EXCEPT !.chosen = x]) /\ [r EXCEPT !.chosen = x].saved = r.saved
         /\ [r EXCEPT !.chosen = x].n = r.n
<1> DEFINE D == {"n", "chosen", "busy", "form", "saved"}
           u == [r EXCEPT !.chosen = x]
<1>1. DOMAIN r = D BY DEF ResponseShape
<1>2. DOMAIN u = D /\ u = [y \in D |-> u[y]] /\ u.form = r.form /\ u.saved = r.saved /\ u.n = r.n BY <1>1
<1> HIDE DEF u
<1>3. u = [n |-> u.n, chosen |-> u.chosen, busy |-> u.busy, form |-> u.form, saved |-> u.saved] BY <1>2
<1>4. ResponseShape(u) BY <1>2, <1>3 DEF ResponseShape
<1> QED BY <1>2, <1>4 DEF u

(* A response under way or over. *)
LEMMA BusyShape ==
  ASSUME NEW r, ResponseShape(r), NEW x
  PROVE  /\ ResponseShape([r EXCEPT !.busy = x]) /\ [r EXCEPT !.busy = x].saved = r.saved
         /\ [r EXCEPT !.busy = x].n = r.n
<1> DEFINE D == {"n", "chosen", "busy", "form", "saved"}
           u == [r EXCEPT !.busy = x]
<1>1. DOMAIN r = D BY DEF ResponseShape
<1>2. DOMAIN u = D /\ u = [y \in D |-> u[y]] /\ u.form = r.form /\ u.saved = r.saved /\ u.n = r.n BY <1>1
<1> HIDE DEF u
<1>3. u = [n |-> u.n, chosen |-> u.chosen, busy |-> u.busy, form |-> u.form, saved |-> u.saved] BY <1>2
<1>4. ResponseShape(u) BY <1>2, <1>3 DEF ResponseShape
<1> QED BY <1>2, <1>4 DEF u

(* A response with the form of a pause, or without it. *)
LEMMA FormShape ==
  ASSUME NEW r, ResponseShape(r), NEW x, x # None => x \subseteq Episodes
  PROVE  /\ ResponseShape([r EXCEPT !.form = x]) /\ [r EXCEPT !.form = x].saved = r.saved
<1> DEFINE D == {"n", "chosen", "busy", "form", "saved"}
           u == [r EXCEPT !.form = x]
<1>1. DOMAIN r = D BY DEF ResponseShape
<1>2. DOMAIN u = D /\ u = [y \in D |-> u[y]] /\ u.form = x /\ u.saved = r.saved BY <1>1
<1> HIDE DEF u
<1>3. u = [n |-> u.n, chosen |-> u.chosen, busy |-> u.busy, form |-> u.form, saved |-> u.saved] BY <1>2
<1>4. ResponseShape(u) BY <1>2, <1>3 DEF ResponseShape
<1> QED BY <1>2, <1>4 DEF u

(* The end of a response. *)
LEMMA EndedDraws ==
  ASSUME NEW p, Fits(p), NEW n
  PROVE  Draws(p, Ended(p, n))
<1> DEFINE r == [p.response EXCEPT !.busy = FALSE]
           s == [r EXCEPT !.form = None]
           q == [p EXCEPT !.response = s]
<1>1. \/ Ended(p, n) = p
      \/ p.response # None /\ Ended(p, n) \in {q, Rendered(q)}
 <2>1. [p EXCEPT !.response.busy = FALSE, !.response.form = None] = q BY Zenon DEF Fits, Fields
 <2> HIDE DEF q
 <2> QED BY <2>1 DEF Ended
<1>2. ASSUME p.response # None PROVE Draws(p, q)
 <2>1. ResponseShape(p.response) /\ p.response.saved = Saved(p)
  BY <1>2 DEF Fits, ResponseFits, ResponseShape, Saved
 <2>2. ResponseShape(r) /\ r.saved = Saved(p) BY <2>1, BusyShape
 <2> HIDE DEF r
 <2>3. ResponseShape(s) /\ s.saved = Saved(p) BY <2>2, FormShape
 <2> HIDE DEF s
 <2> QED BY <2>3, RespondDraws
<1> HIDE DEF q
<1>3. Fits(q) => Draws(q, Rendered(q)) BY RenderedDraws
<1>4. p.response # None => Draws(p, Rendered(q)) BY <1>2, <1>3, ThenDraws
<1> QED BY <1>1, <1>2, <1>4, DrawsItself

(* What is left of a sequence after one of its elements. *)
LEMMA RestType ==
  ASSUME NEW R, NEW q \in Seq(R), NEW i \in 1..Len(q)
  PROVE  SubSeq(q, i + 1, Len(q)) \in Seq(R)
<1> DEFINE c == SubSeq(q, i + 1, Len(q))
           k == Len(q) - i
<1>1. k \in Nat /\ Len(q) \in Nat OBVIOUS
<1>2. c = [j \in 1..(Len(q) - (i + 1) + 1) |-> q[j + (i + 1) - 1]] BY <1>1
<1>3. Len(q) - (i + 1) + 1 = k BY <1>1
<1>4. \A j \in 1..k : j + (i + 1) - 1 \in 1..Len(q) BY <1>1
<1>5. \A j \in 1..k : q[j + (i + 1) - 1] \in R BY <1>4
<1> HIDE DEF k, c
<1>6. c \in [1..k -> R] BY <1>2, <1>3, <1>5
<1>7. c \in Seq(R) BY <1>1, <1>6
<1> QED BY <1>7 DEF c

(* The next issue of those captured that is open on the device. *)
LEMMA ContinueFacts ==
  ASSUME NEW p, Fits(p), NEW call, CallFits(call)
  PROVE  \/ Continue(p, call) = p
         \/ \E next : /\ CallFits(next) /\ next.id \in next.captured \cap p.data.open
                      /\ p.detail # None /\ Continue(p, call) = Ask(p, next)
<1> DEFINE T == {j \in 1..Len(call.rest) : call.rest[j] \in Related(p)}
           i == IF T # {} THEN Min(T) ELSE 0
           next == [call EXCEPT !.id = call.rest[i], !.tried = @ \cup {call.rest[i]},
                                !.rest = SubSeq(@, i + 1, Len(@))]
<1>1. Continue(p, call) = IF ~Current(p) \/ i = 0 THEN p ELSE Ask(p, next) BY DEF Continue, SelectInSeq
<1>2. call.rest \in Seq(call.captured) BY DEF CallFits
<1>3. ASSUME i # 0
      PROVE  /\ i \in Nat /\ i \in 1..Len(call.rest) /\ call.rest[i] \in Related(p) /\ call.rest[i] \in call.captured
 <2>1. T # {} /\ i = Min(T) BY <1>3
 <2>2. Len(call.rest) \in Nat /\ T \subseteq Nat BY <1>2
 <2>3. Min(T) \in T BY Zenon, <2>1, <2>2, MinMember
 <2> HIDE DEF i
 <2>4. i \in T BY <2>1, <2>3
 <2> QED BY <1>2, <2>2, <2>4
<1> HIDE DEF i
<1>4. ASSUME i # 0
      PROVE  CallFits(next) /\ next.id \in next.captured \cap p.data.open /\ p.detail # None
 <2>1. SubSeq(call.rest, i + 1, Len(call.rest)) \in Seq(call.captured) BY Zenon, <1>2, <1>3, <1>4, RestType
 <2>2. DOMAIN call = {"slot", "n", "kind", "captured", "id", "tried", "rest"} BY DEF CallFits
 <2>3. /\ DOMAIN next = DOMAIN call /\ next = [x \in DOMAIN next |-> next[x]]
       /\ next.slot = call.slot /\ next.kind = call.kind /\ next.captured = call.captured
       /\ next.id = call.rest[i] /\ next.rest = SubSeq(call.rest, i + 1, Len(call.rest)) BY Zenon, <2>2
 <2> HIDE DEF next
 <2>4. CallFits(next) BY <2>1, <2>2, <2>3 DEF CallFits
 <2>5. p.detail # None /\ call.rest[i] \in p.data.open BY <1>3, <1>4, RelatedFacts
 <2> QED BY <1>3, <1>4, <2>3, <2>4, <2>5
<1> HIDE DEF next
<1> QED BY <1>1, <1>4

(* A request of a response: the server saves it, and the panel is told. *)
LEMMA RequestPreserves ==
  ASSUME Inv, NEW p, Fits(p), p.asks = <<>>, Awaits(p), p.detail # None,
         NEW rest, Mails(p, server, rest), Claims(p, server), Range(rest) \subseteq Range(down),
         NEW call, CallFits(call), call.id \in call.captured \cap p.data.open,
         Acts(Ask(p, call), rest)
  PROVE  Inv' /\ Chosen
<1> DEFINE ok == Accepts(server, call)
           m == Answer(server', call, ok)
           news == IF ok THEN Event(server', p.conn) ELSE <<>>
<1>1. /\ panel' = p /\ server' = IF ok THEN Served(server, call) ELSE server
      /\ down' = (rest \o news) \o <<m>> BY AskedFacts
<1>2. p.tool = None /\ p.selections \in Nat BY DEF Fits, ToolFits
<1>3. call.slot = "response" /\ call.kind \in {"acknowledge", "shelve"} /\ call.kind \in Kinds
 BY DEF CallFits, Kinds
<1>4. /\ ServerFits(server') /\ server.acked \subseteq server'.acked
      /\ ok => Holds(server', call.kind, call.id) BY <1>1, <1>3, ServedFacts DEF Inv
<1> HIDE DEF ok
<1>5. Mails(p, server', rest) BY <1>2, <1>4, MailsTool
<1>6. Mails(p, server', news) /\ Responses(news) = {} BY <1>4, EventMails, NoneFacts, ResponsesOf DEF Mails
<1>7. ReplyFits(m) /\ m.call = call /\ m.answer.ok = ok /\ m.kind = "reply" BY AnswerFits
<1> HIDE DEF m, news
<1>8. Mail(p, server', m) BY Zenon, <1>3, <1>4, <1>7 DEF Mail, Holds
<1>9. Mails(p, server', <<m>>) /\ Responses(<<m>>) = {call} BY <1>3, <1>7, <1>8, OneFacts, ResponsesOf DEF Mails
<1>10. Mails(p, server', rest \o news) /\ Responses(rest \o news) = Responses(rest)
 <2>1. Responses(rest \o news) = Responses(rest) \cup Responses(news)
  BY Zenon, <1>5, <1>6, ConcatResponses DEF Mails
 <2> QED BY <1>5, <1>6, <2>1, MailsConcat
<1>11. Mails(p, server', down') /\ Responses(down') = Responses(rest) \cup {call}
 <2> DEFINE a == rest \o news
            b == <<m>>
 <2>1. Mails(p, server', a) /\ Mails(p, server', b) /\ Responses(b) = {call} /\ Responses(a) = Responses(rest)
  BY <1>9, <1>10
 <2>2. down' = a \o b BY <1>1
 <2> HIDE DEF a, b
 <2>3. Mails(p, server', a \o b) BY <2>1, MailsConcat
 <2>4. Responses(a \o b) = Responses(a) \cup Responses(b) BY <2>1, ConcatResponses DEF Mails
 <2> QED BY <2>1, <2>2, <2>3, <2>4
<1>12. Claims(p, server') BY <1>2, <1>4 DEF Claims
<1>13. Inv' BY <1>1, <1>4, <1>11, <1>12 DEF Inv
<1>14. Responses(rest) \subseteq Responses(down) BY ResponsesOf
<1> QED BY <1>1, <1>11, <1>13, <1>14 DEF Chosen

(* What a button of the dialog does, and what follows an answer: the next  *)
(* request, or the end.                                                    *)
LEMMA ContinuePreserves ==
  ASSUME Inv, NEW p, Fits(p), p.asks = <<>>, Awaits(p),
         NEW rest, Mails(p, server, rest), Claims(p, server), Range(rest) \subseteq Range(down),
         NEW call, CallFits(call), NEW n, NEW q, q = Continue(p, call),
         q.asks = <<>> => Acts(Ended(p, n), rest), q.asks # <<>> => Acts(q, rest)
  PROVE  Inv' /\ Chosen
<1> DEFINE e == Ended(p, n)
<1>1. \/ Continue(p, call) = p
      \/ \E next : /\ CallFits(next) /\ next.id \in next.captured \cap p.data.open
                   /\ p.detail # None /\ Continue(p, call) = Ask(p, next) BY ContinueFacts
<1>2. CASE Continue(p, call) = p
 <2>1. Acts(e, rest) BY <1>2
 <2>2. Draws(p, e) BY EndedDraws
 <2> HIDE DEF e
 <2>3. Fits(e) /\ e.asks = <<>> /\ Follow(p, e) /\ Awaits(e) BY <2>2 DEF Draws, Stays, Follow, Awaits, Current
 <2>4. Keeps(server, server) BY DEF Keeps
 <2>5. Mails(e, server, rest) /\ Claims(e, server) BY <2>3, <2>4, MailsFollow, ClaimsFollow
 <2>6. Runs(e, rest) /\ server' = server BY <2>1, <2>3 DEF Acts
 <2> QED BY <2>3, <2>5, <2>6, QuietPreserves
<1>3. ASSUME NEW next, CallFits(next), next.id \in next.captured \cap p.data.open,
             p.detail # None, Continue(p, call) = Ask(p, next)
      PROVE  Inv' /\ Chosen BY <1>3, RequestPreserves DEF Ask, Fits, Fields
<1> QED BY <1>1, <1>2, <1>3

(* A button that only draws. *)
LEMMA PressDraws ==
  ASSUME Inv, NEW q, Draws(panel, q), Press(q)
  PROVE  Inv' /\ Chosen
BY StaysOpens, OpensPreserves DEF Draws, Inv, Press, Acts

(* The response to the device on display, as it stands. *)
LEMMA IdleFacts ==
  ASSUME Inv, OnDevice
  PROVE  /\ Fits(panel) /\ panel.response # None /\ panel.detail # None
         /\ ResponseShape(panel.response) /\ panel.response.saved = Saved(panel)
         /\ panel = [panel EXCEPT !.response = panel.response]
BY DEF Inv, OnDevice, Fits, Fields, ResponseFits, ResponseShape, Saved

(* Another response is drawn. *)
LEMMA DrawPreserves ==
  ASSUME Inv, NEW r, ResponseShape(r), r.saved \subseteq Saved(panel),
         Press(Rendered([panel EXCEPT !.response = r]))
  PROVE  Inv' /\ Chosen
<1> DEFINE q == [panel EXCEPT !.response = r]
<1>1. Fits(panel) BY DEF Inv
<1>2. Draws(panel, q) BY <1>1, RespondDraws
<1>3. Press(Rendered(q)) OBVIOUS
<1> HIDE DEF q
<1>4. Fits(q) => Draws(q, Rendered(q)) BY RenderedDraws
<1>5. Draws(panel, Rendered(q)) BY <1>1, <1>2, <1>4, ThenDraws
<1> QED BY <1>3, <1>5, PressDraws

(* An issue is chosen or not. *)
LEMMA ChoosePreserves ==
  ASSUME Inv, NEW e \in Episodes, Choose(e)
  PROVE  Inv' /\ Chosen
<1> DEFINE x == IF e \in panel.response.chosen THEN panel.response.chosen \ {e}
                ELSE panel.response.chosen \cup {e}
           r == [panel.response EXCEPT !.chosen = x]
<1>1. OnDevice BY DEF Choose, Idle
<1>2. Fits(panel) /\ ResponseShape(panel.response) /\ panel.response.saved = Saved(panel) BY <1>1, IdleFacts
<1>3. Press(Rendered([panel EXCEPT !.response = r])) BY DEF Choose
<1> HIDE DEF x
<1>4. ResponseShape(r) /\ r.saved = Saved(panel) BY <1>2, ChosenShape
<1> HIDE DEF r
<1> QED BY <1>3, <1>4, DrawPreserves

(* The issues selected are open ones. *)
LEMMA SelectedFacts ==
  ASSUME NEW p, Fits(p)
  PROVE  Selected(p) \subseteq Episodes
BY RelatedFacts DEF Selected

(* The form of a pause opens for the issues selected. *)
LEMMA PausePreserves ==
  ASSUME Inv, Pause
  PROVE  Inv' /\ Chosen
<1> DEFINE x == Selected(panel)
           r == [panel.response EXCEPT !.form = x]
<1>1. OnDevice BY DEF Pause, Idle
<1>2. Fits(panel) /\ ResponseShape(panel.response) /\ panel.response.saved = Saved(panel) BY <1>1, IdleFacts
<1>3. Press(Rendered([panel EXCEPT !.response = r])) BY DEF Pause
<1>4. x \subseteq Episodes BY <1>2, SelectedFacts
<1> HIDE DEF x
<1>5. ResponseShape(r) /\ r.saved = Saved(panel) BY <1>2, <1>4, FormShape
<1> HIDE DEF r
<1> QED BY <1>3, <1>5, DrawPreserves

(* And closes. *)
LEMMA CancelPausePreserves ==
  ASSUME Inv, CancelPause
  PROVE  Inv' /\ Chosen
<1> DEFINE r == [panel.response EXCEPT !.form = None]
<1>1. OnDevice BY DEF CancelPause, Idle
<1>2. Fits(panel) /\ ResponseShape(panel.response) /\ panel.response.saved = Saved(panel) BY <1>1, IdleFacts
<1>3. Press(Rendered([panel EXCEPT !.response = r])) BY DEF CancelPause
<1>4. ResponseShape(r) /\ r.saved = Saved(panel) BY <1>2, FormShape
<1> HIDE DEF r
<1> QED BY <1>3, <1>4, DrawPreserves

(* The issues of the click, captured. *)
LEMMA ApplyPreserves ==
  ASSUME Inv, NEW r, ResponseShape(r), r.saved \subseteq Saved(panel),
         NEW kind \in {"acknowledge", "shelve"}, NEW ids, ids \subseteq Episodes,
         Press(Apply([panel EXCEPT !.response = r], kind, ids))
  PROVE  Inv' /\ Chosen
<1> DEFINE p == [panel EXCEPT !.response = r]
           s == [r EXCEPT !.busy = TRUE]
           b == [panel EXCEPT !.response = s]
           d == Rendered(b)
           list == SetToSeq(ids)
           call == [slot |-> "response", n |-> r.n, kind |-> kind, captured |-> ids,
                    id |-> None, tried |-> {}, rest |-> list]
           q == Continue(d, call)
<1>1. /\ Fits(panel) /\ Awaits(panel) /\ panel.asks = <<>> /\ Mails(panel, server, down)
      /\ Claims(panel, server) BY DEF Inv
<1>2. p.response = r /\ [p EXCEPT !.response.busy = TRUE] = b BY Zenon, <1>1 DEF Fits, Fields
<1>3. Apply(p, kind, ids) = IF q.asks = <<>> THEN Ended(q, r.n) ELSE q BY <1>2 DEF Apply
<1>4. Acts(Apply(p, kind, ids), down) BY DEF Press
<1>5. list \in Seq(ids) BY PanelAssumption, FS_Subset, SetToSeqType
<1> HIDE DEF list
<1>6. CallFits(call) BY Zenon, <1>5 DEF CallFits
<1> HIDE DEF p, call
<1>7. ResponseShape(s) /\ s.saved = r.saved BY BusyShape
<1> HIDE DEF s
<1>8. Draws(panel, b) BY <1>1, <1>7, RespondDraws
<1> HIDE DEF b
<1>9. Fits(b) => Draws(b, d) BY RenderedDraws
<1>10. Draws(panel, d) BY <1>1, <1>8, <1>9, ThenDraws
<1> HIDE DEF d
<1>11. Fits(d) /\ Follow(panel, d) /\ d.asks = <<>> /\ Awaits(d)
 BY <1>1, <1>10 DEF Draws, Stays, Follow, Awaits, Current
<1>12. Mails(d, server, down) /\ Claims(d, server) BY <1>1, <1>11, MailsFollow, ClaimsFollow DEF Keeps
<1>13. q = d \/ q.asks # <<>>
 <2>1. \/ q = d
       \/ \E next : q = Ask(d, next) BY <1>6, <1>11, ContinueFacts
 <2>2. \A next : Ask(d, next).asks # <<>> BY <1>11 DEF Ask, Fits, Fields
 <2> QED BY <2>1, <2>2
<1>14. (q.asks = <<>> => Acts(Ended(d, r.n), down)) /\ (q.asks # <<>> => Acts(q, down))
 <2>1. Acts(IF q.asks = <<>> THEN Ended(q, r.n) ELSE q, down) BY Zenon, <1>3, <1>4, Zenon
 <2>2. q.asks = <<>> => q = d BY <1>13
 <2> HIDE DEF q
 <2> QED BY Zenon, <2>1, <2>2, Zenon
<1>15. q = Continue(d, call) OBVIOUS
<1> HIDE DEF q
<1> QED BY <1>6, <1>11, <1>12, <1>14, <1>15, ContinuePreserves

(* The issues selected are acknowledged one after the other. *)
LEMMA AcknowledgePreserves ==
  ASSUME Inv, Acknowledge
  PROVE  Inv' /\ Chosen
<1> DEFINE r == Response(panel)
           ids == Selected(panel)
<1>1. Fits(panel) BY DEF Inv
<1>2. Press(Apply([panel EXCEPT !.response = r], "acknowledge", ids)) BY DEF Acknowledge
<1>3. ResponseShape(r) /\ r.saved = Saved(panel) BY <1>1, ResponseStays DEF ResponseShape
<1>4. ids \subseteq Episodes BY <1>1, SelectedFacts
<1> HIDE DEF r, ids
<1> QED BY <1>2, <1>3, <1>4, ApplyPreserves

(* Those of the form are paused. *)
LEMMA ApplyPausePreserves ==
  ASSUME Inv, ApplyPause
  PROVE  Inv' /\ Chosen
<1> DEFINE r == panel.response
           ids == panel.response.form
<1>1. OnDevice /\ ids # None /\ Press(Apply(panel, "shelve", ids)) BY DEF ApplyPause, Idle
<1>2. ResponseShape(r) /\ r.saved = Saved(panel) /\ panel = [panel EXCEPT !.response = r] BY <1>1, IdleFacts
<1>3. ids \subseteq Episodes BY <1>1, <1>2 DEF ResponseShape
<1>4. Press(Apply([panel EXCEPT !.response = r], "shelve", ids)) BY Zenon, <1>1, <1>2, Zenon
<1> HIDE DEF r, ids
<1> QED BY <1>2, <1>3, <1>4, ApplyPreserves

(* One more issue is saved. *)
LEMMA NotedFacts ==
  ASSUME NEW p, Fits(p), p.response # None, NEW a
  PROVE  LET q == [p EXCEPT !.response.saved = @ \cup {a}]
         IN /\ Fits(q) /\ q.asks = p.asks /\ q.status = p.status /\ q.pending = p.pending
            /\ q.tool = p.tool /\ q.selections = p.selections /\ Saved(q) \subseteq Saved(p) \cup {a}
<1> DEFINE q == [p EXCEPT !.response.saved = @ \cup {a}]
           t == p.response
           u == [t EXCEPT !.saved = t.saved \cup {a}]
           D == {"n", "chosen", "busy", "form", "saved"}
<1>1. q = [p EXCEPT !.response = u] OBVIOUS
<1>2. ResponseShape(t) /\ DOMAIN t = D /\ t.saved = Saved(p) BY DEF Fits, ResponseFits, ResponseShape, Saved
<1>3. DOMAIN u = D /\ u = [y \in D |-> u[y]] /\ u.form = t.form /\ u.saved = t.saved \cup {a} BY <1>2
<1> HIDE DEF u
<1>4. u = [n |-> u.n, chosen |-> u.chosen, busy |-> u.busy, form |-> u.form, saved |-> u.saved] BY <1>3
<1>5. ResponseShape(u) BY <1>2, <1>3, <1>4 DEF ResponseShape
<1>6. Beside(p, q) /\ q.body = p.body /\ q.response = u /\ q.detail = p.detail /\ q.page = p.page
      /\ q.tool = p.tool BY <1>1 DEF Fits, Fields, Whole, Beside
<1> HIDE DEF q
<1>7. ResponseFits(q) BY <1>5, <1>6 DEF ResponseFits, ResponseShape
<1>8. DetailFits(q) /\ AsksFit(q) /\ ReportFits(q) /\ ToolFits(q)
 BY Zenon, <1>6 DEF Fits, Beside, DetailFits, AsksFit, ReportFits, ToolFits
<1>9. Fits(q) BY <1>6, <1>7, <1>8 DEF Fits, Beside, Whole
<1>10. Saved(q) \subseteq Saved(p) \cup {a} BY <1>2, <1>3, <1>6 DEF Saved
<1> QED BY <1>6, <1>9, <1>10 DEF q, Beside

(* The answer to one of the requests: saved for this issue, and the next. *)
LEMMA ResponseReplyPreserves ==
  ASSUME Inv, NEW i \in Ready, down[i].kind = "reply", down[i].call.slot = "response",
         Acts(ResponseReply(panel, down[i].call, down[i].answer), RemoveAt(down, i))
  PROVE  Inv' /\ Chosen
<1> DEFINE m == down[i]
           call == m.call
           rest == RemoveAt(down, i)
           mine == panel.response # None /\ panel.response.n = call.n
           added == [panel EXCEPT !.response.saved = @ \cup {<<call.kind, call.id>>}]
           noted == IF mine /\ m.answer.ok THEN added ELSE panel
           q == Continue(noted, call)
<1>1. /\ Fits(panel) /\ Awaits(panel) /\ panel.asks = <<>> /\ Mails(panel, server, down)
      /\ Claims(panel, server) /\ ServerFits(server) BY DEF Inv
<1>2. Mail(panel, server, m) /\ Sequence(rest) /\ Range(rest) \subseteq Range(down) BY ReadyFacts
<1>3. CallFits(call) /\ ((call.kind = "acknowledge" /\ m.answer.ok) => call.id \in server.acked)
 BY <1>2 DEF Mail, EventFits, ReadSlots
<1>4. Mails(panel, server, rest) BY <1>1, <1>2, MailsPart
<1>5. Acts(IF q.asks = <<>> THEN Ended(q, call.n) ELSE q, rest) BY DEF ResponseReply
<1> HIDE DEF call, rest
<1>6. Fits(noted) /\ noted.asks = <<>> /\ Awaits(noted) /\ Mails(noted, server, rest) /\ Claims(noted, server)
 <2>1. CASE mine /\ m.answer.ok
  <3> DEFINE a == <<call.kind, call.id>>
  <3>1. noted = added BY <2>1
  <3>2. a[1] = call.kind /\ a[2] = call.id OBVIOUS
  <3>3. added = [panel EXCEPT !.response.saved = @ \cup {a}] OBVIOUS
  <3> HIDE DEF a, added
  <3>4. /\ Fits(added) /\ added.asks = <<>> /\ added.status = panel.status /\ added.pending = panel.pending
        /\ added.tool = panel.tool /\ added.selections = panel.selections
        /\ Saved(added) \subseteq Saved(panel) \cup {a} BY ZenonT(40), <1>1, <2>1, <3>3, NotedFacts
  <3>5. Claims(added, server) BY <1>1, <1>3, <2>1, <3>2, <3>4 DEF Claims
  <3>6. panel.selections \in Nat BY <1>1 DEF Fits, ToolFits
  <3>7. Mails(added, server, rest) BY <1>4, <3>4, <3>6, MailsTool
  <3>8. Awaits(added) BY <1>1, <3>4 DEF Awaits, Current
  <3> QED BY <3>1, <3>4, <3>5, <3>7, <3>8
 <2>2. CASE ~(mine /\ m.answer.ok) BY <1>1, <1>4, <2>2
 <2> QED BY <2>1, <2>2
<1> HIDE DEF noted
<1>7. q = noted \/ q.asks # <<>>
 <2>1. \/ q = noted
       \/ \E next : q = Ask(noted, next) BY <1>3, <1>6, ContinueFacts
 <2>2. \A next : Ask(noted, next).asks # <<>> BY <1>6 DEF Ask, Fits, Fields
 <2> QED BY <2>1, <2>2
<1>8. (q.asks = <<>> => Acts(Ended(noted, call.n), rest)) /\ (q.asks # <<>> => Acts(q, rest))
 <2>1. q.asks = <<>> => q = noted BY <1>7
 <2> HIDE DEF q
 <2> QED BY Zenon, <1>5, <2>1, Zenon
<1>9. q = Continue(noted, call) OBVIOUS
<1> HIDE DEF q
<1> QED BY <1>2, <1>3, <1>6, <1>8, <1>9, ContinuePreserves

-----------------------------------------------------------------------------

(* Every state                                                             *)

(* The panel as it is opened fits. *)
LEMMA InitInv == ReadInit => Inv
<1> SUFFICES ASSUME ReadInit PROVE Inv OBVIOUS
<1> PICK pending : panel = Fresh(pending) BY DEF ReadInit
<1>1. /\ Whole(panel) /\ panel.status = "loading" /\ panel.data = None /\ panel.pane = None
      /\ panel.detail = None /\ panel.selections = 0 /\ panel.body = None
      /\ panel.report = None /\ panel.reportStatus = None /\ panel.members = None
      /\ panel.reportEpisode = None /\ panel.tool = None /\ panel.response = None
      /\ panel.asks = <<>>
 <2> DEFINE source == CHOOSE n \in Nodes : TRUE
            page == IF pending = None THEN "problems" ELSE PageOf(pending)
 <2>1. panel = [page |-> page, status |-> "loading", data |-> None, conn |-> 1,
        source |-> source, readings |-> 0, pane |-> None,
        sourceSequence |-> 0, sourceRequest |-> None, sourceRefreshPending |-> FALSE,
        detail |-> None, selections |-> 0, body |-> None,
        detailSequence |-> 0, detailRequest |-> None, detailRefreshPending |-> FALSE,
        report |-> None, reportStatus |-> None, members |-> None, reportEpisode |-> None,
        reportSequence |-> 0, reportRequest |-> None, pending |-> pending,
        tool |-> None, response |-> None, context |-> None, unread |-> None, asks |-> <<>>] BY DEF Fresh
 <2> HIDE DEF source, page
 <2> QED BY <2>1 DEF Whole, Fields
<1>2. Fits(panel)
 <2>1. AsksFit(panel) BY <1>1, NoneFacts DEF AsksFit, Sequence
 <2>2. ReportFits(panel) BY <1>1, PanelAssumption DEF ReportFits
 <2>3. PaneFits(panel.pane) /\ DetailFits(panel) /\ ResponseFits(panel) /\ ToolFits(panel)
  BY <1>1 DEF PaneFits, DetailFits, ResponseFits, ToolFits
 <2> QED BY <1>1, <2>1, <2>2, <2>3 DEF Fits, Whole
<1>3. ServerFits(server) BY PanelAssumption DEF ReadInit, ServerFits
<1>4. Mails(panel, server, down) BY <1>3, EventMails DEF ReadInit
<1>5. Claims(panel, server) /\ Awaits(panel) BY <1>1 DEF Claims, Saved, Awaits, Current
<1> QED BY <1>1, <1>2, <1>3, <1>4, <1>5 DEF Inv

(* Every step keeps the invariant, and asks for nothing that was not       *)
(* captured and is not open.                                               *)
LEMMA NextPreserves ==
  ASSUME Inv, Next
  PROVE  Inv' /\ Chosen
<1>1. CASE ReadNext BY <1>1, ReadNextPreserves
<1>2. CASE \E kind \in Kinds : OpenTool(kind) BY <1>2, OpenToolPreserves
<1>3. CASE CloseTool BY <1>3, CloseToolPreserves
<1>4. CASE Submit BY <1>4, SubmitPreserves
<1>5. CASE \E e \in Episodes : Choose(e) BY <1>5, ChoosePreserves
<1>6. CASE Acknowledge \/ ApplyPause BY <1>6, AcknowledgePreserves, ApplyPausePreserves
<1>7. CASE Pause \/ CancelPause BY <1>7, PausePreserves, CancelPausePreserves
<1>8. ASSUME NEW i \in Ready, DeliverAction(i) PROVE Inv' /\ Chosen
 BY ToolReplyPreserves, ResponseReplyPreserves, <1>8 DEF DeliverAction, Action
<1> QED BY <1>1, <1>2, <1>3, <1>4, <1>5, <1>6, <1>7, <1>8 DEF Next

(* So does a step of something else. *)
LEMMA StutterPreserves ==
  ASSUME Inv, UNCHANGED vars
  PROVE  Inv' /\ Chosen
BY DEF vars, Inv, Chosen

(* The panel, the server and the messages fit in every state. *)
THEOREM PanelInv == Spec => []Inv
<1>1. Inv /\ [Next]_vars => Inv' BY NextPreserves, StutterPreserves
<1> QED BY InitInv, <1>1, PTL DEF Spec

(* What the page shows is never mixed and never partial. *)
THEOREM ShownWhole == Spec => []ShownIsWhole
<1>1. Inv => ShownIsWhole
 <2> SUFFICES ASSUME Inv PROVE ShownIsWhole OBVIOUS
 <2>1. Fits(panel) BY DEF Inv
 <2>2. DetailIsSelected BY <2>1 DEF DetailIsSelected, Fits, DetailFits
 <2>3. panel.pane # None => Cardinality(panel.pane.pages) <= 1
  <3> SUFFICES ASSUME panel.pane # None PROVE Cardinality(panel.pane.pages) <= 1 OBVIOUS
  <3>1. PICK at : panel.pane.pages \subseteq {at} BY <2>1 DEF Fits, PaneFits
  <3>2. IsFiniteSet({at}) /\ Cardinality({at}) = 1 BY Zenon, FS_Singleton
  <3>3. Cardinality(panel.pane.pages) <= Cardinality({at}) BY <3>1, <3>2, FS_Subset
  <3> QED BY <3>2, <3>3
 <2> QED BY <2>1, <2>2, <2>3 DEF ShownIsWhole, PagesWhole, Fits, ReportFits
<1> QED BY <1>1, PanelInv, PTL

(* The panel claims an action saved only when the server has saved it. *)
THEOREM SavedIsConfirmed == Spec => []ConfirmedSaved
<1>1. Inv => ConfirmedSaved BY Zenon DEF Inv, Claims, ConfirmedSaved, Holds, Saved
<1> QED BY <1>1, PanelInv, PTL

(* Every request of a response acts on an issue captured and still open. *)
THEOREM NothingSubstituted == Spec => NeverSubstitutes
<1>1. Inv /\ [Next]_vars => [Chosen]_vars BY NextPreserves, StutterPreserves
<1>2. Spec => [][Chosen]_vars BY PanelInv, <1>1, PTL DEF Spec
<1> QED BY <1>2 DEF NeverSubstitutes, Chosen

-----------------------------------------------------------------------------

(* Reads that overlap (ReadsSettle)                                        *)

(* A sequence and its places. *)
LEMMA Places ==
  ASSUME NEW q, Sequence(q)
  PROVE  Len(q) \in Nat /\ DOMAIN q = 1..Len(q)
BY DEF Sequence

(* The requests of a fitting panel are a sequence. *)
LEMMA AsksSequence == \A p : Fits(p) => Sequence(p.asks)
BY DEF Fits, AsksFit, Sequence

(* A step that leaves the requests alone adds none. *)
LEMMA AddsNothing ==
  ASSUME NEW p, Fits(p), NEW q, q.asks = p.asks, NEW slots
  PROVE  Adds(p, q, slots)
BY AsksSequence, Places DEF Adds

(* What two steps add, one after the other. *)
LEMMA AddsThen ==
  ASSUME NEW p, NEW q, NEW r, NEW slots, Adds(p, q, slots), Adds(q, r, slots),
         q.conn = p.conn
  PROVE  Adds(p, r, slots)
<1>1. Len(p.asks) \in Nat /\ Len(q.asks) \in Nat /\ Len(r.asks) \in Nat BY Places DEF Adds
<1>2. \A i \in 1..Len(p.asks) : r.asks[i] = p.asks[i] BY <1>1 DEF Adds
<1>3. ASSUME NEW i \in 1..Len(r.asks), i > Len(p.asks)
      PROVE  r.asks[i].slot \in slots /\ (r.asks[i].slot = "report" \/ r.asks[i].conn = p.conn)
 BY <1>1, <1>3 DEF Adds
<1> QED BY <1>1, <1>2, <1>3 DEF Adds

(* What adds requests of some slots adds them of more slots. *)
LEMMA AddsMore ==
  ASSUME NEW p, NEW q, NEW slots, NEW more, slots \subseteq more, Adds(p, q, slots)
  PROVE  Adds(p, q, more)
BY DEF Adds

(* One request more. *)
LEMMA AddsOne ==
  ASSUME NEW p, Fits(p), NEW q, NEW call, NEW slots, call.slot \in slots, q.asks = Append(p.asks, call),
         call.slot = "report" \/ call.conn = p.conn
  PROVE  Adds(p, q, slots) /\ Range(q.asks) = Range(p.asks) \cup {call}
         /\ Len(q.asks) = Len(p.asks) + 1 /\ q.asks[Len(p.asks) + 1] = call
<1>1. p.asks \in Seq(Range(p.asks)) BY DEF Fits, AsksFit
<1>2. /\ Append(p.asks, call) \in Seq(Range(Append(p.asks, call)))
      /\ Range(Append(p.asks, call)) = Range(p.asks) \cup {call} BY <1>1, AppendFits
<1>3. Len(Append(p.asks, call)) = Len(p.asks) + 1 /\ Append(p.asks, call)[Len(p.asks) + 1] = call
      /\ \A i \in 1..Len(p.asks) : Append(p.asks, call)[i] = p.asks[i] BY <1>1
<1>4. Len(p.asks) \in Nat BY <1>1
<1> DEFINE a == Append(p.asks, call)
<1> HIDE DEF a
<1>5. q.asks = a BY DEF a
<1>6. a \in Seq(Range(a)) /\ Len(a) = Len(p.asks) + 1 /\ a[Len(p.asks) + 1] = call
      /\ (\A i \in 1..Len(p.asks) : a[i] = p.asks[i]) /\ Range(a) = Range(p.asks) \cup {call}
 BY <1>2, <1>3 DEF a
<1>7. ASSUME NEW i \in 1..Len(a), i > Len(p.asks)
      PROVE  a[i].slot \in slots /\ (a[i].slot = "report" \/ a[i].conn = p.conn) BY <1>4, <1>6, <1>7
<1> QED BY <1>1, <1>4, <1>5, <1>6, <1>7 DEF Adds, Sequence

(* The requests under way after what a step adds. *)
LEMMA UnderAdds ==
  ASSUME NEW p, NEW q, NEW slots, Adds(p, q, slots), NEW W
  PROVE  /\ Under(p, W) \subseteq Under(q, W)
         /\ \A call \in Under(q, W) : call \in Under(p, W) \/ call.slot \in slots
         /\ \A i \in DOMAIN q.asks : q.asks[i].slot \notin slots =>
              i \in DOMAIN p.asks /\ q.asks[i] = p.asks[i]
<1>1. /\ Len(p.asks) \in Nat /\ Len(q.asks) \in Nat
      /\ DOMAIN p.asks = 1..Len(p.asks) /\ DOMAIN q.asks = 1..Len(q.asks) BY Places DEF Adds
<1>2. ASSUME NEW i \in DOMAIN p.asks PROVE p.asks[i] \in Range(q.asks) BY <1>1 DEF Adds, Range
<1>3. ASSUME NEW i \in DOMAIN q.asks, q.asks[i].slot \notin slots
      PROVE  i \in DOMAIN p.asks /\ q.asks[i] = p.asks[i] BY <1>1, <1>3 DEF Adds
<1>4. ASSUME NEW i \in DOMAIN q.asks PROVE q.asks[i] \in Range(p.asks) \/ q.asks[i].slot \in slots
 BY <1>3 DEF Range
<1>5. Range(p.asks) \subseteq Range(q.asks) BY <1>2 DEF Range
<1>6. \A call \in Range(q.asks) : call \in Range(p.asks) \/ call.slot \in slots BY <1>4 DEF Range
<1> QED BY <1>3, <1>5, <1>6 DEF Under

(* What the source pane needs is kept by a step of another part. *)
LEMMA SourceFrame ==
  ASSUME NEW p, NEW W, SourceHolds(p, W), NEW q, SourceKept(p, q),
         NEW slots, Adds(p, q, slots), "source" \notin slots, "more" \notin slots
  PROVE  SourceHolds(q, W)
<1>1. PaneHolds(q) BY DEF SourceHolds, PaneHolds, SourceKept, Honest, Current
<1>2. \A call : OfSource(call) => call.slot \notin slots BY DEF OfSource
<1>3. \A call : Numbered(q, call) <=> Numbered(p, call) BY DEF Numbered, SourceKept
<1>4. \A call : Awaited(p, call) => Awaited(q, call) BY DEF Awaited, SourceKept, Own, Honest
<1>5. \A call \in Under(q, W) : OfSource(call) => call \in Under(p, W) BY <1>2, UnderAdds
<1>6. Under(p, W) \subseteq Under(q, W) BY UnderAdds
<1>7. \A i \in DOMAIN q.asks : Numbered(q, q.asks[i]) =>
        i \in DOMAIN p.asks /\ q.asks[i] = p.asks[i] /\ Numbered(p, p.asks[i])
 BY <1>2, <1>3, UnderAdds DEF Numbered
<1>8. \A call \in Under(q, W) : OfSource(call) => call.id \in Nat /\ call.id <= q.sourceSequence
 BY <1>5 DEF SourceHolds, SourceKept
<1>9. \A call \in Under(q, W) : Numbered(q, call) => Awaited(q, call)
 BY <1>3, <1>4, <1>5 DEF SourceHolds, Numbered
<1>10. q.sourceRequest # None => \E call \in Under(q, W) : Numbered(q, call)
 BY <1>3, <1>6 DEF SourceHolds, SourceKept
<1>11. \A i \in DOMAIN q.asks : Numbered(q, q.asks[i]) =>
         /\ \A call \in W : ~Numbered(q, call)
         /\ \A j \in DOMAIN q.asks : Numbered(q, q.asks[j]) => i = j BY <1>3, <1>7 DEF SourceHolds
<1> QED BY <1>1, <1>8, <1>9, <1>10, <1>11 DEF SourceHolds

(* No step at all is a step of the source, *)
LEMMA ForSourceNothing == \A p : Fits(p) => ForSource(p, p)
<1> TAKE p
<1> HAVE Fits(p)
<1>1. Adds(p, p, {"source", "more"}) BY AddsNothing
<1> QED BY <1>1 DEF ForSource, DetailKept, ReportKept

(* and two of them are one. *)
LEMMA ForSourceThen ==
  ASSUME NEW p, NEW q, NEW r, ForSource(p, q), ForSource(q, r)
  PROVE  ForSource(p, r)
BY AddsThen DEF ForSource, DetailKept, ReportKept

(* The weight counts at least the reads asked for. *)
LEMMA WeightType ==
  ASSUME NEW p, PaneHolds(p)
  PROVE  Weight(p) \in Nat /\ p.sourceSequence \in Nat /\ p.sourceSequence <= Weight(p)
BY DEF Weight, PaneHolds

(* loadSource: a read. *)
LEMMA StampType ==
  ASSUME NEW p, Timely(p), Current(p)
  PROVE  Stamp(p) \in Stamps /\ Stamp(p) # <<>> /\ Stamp(p)[1] = p.data.at
BY DEF Stamp, Timely, Stamps

(* What a new read of the source leaves in the panel, *)
LEMMA ReadingFields ==
  ASSUME NEW p, Fits(p), Timely(p), Current(p), PaneHolds(p)
  PROVE  /\ ForSource(p, Reading(p))
         /\ Reading(p).sourceSequence = p.sourceSequence + 1
         /\ Reading(p).sourceRefreshPending = p.sourceRefreshPending
         /\ Reading(p).sourceRequest = [slot |-> "source", id |-> p.sourceSequence + 1,
                                        node |-> p.source, stamp |-> Stamp(p)]
         /\ Reading(p).sourceRequest \in SourceRequests
         /\ Reading(p).pane \in Panes
         /\ Reading(p).pane.node = p.source /\ Reading(p).pane.loading = TRUE
         /\ Reading(p).pane.more = (Previous(p) # None /\ Previous(p).more)
         /\ Reading(p).pane.stamp = Stamp(p)
         /\ Reading(p).pane.pages = IF Previous(p) = None THEN {} ELSE Previous(p).pages
         /\ Reading(p).asks =
              Append(p.asks, [slot |-> "source", id |-> p.sourceSequence + 1, conn |-> p.conn, node |-> p.source,
                              at |-> p.data.at, stamp |-> Stamp(p), previous |-> Previous(p)])
<1> DEFINE old == Previous(p)
           call == [slot |-> "source", id |-> p.sourceSequence + 1, conn |-> p.conn, node |-> p.source,
                    at |-> p.data.at, stamp |-> Stamp(p), previous |-> old]
           pane == [node |-> p.source, stamp |-> Stamp(p), loading |-> TRUE,
                    pages |-> IF old = None THEN {} ELSE old.pages,
                    next |-> old # None /\ old.next,
                    more |-> old # None /\ old.more,
                    failed |-> old # None /\ old.failed]
           request == [slot |-> "source", id |-> p.sourceSequence + 1, node |-> p.source, stamp |-> Stamp(p)]
           r == [p EXCEPT !.sourceSequence = @ + 1, !.sourceRequest = request, !.pane = pane]
           q == Reading(p)
<1>1. q = Ask(r, call) BY DEF Reading
<1>2. Stamp(p) \in Stamps /\ p.source \in Nodes /\ p.sourceSequence \in Nat BY StampType DEF Timely, PaneHolds
<1>3. old # None => old \in Panes BY DEF Previous, PaneHolds
<1>4. pane \in Panes BY Zenon, <1>3, <1>2, Zenon DEF Panes
<1>5. request \in SourceRequests BY <1>2 DEF SourceRequests
<1>6. Fits(q) BY ReadingStays DEF Stays, Follow
<1>7. pane.node = p.source /\ pane.loading = TRUE /\ pane.more = (old # None /\ old.more)
      /\ pane.stamp = Stamp(p) /\ pane.pages = IF old = None THEN {} ELSE old.pages OBVIOUS
<1>8. call.slot = "source" /\ call.conn = p.conn OBVIOUS
<1> HIDE DEF pane, request, call
<1>a. /\ r.sourceSequence = p.sourceSequence + 1 /\ r.sourceRequest = request /\ r.pane = pane
      /\ r.asks = p.asks /\ r.sourceRefreshPending = p.sourceRefreshPending
      /\ DetailKept(p, r) /\ ReportKept(p, r)
      /\ r.page = p.page /\ r.source = p.source /\ r.readings = p.readings /\ DOMAIN r = Fields
 BY DEF Fits, Fields, DetailKept, ReportKept
<1> HIDE DEF r
<1>b. q = [r EXCEPT !.asks = Append(p.asks, call)] BY <1>1, <1>a DEF Ask
<1>9. /\ q.sourceSequence = p.sourceSequence + 1 /\ q.sourceRequest = request /\ q.pane = pane
      /\ q.asks = Append(p.asks, call) /\ q.sourceRefreshPending = p.sourceRefreshPending
      /\ DetailKept(p, q) /\ ReportKept(p, q)
      /\ q.page = p.page /\ q.source = p.source /\ q.readings = p.readings
 <2> HIDE DEF q
 <2> QED BY <1>a, <1>b DEF Fields, DetailKept, ReportKept
<1> HIDE DEF q
<1>10. Adds(p, q, {"source", "more"}) BY Zenon, <1>8, <1>9, AddsOne
<1>11. ForSource(p, q) BY <1>6, <1>9, <1>10 DEF ForSource
<1>12. q.pane \in Panes /\ q.sourceRequest \in SourceRequests BY <1>4, <1>5, <1>9
<1>13. /\ q.pane.node = p.source /\ q.pane.loading = TRUE
       /\ q.pane.more = (old # None /\ old.more) /\ q.pane.stamp = Stamp(p)
       /\ q.pane.pages = IF old = None THEN {} ELSE old.pages BY <1>7, <1>9
<1> QED BY <1>9, <1>11, <1>12, <1>13 DEF q, call, request

(* and what it asks for. *)
LEMMA ReadCallFields ==
  ASSUME NEW p
  PROVE  /\ ReadCall(p).slot = "source" /\ ReadCall(p).id = p.sourceSequence + 1
         /\ ReadCall(p).conn = p.conn /\ ReadCall(p).node = p.source
         /\ ReadCall(p).at = p.data.at /\ ReadCall(p).stamp = Stamp(p)
         /\ ReadCall(p).previous = Previous(p)
BY DEF ReadCall

(* A newer request is the only one of its number. *)
LEMMA NewestAlone ==
  ASSUME NEW p, Fits(p), NEW q, NEW call, NEW W, Newer(p, q, call, W)
  PROVE  /\ Under(q, W) = Under(p, W) \cup {call}
         /\ \A i \in DOMAIN q.asks : Numbered(q, q.asks[i]) =>
              /\ \A c \in W : ~Numbered(q, c)
              /\ \A j \in DOMAIN q.asks : Numbered(q, q.asks[j]) => i = j
<1> USE DEF Newer
<1>1. /\ Adds(p, q, {"source", "more"}) /\ Range(q.asks) = Range(p.asks) \cup {call}
      /\ Len(q.asks) = Len(p.asks) + 1 BY Zenon, AddsOne DEF OfSource
<1>2. Sequence(p.asks) /\ Sequence(q.asks) BY <1>1 DEF Adds
<1>3. Len(p.asks) \in Nat /\ DOMAIN p.asks = 1..Len(p.asks) /\ DOMAIN q.asks = 1..Len(q.asks) BY <1>2, Places
<1>4. ASSUME NEW i \in DOMAIN q.asks, Numbered(q, q.asks[i]) PROVE i = Len(p.asks) + 1
 BY <1>1, <1>3, <1>4 DEF Adds, Under, Range
<1> QED BY <1>1, <1>4 DEF Under

(* A read: one request more under way. *)
LEMMA ReadingHolds ==
  ASSUME NEW p, Fits(p), Timely(p), Current(p), NEW W, SourceHolds(p, W), p.sourceRequest = None
  PROVE  /\ SourceHolds(Reading(p), W)
         /\ Weight(Reading(p)) = Weight(p) + 1
         /\ Stamp(Reading(p)) = Stamp(p)
<1> DEFINE q == Reading(p)
           call == ReadCall(p)
<1>0. PaneHolds(p) BY DEF SourceHolds
<1>1. /\ ForSource(p, q)
      /\ q.sourceSequence = p.sourceSequence + 1
      /\ q.sourceRefreshPending = p.sourceRefreshPending
      /\ q.sourceRequest = [slot |-> "source", id |-> p.sourceSequence + 1,
                            node |-> p.source, stamp |-> Stamp(p)]
      /\ q.sourceRequest \in SourceRequests
      /\ q.pane \in Panes
      /\ q.pane.node = p.source /\ q.pane.loading = TRUE
      /\ q.pane.more = (Previous(p) # None /\ Previous(p).more)
      /\ q.pane.stamp = Stamp(p)
      /\ q.pane.pages = IF Previous(p) = None THEN {} ELSE Previous(p).pages
      /\ q.asks = Append(p.asks, call) BY Zenon, <1>0, ReadingFields DEF ReadCall
<1> HIDE DEF q, call
<1>2. /\ q.sourceRequest.slot = "source" /\ q.sourceRequest.id = q.sourceSequence
      /\ q.sourceRequest.node = p.source /\ q.sourceRequest.stamp = Stamp(p)
      /\ q.sourceRequest # None /\ q.pane # None BY <1>1, PanelAssumption
<1>3. /\ call.slot = "source" /\ call.id = p.sourceSequence + 1 /\ call.conn = p.conn /\ call.node = p.source
      /\ call.at = p.data.at /\ call.stamp = Stamp(p) /\ call.previous = Previous(p) BY ReadCallFields DEF call
<1>4. p.sourceSequence \in Nat /\ p.sourceRefreshPending = FALSE BY <1>0 DEF PaneHolds
<1>5. Current(q) /\ q.data = p.data /\ q.conn = p.conn BY <1>1 DEF ForSource, DetailKept, Current
<1>6. Previous(p) # None => /\ Previous(p) = p.pane /\ p.pane \in Panes /\ ~p.pane.loading /\ ~p.pane.more
                            /\ Honest(p, p.pane) BY <1>0 DEF Previous, PaneHolds
<1>7. PaneHolds(q)
 <2>1. ~q.pane.more BY Zenon, <1>1, <1>6
 <2>2. Honest(q, q.pane) BY <1>1 DEF Honest
 <2>3. q.sourceSequence \in Nat BY <1>1, <1>4
 <2>5. q.sourceRefreshPending = FALSE BY Zenon, <1>1, <1>4, Zenon
 <2>6. q.sourceRefreshPending \in BOOLEAN /\ ~q.sourceRefreshPending BY Zenon, <2>5
 <2>4. q.pane.loading /\ q.pane.node = q.sourceRequest.node /\ q.sourceRequest.slot # "more" BY <1>1, <1>2
 <2> QED BY <1>1, <1>2, <1>5, <2>1, <2>2, <2>3, <2>4, <2>6 DEF PaneHolds
<1>8. \A c \in Under(p, W) : OfSource(c) => c.id \in Nat /\ c.id <= p.sourceSequence BY DEF SourceHolds
<1>9. \A c \in Under(p, W) : ~Numbered(q, c) BY <1>1, <1>4, <1>8 DEF Numbered
<1>10. OfSource(call) /\ Numbered(q, call) /\ call.conn = p.conn BY <1>1, <1>3 DEF OfSource, Numbered
<1>11. /\ Under(q, W) = Under(p, W) \cup {call}
       /\ \A i \in DOMAIN q.asks : Numbered(q, q.asks[i]) =>
            /\ \A c \in W : ~Numbered(q, c)
            /\ \A j \in DOMAIN q.asks : Numbered(q, q.asks[j]) => i = j
 <2>1. q.asks = Append(p.asks, call) BY <1>1
 <2>2. Newer(p, q, call, W) BY <1>9, <1>10, <2>1 DEF Newer
 <2> QED BY <2>2, NewestAlone
<1>12. Awaited(q, call) BY <1>1, <1>2, <1>3, StampType, <1>5, <1>6 DEF Own, Timely, Honest, Awaited
<1>13. SourceHolds(q, W)
 <2>1. \A c \in Under(q, W) : OfSource(c) => c.id \in Nat /\ c.id <= q.sourceSequence
  BY <1>1, <1>3, <1>4, <1>8, <1>11
 <2>2. \A c \in Under(q, W) : Numbered(q, c) => Awaited(q, c) BY <1>9, <1>11, <1>12
 <2>3. \E c \in Under(q, W) : Numbered(q, c) BY <1>10, <1>11
 <2> QED BY <1>7, <1>11, <2>1, <2>2, <2>3 DEF SourceHolds
<1>14. Weight(q) = Weight(p) + 1 BY <1>1, <1>2, <1>4 DEF Weight
<1>15. Stamp(q) = Stamp(p) BY Zenon, <1>1, <1>2, <1>5, Zenon DEF Loaded, Previous, ForSource, Stamp
<1> QED BY <1>13, <1>14, <1>15 DEF q

(* What a refresh that waits changes, *)
LEMMA PendFields ==
  ASSUME NEW p, Fits(p), NEW waits
  PROVE  /\ ForSource(p, Pend(p, waits)) /\ Pend(p, waits).sourceRefreshPending = waits
         /\ Pend(p, waits).pane = p.pane /\ Pend(p, waits).sourceSequence = p.sourceSequence
         /\ Pend(p, waits).sourceRequest = p.sourceRequest /\ Pend(p, waits).asks = p.asks
<1> DEFINE q == Pend(p, waits)
<1>1. /\ q.sourceRefreshPending = waits
      /\ q.pane = p.pane /\ q.sourceSequence = p.sourceSequence
      /\ q.sourceRequest = p.sourceRequest /\ q.asks = p.asks
      /\ DetailKept(p, q) /\ ReportKept(p, q)
      /\ q.page = p.page /\ q.source = p.source /\ q.readings = p.readings
      /\ Whole(q) /\ Same(p, q) BY DEF Pend, Fits, Fields, DetailKept, ReportKept, Whole, Same
<1> HIDE DEF q
<1>2. Stays(p, q) BY <1>1, SameStays DEF Fits, AsksFit
<1>3. Adds(p, q, {"source", "more"}) BY <1>1, AddsNothing
<1> QED BY <1>1, <1>2, <1>3 DEF ForSource, Stays, Follow, q

(* and that the source pane has what it needs. *)
LEMMA PendHolds ==
  ASSUME NEW p, Fits(p), NEW W, SourceHolds(p, W), p.sourceRequest # None, NEW waits \in BOOLEAN
  PROVE  SourceHolds(Pend(p, waits), W)
<1> DEFINE q == Pend(p, waits)
<1>1. /\ ForSource(p, q) /\ q.sourceRefreshPending = waits
      /\ q.pane = p.pane /\ q.sourceSequence = p.sourceSequence
      /\ q.sourceRequest = p.sourceRequest /\ q.asks = p.asks BY PendFields
<1> HIDE DEF q
<1>2. PaneHolds(q) BY <1>1 DEF SourceHolds, PaneHolds, ForSource, DetailKept, Honest, Current
<1>3. \A call : Numbered(q, call) <=> Numbered(p, call) BY <1>1 DEF Numbered
<1>4. \A call : Awaited(p, call) => Awaited(q, call) BY <1>1 DEF Awaited, Own, Honest, ForSource, DetailKept
<1>5. Under(q, W) = Under(p, W) BY <1>1 DEF Under
<1> QED BY <1>1, <1>2, <1>3, <1>4, <1>5 DEF SourceHolds, q

(* A new read of the source asks for what is to be shown. *)
LEMMA ReadingExact ==
  ASSUME NEW p, Fits(p), Timely(p), Current(p), NEW W, SourceHolds(p, W), p.sourceRequest = None
  PROVE  Exact(Reading(p)) /\ Caught(Reading(p))
<1>1. Stamp(Reading(p)) = Stamp(p) BY ReadingHolds
<1>2. PaneHolds(p) BY DEF SourceHolds
<1>3. /\ Reading(p).sourceRequest = [slot |-> "source", id |-> p.sourceSequence + 1,
                                     node |-> p.source, stamp |-> Stamp(p)]
      /\ Reading(p).sourceRequest \in SourceRequests /\ Reading(p).source = p.source
 BY Zenon, <1>2, ReadingFields DEF ForSource
<1>4. Reading(p).sourceRequest # None /\ Reading(p).sourceRequest.node = p.source
      /\ Reading(p).sourceRequest.stamp = Stamp(p) /\ Reading(p).sourceRequest.slot = "source"
 BY <1>3, PanelAssumption
<1> QED BY <1>1, <1>3, <1>4 DEF Caught, Exact

(* loadSource does nothing, waits, or reads. *)
LEMMA LoadSourceCases ==
  ASSUME NEW p, NEW force
  PROVE  \/ (p.page # "sources" \/ ~Current(p)) /\ LoadSource(p, force) = p
         \/ /\ p.page = "sources" /\ Current(p) /\ p.sourceRequest # None
            /\ LoadSource(p, force) = Pend(p, Waits(p, force))
         \/ /\ p.page = "sources" /\ Current(p) /\ p.sourceRequest = None
            /\ ~force /\ p.pane # None /\ p.pane.node = p.source /\ p.pane.stamp = Stamp(p)
            /\ LoadSource(p, force) = p
         \/ /\ p.page = "sources" /\ Current(p) /\ p.sourceRequest = None
            /\ force \/ ~Exact(p)
            /\ LoadSource(p, force) = Reading(p)
BY DEF LoadSource, Pend, Waits, Exact

(* loadSource, for which the pane is or will be up to date. *)
LEMMA LoadSourceHolds ==
  ASSUME NEW p, Fits(p), Timely(p), NEW W, SourceHolds(p, W), NEW force \in BOOLEAN
  PROVE  Loads(p, LoadSource(p, force), W, 1) /\ Caught(LoadSource(p, force))
<1> DEFINE q == LoadSource(p, force)
           b == Waits(p, force)
<1>1. PaneHolds(p) BY DEF SourceHolds
<1>2. Weight(p) \in Nat /\ p.sourceSequence \in Nat BY <1>1, WeightType
<1>3. CASE (p.page # "sources" \/ ~Current(p)) /\ LoadSource(p, force) = p
 BY ForSourceNothing, <1>2, <1>3 DEF Loads, Caught
<1>4. CASE p.page = "sources" /\ Current(p) /\ p.sourceRequest # None /\ LoadSource(p, force) = Pend(p, b)
 <2>1. b \in BOOLEAN BY <1>1 DEF Waits, PaneHolds
 <2>2. /\ ForSource(p, Pend(p, b)) /\ Pend(p, b).sourceRefreshPending = b
       /\ Pend(p, b).pane = p.pane /\ Pend(p, b).sourceSequence = p.sourceSequence
       /\ Pend(p, b).sourceRequest = p.sourceRequest BY PendFields
 <2>3. SourceHolds(Pend(p, b), W) BY <1>4, <2>1, PendHolds
 <2>4. Weight(Pend(p, b)) <= Weight(p) + 1 BY <1>2, <2>2 DEF Weight
 <2>5. Stamp(Pend(p, b)) = Stamp(p) BY <2>2 DEF Stamp, Previous, ForSource, DetailKept
 <2>6. Caught(Pend(p, b))
  <3>1. b \/ (p.sourceRequest.node = p.source /\ p.sourceRequest.stamp = Stamp(p)) BY DEF Waits
  <3> HIDE DEF b
  <3> QED BY <1>4, <2>2, <2>5, <3>1 DEF Caught, ForSource
 <2> HIDE DEF b
 <2> QED BY <1>2, <1>4, <2>2, <2>3, <2>4, <2>6 DEF Loads
<1>5. CASE /\ p.page = "sources" /\ Current(p) /\ p.sourceRequest = None
           /\ p.pane # None /\ p.pane.node = p.source /\ p.pane.stamp = Stamp(p)
           /\ LoadSource(p, force) = p BY ForSourceNothing, <1>2, <1>5 DEF Loads, Caught
<1>6. CASE p.page = "sources" /\ Current(p) /\ p.sourceRequest = None /\ LoadSource(p, force) = Reading(p)
 <2>1. SourceHolds(Reading(p), W) /\ Weight(Reading(p)) = Weight(p) + 1 BY <1>6, ReadingHolds
 <2>2. ForSource(p, Reading(p)) /\ Reading(p).sourceSequence = p.sourceSequence + 1 BY Zenon, <1>1, <1>6, ReadingFields
 <2>3. Caught(Reading(p)) BY <1>6, ReadingExact
 <2> QED BY <1>2, <1>6, <2>1, <2>2, <2>3 DEF Loads
<1> HIDE DEF b
<1>7. LoadSource(p, force) = p \/ LoadSource(p, force) = Pend(p, b) \/ LoadSource(p, force) = Reading(p)
 BY LoadSourceCases DEF b
<1> QED BY <1>3, <1>4, <1>5, <1>6, LoadSourceCases DEF b

(* It costs nothing when the pane has what it is to show. *)
LEMMA LoadSourceFree ==
  ASSUME NEW p, Fits(p), NEW W, SourceHolds(p, W), Exact(p)
  PROVE  Weight(LoadSource(p, FALSE)) = Weight(p)
<1> DEFINE b == Waits(p, FALSE)
<1>1. PaneHolds(p) BY DEF SourceHolds
<1>2. Weight(p) \in Nat /\ p.sourceSequence \in Nat BY <1>1, WeightType
<1>3. CASE p.sourceRequest # None /\ LoadSource(p, FALSE) = Pend(p, b)
 <2>1. b <=> p.sourceRefreshPending BY <1>3 DEF Waits, Exact
 <2>2. /\ Pend(p, b).sourceRefreshPending = b
       /\ Pend(p, b).sourceSequence = p.sourceSequence
       /\ Pend(p, b).sourceRequest = p.sourceRequest BY Zenon, PendFields
 <2> HIDE DEF b
 <2>3. (IF Pend(p, b).sourceRefreshPending THEN 1 ELSE 0) = IF p.sourceRefreshPending THEN 1 ELSE 0
  BY <2>1, <2>2
 <2> QED BY Zenon, <1>2, <1>3, <2>2, <2>3 DEF Weight
<1>4. CASE LoadSource(p, FALSE) = p BY Zenon, <1>4
<1> HIDE DEF b
<1> QED BY Zenon, <1>3, <1>4, LoadSourceCases DEF b

(* What the end of a request changes, *)
LEMMA ClearedFields ==
  ASSUME NEW p, Fits(p), NEW x, PaneFits(x)
  PROVE  /\ ForSource(p, Cleared(p, x)) /\ Cleared(p, x).pane = x
         /\ Free(Cleared(p, x))
         /\ Cleared(p, x).sourceSequence = p.sourceSequence /\ Cleared(p, x).asks = p.asks
<1> DEFINE q == Cleared(p, x)
<1>1. /\ q.pane = x /\ q.sourceSequence = p.sourceSequence /\ q.sourceRefreshPending = FALSE
      /\ q.sourceRequest = None /\ q.asks = p.asks
      /\ DetailKept(p, q) /\ ReportKept(p, q)
      /\ q.page = p.page /\ q.source = p.source /\ q.readings = p.readings
      /\ Whole(q) /\ Same(p, q) BY ZenonT(40) DEF Cleared, Fits, Fields, DetailKept, ReportKept, Whole, Same
<1> HIDE DEF q
<1>2. Stays(p, q) BY <1>1, SameStays DEF Fits, AsksFit
<1>3. Adds(p, q, {"source", "more"}) BY <1>1, AddsNothing
<1> QED BY <1>1, <1>2, <1>3 DEF ForSource, Stays, Follow, Free, q

(* and that the source pane has what it needs. *)
LEMMA ClearedHolds ==
  ASSUME NEW p, Fits(p), NEW W, NEW call, SourceHolds(p, W \cup {call}), Numbered(p, call),
         Final(p, call, W), NEW x, PaneFits(x), Rests(p, x)
  PROVE  SourceHolds(Cleared(p, x), W) /\ Weight(Cleared(p, x)) = p.sourceSequence /\ Current(p)
<1> DEFINE q == Cleared(p, x)
<1>1. /\ ForSource(p, q) /\ q.pane = x
      /\ Free(q)
      /\ q.sourceSequence = p.sourceSequence /\ q.asks = p.asks BY ClearedFields
<1> HIDE DEF q
<1>2. PaneHolds(p) /\ p.asks = <<>> BY DEF SourceHolds, Final
<1>3. Range(p.asks) = {} BY <1>2, NoneFacts
<1>4. call \in Under(p, W \cup {call}) /\ Under(q, W) = W /\ W \subseteq Under(p, W \cup {call})
 BY <1>1, <1>3 DEF Under
<1>5. Own(p, call) BY Zenon, <1>4 DEF SourceHolds, Awaited
<1>6. Current(p) BY <1>2, <1>5 DEF Own, PaneHolds
<1>7. Current(q) /\ q.data = p.data BY <1>1, <1>6 DEF ForSource, DetailKept, Current
<1>8. Honest(p, x) => Honest(q, x) BY <1>7 DEF Honest
<1>9. PaneHolds(q) BY Zenon, <1>1, <1>2, <1>7, <1>8 DEF Free, PaneHolds, Rests
<1>10. \A c \in W : ~Numbered(q, c) BY <1>1 DEF Final, Numbered
<1>11. \A c \in Under(q, W) : OfSource(c) => c.id \in Nat /\ c.id <= q.sourceSequence
 BY Zenon, <1>1, <1>4 DEF SourceHolds
<1>12. DOMAIN q.asks = {} BY <1>1, <1>2
<1>13. SourceHolds(q, W) BY <1>1, <1>4, <1>9, <1>10, <1>11, <1>12 DEF SourceHolds, Free
<1>14. Weight(q) = p.sourceSequence BY <1>1, <1>2 DEF Weight, PaneHolds, Free
<1> QED BY <1>6, <1>13, <1>14 DEF q

(* A step of the source keeps the evidence and the selection. *)
LEMMA TimelyFor ==
  ASSUME NEW p, NEW q, Timely(p), ForSource(p, q)
  PROVE  Timely(q)
BY DEF Timely, ForSource, DetailKept, Current

(* The finally block, as it is of the request that is over. *)
LEMMA DoneIsOver ==
  ASSUME NEW p, Fits(p), NEW call, Own(p, call), NEW x
  PROVE  SourceDone([p EXCEPT !.pane = x], call) = Over(p, x)
<1> DEFINE r == [p EXCEPT !.pane = x]
<1>1. r.sourceRequest = p.sourceRequest /\ r.sourceRefreshPending = p.sourceRefreshPending BY DEF Fits, Fields
<1>2. [r EXCEPT !.sourceRequest = None, !.sourceRefreshPending = FALSE] = Cleared(p, x)
 BY DEF Cleared, Fits, Fields
<1> HIDE DEF r
<1>3. SourceDone(r, call) = Over(p, x) BY Zenon, <1>1, <1>2 DEF SourceDone, Own, Over
<1> QED BY <1>3 DEF r

(* The refresh that waited begins, if the page is still on display. *)
LEMMA OverHolds ==
  ASSUME NEW p, Fits(p), Timely(p), NEW W, NEW call, SourceHolds(p, W \cup {call}), Numbered(p, call),
         Final(p, call, W), NEW x, PaneFits(x), Rests(p, x)
  PROVE  /\ ForSource(p, Over(p, x)) /\ SourceHolds(Over(p, x), W) /\ Timely(Over(p, x))
         /\ p.sourceSequence <= Over(p, x).sourceSequence
         /\ Weight(Over(p, x)) <= p.sourceSequence + (IF p.sourceRefreshPending THEN 1 ELSE 0)
         /\ p.sourceRefreshPending => Caught(Over(p, x)) /\ (p.page = "sources" => Exact(Over(p, x)))
         /\ ~p.sourceRefreshPending => Over(p, x) = Cleared(p, x)
<1> DEFINE q == Cleared(p, x)
<1>1. ForSource(p, q) /\ Free(q) /\ q.sourceSequence = p.sourceSequence BY ClearedFields
<1>2. SourceHolds(q, W) /\ Weight(q) = p.sourceSequence /\ Current(p) BY ClearedHolds
<1>3. Timely(q) /\ Fits(q) /\ p.sourceSequence \in Nat BY <1>1, TimelyFor DEF ForSource, SourceHolds, PaneHolds
<1> HIDE DEF q
<1>4. CASE ~p.sourceRefreshPending BY <1>4, <1>1, <1>2, <1>3 DEF Over, q
<1>5. CASE p.sourceRefreshPending
 <2>1. Over(p, x) = LoadSource(q, TRUE) BY <1>5 DEF Over, q
 <2>2. Loads(q, LoadSource(q, TRUE), W, 1) /\ Caught(LoadSource(q, TRUE)) BY Zenon, <1>2, <1>3, LoadSourceHolds
 <2>3. ForSource(p, LoadSource(q, TRUE)) BY Zenon, <1>1, <2>2, ForSourceThen DEF Loads
 <2>4. Timely(LoadSource(q, TRUE)) BY Zenon, <2>3, TimelyFor
 <2>5. p.page = "sources" => Exact(LoadSource(q, TRUE))
  <3>1. Current(q) /\ q.page = p.page BY <1>1, <1>2 DEF ForSource, DetailKept, Current
  <3>2. p.page = "sources" => LoadSource(q, TRUE) = Reading(q) BY Zenon, <1>1, <3>1, LoadSourceCases DEF Free
  <3> QED BY Zenon, <1>1, <1>2, <1>3, <3>1, <3>2, ReadingExact DEF Free
 <2>6. /\ SourceHolds(LoadSource(q, TRUE), W) /\ p.sourceSequence <= LoadSource(q, TRUE).sourceSequence
       /\ Weight(LoadSource(q, TRUE)) <= p.sourceSequence + 1 BY Zenon, <1>1, <1>2, <2>2 DEF Loads
 <2> QED BY Zenon, <1>5, <2>1, <2>2, <2>3, <2>4, <2>5, <2>6
<1> QED BY <1>4, <1>5

(* An answer of which nothing waits is only dropped. *)
LEMMA DroppedHolds ==
  ASSUME NEW p, NEW W, NEW call, SourceHolds(p, W \cup {call}), ~Numbered(p, call)
  PROVE  SourceHolds(p, W)
<1>1. \A c \in Under(p, W \cup {call}) : c \in Under(p, W) \/ c = call BY DEF Under
<1>2. \A c \in Under(p, W) : c \in Under(p, W \cup {call}) BY DEF Under
<1>3. \A c \in W : c \in W \cup {call} OBVIOUS
<1> QED BY Zenon, <1>1, <1>2, <1>3 DEF SourceHolds

(* The answer awaited, and what is awaited. *)
LEMMA AwaitedFacts ==
  ASSUME NEW p, NEW W, NEW call, SourceHolds(p, W \cup {call}), Numbered(p, call)
  PROVE  /\ Awaited(p, call) /\ Own(p, call) /\ p.sourceRequest # None /\ Current(p)
         /\ p.sourceRequest.slot = call.slot /\ p.pane # None /\ p.pane \in Panes
         /\ p.sourceRequest \in SourceRequests /\ p.sourceSequence \in Nat
         /\ p.sourceRefreshPending \in BOOLEAN
BY DEF Under, SourceHolds, PaneHolds, Awaited, Own

(* The pane an answer leaves is a pane to be left with, *)
LEMMA ReadRests ==
  ASSUME NEW p, Timely(p), NEW W, NEW call, SourceHolds(p, W \cup {call}), Numbered(p, call), call.slot = "source",
         NEW answer, Prompt(p, call, answer)
  PROVE  PaneFits(PaneRead(p, call, answer)) /\ Rests(p, PaneRead(p, call, answer)) /\ PaneRead(p, call, answer) # None
<1>1. /\ Awaited(p, call) /\ Own(p, call) /\ p.sourceRequest # None /\ Current(p)
      /\ p.sourceRequest \in SourceRequests BY AwaitedFacts
<1>2. /\ call.node = p.sourceRequest.node /\ call.stamp = p.sourceRequest.stamp
      /\ call.at = call.stamp[1] /\ call.at \in Nat /\ call.at <= p.data.at /\ call.stamp # <<>>
      /\ call.conn = p.conn BY <1>1 DEF Awaited
<1>3. call.node \in Nodes /\ call.stamp \in Stamps BY <1>1, <1>2 DEF SourceRequests
<1>4. answer.at \in Nat /\ answer.at = p.data.at BY <1>2 DEF Prompt
<1> DEFINE x == PaneRead(p, call, answer)
           stamp == <<call.at, p.readings>>
<1>5. stamp \in Stamps /\ stamp[1] = call.at BY <1>2 DEF Timely, Stamps
<1> HIDE DEF stamp
<1>6. CASE answer.ok
 <2>1. x = [node |-> call.node, stamp |-> stamp, loading |-> FALSE,
            pages |-> {answer.at}, next |-> TRUE, more |-> FALSE, failed |-> FALSE] BY <1>6 DEF PaneRead, stamp
 <2> HIDE DEF x
 <2>2. x \in Panes BY <1>3, <1>4, <1>5, <2>1 DEF Panes
 <2>3. Honest(p, x) BY <1>2, <1>4, <1>5, <2>1 DEF Honest
 <2>4. PaneFits(x) BY <2>1 DEF PaneFits
 <2>5. x # None BY <2>2, PanelAssumption
 <2>6. ~x.loading /\ ~x.more BY <2>1
 <2>7. Rests(p, x) BY <2>2, <2>3, <2>6 DEF Rests
 <2> QED BY <2>4, <2>5, <2>7 DEF x
<1>7. CASE ~answer.ok
 <2>1. x = [node |-> call.node, stamp |-> call.stamp, loading |-> FALSE,
            pages |-> {}, next |-> FALSE, more |-> FALSE, failed |-> TRUE] BY <1>7 DEF PaneRead
 <2> HIDE DEF x
 <2>2. x \in Panes BY <1>3, <2>1 DEF Panes
 <2>3. Honest(p, x) BY <1>2, <2>1 DEF Honest
 <2>4. PaneFits(x) BY <2>1 DEF PaneFits
 <2>5. x # None BY <2>2, PanelAssumption
 <2>6. ~x.loading /\ ~x.more BY <2>1
 <2>7. Rests(p, x) BY <2>2, <2>3, <2>6 DEF Rests
 <2> QED BY <2>4, <2>5, <2>7 DEF x
<1> QED BY <1>6, <1>7

(* What it shows is exact, unless a refresh is waiting. *)
LEMMA ReadExact ==
  ASSUME NEW p, Fits(p), Timely(p), NEW W, NEW call, SourceHolds(p, W \cup {call}), Numbered(p, call),
         call.slot = "source", NEW answer, answer.ok, Prompt(p, call, answer), Caught(p), p.page = "sources",
         ~p.sourceRefreshPending
  PROVE  Exact(Cleared(p, PaneRead(p, call, answer)))
<1> DEFINE x == PaneRead(p, call, answer)
           q == Cleared(p, x)
           stamp == <<call.at, p.readings>>
<1>1. /\ Awaited(p, call) /\ Own(p, call) /\ p.sourceRequest # None /\ Current(p)
      /\ p.sourceRequest.slot = "source" BY AwaitedFacts
<1>2. p.sourceRequest.node = p.source /\ p.sourceRequest.stamp = Stamp(p) BY <1>1 DEF Caught
<1>3. call.node = p.source /\ call.at = p.data.at BY <1>1, <1>2, StampType DEF Awaited
<1>4. PaneFits(x) /\ x # None BY Zenon, ReadRests
<1>5. x.node = p.source /\ x.stamp = stamp /\ x.pages # {} BY <1>3 DEF PaneRead
<1> HIDE DEF x
<1>6. ForSource(p, q) /\ q.pane = x /\ Free(q) BY <1>4, ClearedFields
<1> HIDE DEF q
<1>7. q.source = p.source /\ q.readings = p.readings /\ q.data = p.data BY <1>6 DEF ForSource, DetailKept
<1>8. Loaded(Previous(q)) BY <1>4, <1>5, <1>6, <1>7 DEF Loaded, Previous
<1>9. Stamp(q) = stamp BY <1>3, <1>7, <1>8 DEF Stamp
<1>10. q.pane # None /\ q.pane.node = q.source /\ q.pane.stamp = Stamp(q) /\ q.sourceRequest = None
 BY <1>4, <1>5, <1>6, <1>7, <1>9 DEF Free
<1> QED BY <1>10 DEF Exact, q, x

(* loadSource, when the answer comes. *)
LEMMA SourceReplyHolds ==
  ASSUME NEW p, Fits(p), Timely(p), NEW W, NEW call, SourceHolds(p, W \cup {call}), Final(p, call, W),
         call.slot = "source", PaneFits(call.previous), NEW answer, Prompt(p, call, answer), Caught(p)
  PROVE  /\ Loads(p, SourceReply(p, call, answer), W, IF Numbered(p, call) /\ ~answer.ok THEN 1 ELSE 0)
         /\ Caught(SourceReply(p, call, answer))
<1> DEFINE q == SourceReply(p, call, answer)
<1>0. PaneHolds(p) BY DEF SourceHolds
<1>1. Weight(p) \in Nat /\ p.sourceSequence \in Nat /\ p.sourceSequence <= Weight(p) BY <1>0, WeightType
<1>2. CASE ~Numbered(p, call)
 <2>1. ~Own(p, call) BY <1>0, <1>2 DEF Own, PaneHolds, Numbered, OfSource
 <2>2. ~SourceCurrent(p, call) BY <1>2 DEF SourceCurrent, Numbered, OfSource
 <2>3. q = p BY <2>1, <2>2 DEF SourceReply, SourceDone
 <2>4. SourceHolds(p, W) /\ ForSource(p, p) BY <1>2, DroppedHolds, ForSourceNothing
 <2> HIDE DEF q
 <2>5. Loads(p, p, W, 0) BY <1>1, <2>4 DEF Loads
 <2> QED BY <1>2, <2>3, <2>5 DEF q
<1>3. CASE Numbered(p, call)
 <2>1. /\ Awaited(p, call) /\ Own(p, call) /\ p.sourceRequest # None /\ Current(p)
       /\ p.sourceRequest.slot = "source" /\ p.pane # None /\ p.sourceRefreshPending \in BOOLEAN
  BY <1>3, AwaitedFacts
 <2>2. Weight(p) = p.sourceSequence + (IF p.sourceRefreshPending THEN 1 ELSE 0) BY <1>1, <2>1 DEF Weight
 <2>3. CASE SourceCurrent(p, call)
  <3> DEFINE x == PaneRead(p, call, answer)
             o == Over(p, x)
  <3>1. PaneFits(x) /\ Rests(p, x) BY Zenon, <1>3, ReadRests
  <3>2. q = LoadSource(SourceDone([p EXCEPT !.pane = x], call), FALSE) BY <2>3 DEF SourceReply, PaneRead
  <3> HIDE DEF x, q
  <3>3. q = LoadSource(o, FALSE) BY Zenon, <2>1, <3>2, DoneIsOver
  <3>4. /\ ForSource(p, o) /\ SourceHolds(o, W) /\ Timely(o)
        /\ p.sourceSequence <= o.sourceSequence
        /\ Weight(o) <= p.sourceSequence + (IF p.sourceRefreshPending THEN 1 ELSE 0)
        /\ p.sourceRefreshPending => (p.page = "sources" => Exact(o))
        /\ ~p.sourceRefreshPending => o = Cleared(p, x) BY <1>3, <3>1, OverHolds
  <3>5. p.page = "sources" BY <2>3 DEF SourceCurrent
  <3>6. answer.ok => Exact(o) BY Zenon, <1>3, <3>4, <3>5, ReadExact DEF x
  <3> HIDE DEF o
  <3>7. Fits(o) BY <3>4 DEF ForSource
  <3> DEFINE l == LoadSource(o, FALSE)
  <3>8. Loads(o, l, W, 1) /\ Caught(l) BY Zenon, <3>4, <3>7, LoadSourceHolds
  <3>9. answer.ok => Weight(l) = Weight(o) BY Zenon, <3>4, <3>6, <3>7, LoadSourceFree DEF l
  <3> HIDE DEF l
  <3>10. ForSource(p, l) /\ SourceHolds(l, W) /\ p.sourceSequence <= l.sourceSequence
   BY <3>4, <3>8, ForSourceThen, <1>1 DEF Loads, SourceHolds, PaneHolds
  <3>11. Weight(o) \in Nat /\ Weight(l) \in Nat BY <3>4, <3>8, WeightType DEF Loads, SourceHolds
  <3>12. Weight(l) <= Weight(p) + (IF ~answer.ok THEN 1 ELSE 0) BY <1>1, <2>2, <3>4, <3>8, <3>9, <3>11 DEF Loads
  <3>13. (IF Numbered(p, call) /\ ~answer.ok THEN 1 ELSE 0) = IF ~answer.ok THEN 1 ELSE 0 BY <1>3
  <3> QED BY Zenon, <3>3, <3>8, <3>10, <3>12, <3>13 DEF Loads, q, l
 <2>4. CASE ~SourceCurrent(p, call)
  <3> DEFINE o == Over(p, call.previous)
  <3>1. p.pane.loading /\ p.pane.node = call.node BY <1>0, <2>1 DEF PaneHolds, Awaited
  <3>2. q = SourceDone([p EXCEPT !.pane = call.previous], call) BY <2>1, <2>4, <3>1 DEF SourceReply
  <3> HIDE DEF q
  <3>3. q = o BY <2>1, <3>2, DoneIsOver
  <3>4. Rests(p, call.previous) BY <2>1 DEF Awaited, Rests
  <3>5. /\ ForSource(p, o) /\ SourceHolds(o, W)
        /\ p.sourceSequence <= o.sourceSequence
        /\ Weight(o) <= p.sourceSequence + (IF p.sourceRefreshPending THEN 1 ELSE 0)
        /\ p.sourceRefreshPending => Caught(o) BY <1>3, <3>4, OverHolds
  <3>6. ~p.sourceRefreshPending => p.page # "sources"
   BY <1>3, <2>1, <2>4 DEF SourceCurrent, Numbered, Awaited, Caught
  <3> HIDE DEF o
  <3>7. Caught(o) BY <3>5, <3>6 DEF Caught, ForSource
  <3>8. Weight(o) \in Nat BY <3>5, WeightType DEF SourceHolds
  <3>9. Weight(o) <= Weight(p) + (IF Numbered(p, call) /\ ~answer.ok THEN 1 ELSE 0) BY <1>1, <2>2, <3>5, <3>8
  <3> QED BY <3>3, <3>5, <3>7, <3>9 DEF Loads, q
 <2> QED BY <2>3, <2>4
<1> QED BY <1>2, <1>3

(* The request is over, and the pane is loaded if it must be. *)
LEMMA AgainHolds ==
  ASSUME NEW p, Fits(p), Timely(p), NEW W, NEW call, SourceHolds(p, W \cup {call}), Numbered(p, call),
         Final(p, call, W), NEW x, PaneFits(x), Rests(p, x)
  PROVE  /\ ForSource(p, LoadSource(Over(p, x), FALSE)) /\ SourceHolds(LoadSource(Over(p, x), FALSE), W)
         /\ p.sourceSequence <= LoadSource(Over(p, x), FALSE).sourceSequence
         /\ Weight(LoadSource(Over(p, x), FALSE))
              <= p.sourceSequence + (IF p.sourceRefreshPending THEN 1 ELSE 0) + 1
         /\ Caught(LoadSource(Over(p, x), FALSE))
<1> DEFINE o == Over(p, x)
<1>1. /\ ForSource(p, o) /\ SourceHolds(o, W) /\ Timely(o)
      /\ p.sourceSequence <= o.sourceSequence
      /\ Weight(o) <= p.sourceSequence + (IF p.sourceRefreshPending THEN 1 ELSE 0) BY OverHolds
<1>2. p.sourceSequence \in Nat /\ p.sourceRefreshPending \in BOOLEAN BY AwaitedFacts
<1> HIDE DEF o
<1> DEFINE l == LoadSource(o, FALSE)
<1>3. Fits(o) BY <1>1 DEF ForSource
<1>4. Loads(o, l, W, 1) /\ Caught(l) BY Zenon, <1>1, <1>3, LoadSourceHolds
<1> HIDE DEF l
<1>5. ForSource(p, l) BY <1>1, <1>4, ForSourceThen DEF Loads
<1>6. o.sourceSequence \in Nat /\ l.sourceSequence \in Nat BY <1>1, <1>4 DEF Loads, SourceHolds, PaneHolds
<1>7. Weight(o) \in Nat /\ Weight(l) \in Nat BY <1>1, <1>4, WeightType DEF Loads, SourceHolds
<1>8. Weight(l) <= p.sourceSequence + (IF p.sourceRefreshPending THEN 1 ELSE 0) + 1
 BY <1>1, <1>2, <1>4, <1>7 DEF Loads
<1>9. p.sourceSequence <= l.sourceSequence BY <1>1, <1>2, <1>4, <1>6 DEF Loads
<1> QED BY Zenon, <1>4, <1>5, <1>8, <1>9 DEF Loads, o, l

(* and so is the one an answer of loadSourceMore leaves. *)
LEMMA UnmoreRests ==
  ASSUME NEW p, Fits(p), Timely(p), NEW W, NEW call, SourceHolds(p, W \cup {call}), Numbered(p, call),
         call.slot = "more"
  PROVE  /\ PaneFits(Unmore(p)) /\ Rests(p, Unmore(p))
         /\ (call.at = p.data.at /\ p.pane.pages = {call.at}) =>
              PaneFits(Complete(p, call)) /\ Rests(p, Complete(p, call))
<1> DEFINE x == Unmore(p)
           y == Complete(p, call)
           stamp == <<call.at, p.readings>>
<1>1. /\ Current(p) /\ p.sourceRequest.slot = "more" /\ p.pane # None /\ p.pane \in Panes
      /\ p.sourceRequest # None BY AwaitedFacts
<1>2. ~p.pane.loading /\ Honest(p, p.pane) /\ PaneFits(p.pane) BY <1>1 DEF SourceHolds, PaneHolds, Fits
<1>3. /\ x \in Panes /\ x.more = FALSE /\ x.loading = p.pane.loading /\ x.stamp = p.pane.stamp
      /\ x.pages = p.pane.pages /\ x.failed = p.pane.failed BY Zenon, <1>1 DEF Unmore, Panes
<1>4. stamp \in Stamps =>
        /\ y \in Panes /\ y.more = FALSE /\ y.loading = p.pane.loading /\ y.stamp = stamp
        /\ y.pages = p.pane.pages
 <2> HIDE DEF stamp
 <2>1. y = [p.pane EXCEPT !.more = FALSE, !.next = FALSE, !.stamp = stamp] BY DEF Complete, stamp
 <2> HIDE DEF y
 <2> QED BY Zenon, <1>1, <2>1 DEF Panes
<1>5. \A z \in Panes : z.pages = p.pane.pages => PaneFits(z) BY <1>1, <1>2 DEF PaneFits, Panes
<1> HIDE DEF x, y
<1>6. PaneFits(x) /\ x \in Panes /\ ~x.loading /\ ~x.more /\ Honest(p, x) BY <1>3, <1>5, <1>2 DEF Honest
<1>7. ASSUME call.at = p.data.at, p.pane.pages = {call.at}
      PROVE  PaneFits(y) /\ y \in Panes /\ ~y.loading /\ ~y.more /\ Honest(p, y)
 <2>2. call.at \in Nat BY <1>1, <1>7 DEF Timely
 <2>3. stamp \in Stamps /\ stamp[1] = call.at BY <2>2 DEF Timely, Stamps
 <2> HIDE DEF stamp
 <2>1. PaneFits(y) BY <1>4, <1>5, <2>3
 <2>5. y.pages = {p.data.at} /\ y.stamp[1] = call.at /\ call.at <= p.data.at BY <1>4, <1>7, <2>2, <2>3
 <2>6. Honest(p, y) BY <2>2, <2>5 DEF Honest
 <2>7. ~y.loading /\ ~y.more BY <1>2, <1>4, <2>3
 <2> QED BY <1>4, <2>1, <2>3, <2>6, <2>7
<1> QED BY <1>6, <1>7 DEF Rests, x, y

(* What the answer for more rows does. *)
LEMMA MoreReplyCases ==
  ASSUME NEW p, Fits(p), NEW call, Own(p, call), call.id = p.sourceSequence, p.pane # None, Current(p),
         NEW answer
  PROVE  \/ MoreReply(p, call, answer) = LoadSource(Over(p, Unmore(p)), FALSE)
         \/ p.page = "sources" /\ MoreReply(p, call, answer) = LoadSource(Cleared(p, Unmore(p)), TRUE)
         \/ p.page # "sources" /\ MoreReply(p, call, answer) = Over(p, Unmore(p))
         \/ /\ call.at = p.data.at /\ p.pane.pages = {answer.at}
            /\ MoreReply(p, call, answer) = LoadSource(Over(p, Complete(p, call)), FALSE)
<1> DEFINE m == MoreReply(p, call, answer)
           x == Unmore(p)
           y == Complete(p, call)
           done == [p EXCEPT !.pane.more = FALSE]
           whole == [done EXCEPT !.pane.next = FALSE, !.pane.stamp = <<call.at, p.readings>>]
<1>1. done = [p EXCEPT !.pane = x] BY DEF Unmore
<1>2. whole = [p EXCEPT !.pane = y]
 <2> DEFINE stamp == <<call.at, p.readings>>
 <2>1. done.pane = x /\ DOMAIN p = Fields /\ DOMAIN done = Fields BY Zenon, <1>1 DEF Fits, Fields
 <2>2. [x EXCEPT !.next = FALSE, !.stamp = stamp] = y BY DEF Unmore, Complete
 <2> HIDE DEF x, y, done
 <2>3. [done EXCEPT !.pane.next = FALSE, !.pane.stamp = stamp]
         = [done EXCEPT !.pane = [x EXCEPT !.next = FALSE, !.stamp = stamp]] BY Zenon, <2>1
 <2>4. [done EXCEPT !.pane = y] = [p EXCEPT !.pane = y] BY Zenon, <1>1, <2>1
 <2> QED BY <2>2, <2>3, <2>4
<1>3. \/ m = LoadSource(SourceDone(done, call), FALSE)
      \/ m = SourceDone(LoadSource(done, TRUE), call)
      \/ /\ call.at = p.data.at /\ p.pane.pages = {answer.at}
         /\ m = LoadSource(SourceDone(whole, call), FALSE) BY Zenon, MoreReplyForms DEF MoreOver, MoreStamped
<1> HIDE DEF m, x, y, done, whole
<1>4. SourceDone(done, call) = Over(p, x) /\ SourceDone(whole, call) = Over(p, y) BY <1>1, <1>2, DoneIsOver
<1>5. /\ done.page = p.page /\ Current(done) /\ done.sourceRequest = p.sourceRequest
      /\ DOMAIN done = Fields BY <1>1 DEF Fits, Fields, Current
<1>6. CASE p.page # "sources" BY <1>5, <1>6, <1>3, <1>4 DEF LoadSource, m, x, y
<1>7. CASE p.page = "sources"
 <2> DEFINE waits == [done EXCEPT !.sourceRefreshPending = TRUE]
 <2>1. done.sourceRequest # None BY <1>5 DEF Own
 <2>2. LoadSource(done, TRUE) = waits BY Zenon, <1>5, <1>7, <2>1 DEF LoadSource
 <2>3. waits.sourceRefreshPending = TRUE /\ waits.sourceRequest = p.sourceRequest BY <1>5 DEF Fields
 <2>4. [waits EXCEPT !.sourceRequest = None, !.sourceRefreshPending = FALSE] = Cleared(p, x)
  BY Zenon, <1>1 DEF Fits, Fields, Cleared
 <2> HIDE DEF waits
 <2>5. SourceDone(waits, call) = LoadSource(Cleared(p, x), TRUE) BY Zenon, <2>3, <2>4 DEF SourceDone, Own
 <2> QED BY Zenon, <1>3, <1>4, <1>7, <2>2, <2>5 DEF m, x, y
<1> QED BY Zenon, <1>6, <1>7

(* loadSourceMore, when the answer comes. *)
LEMMA MoreReplyHolds ==
  ASSUME NEW p, Fits(p), Timely(p), NEW W, NEW call, SourceHolds(p, W \cup {call}), Final(p, call, W),
         call.slot = "more", NEW answer, Prompt(p, call, answer), Caught(p)
  PROVE  Loads(p, MoreReply(p, call, answer), W, 0) /\ Caught(MoreReply(p, call, answer))
<1> DEFINE m == MoreReply(p, call, answer)
           x == Unmore(p)
           y == Complete(p, call)
           c == Cleared(p, x)
<1>0. PaneHolds(p) BY DEF SourceHolds
<1>1. Weight(p) \in Nat /\ p.sourceSequence \in Nat /\ p.sourceSequence <= Weight(p) BY <1>0, WeightType
<1>2. CASE ~Numbered(p, call)
 <2>1. call.id # p.sourceSequence BY <1>2 DEF Numbered, OfSource
 <2>2. m = p BY <2>1 DEF MoreReply
 <2>3. SourceHolds(p, W) /\ ForSource(p, p) BY <1>2, DroppedHolds, ForSourceNothing
 <2> HIDE DEF m
 <2>4. Loads(p, p, W, 0) BY <1>1, <2>3 DEF Loads
 <2> QED BY <2>2, <2>4 DEF m
<1>3. CASE Numbered(p, call)
 <2>1. /\ Awaited(p, call) /\ Own(p, call) /\ p.sourceRequest # None /\ Current(p)
       /\ p.sourceRequest.slot = "more" /\ p.pane # None /\ p.sourceRefreshPending \in BOOLEAN
  BY <1>3, AwaitedFacts
 <2>2. Weight(p) = p.sourceSequence + (IF p.sourceRefreshPending THEN 1 ELSE 0) + 1 BY <1>1, <2>1 DEF Weight
 <2>3. answer.at = p.data.at /\ call.id = p.sourceSequence BY <1>3, <2>1 DEF Prompt, Awaited, Numbered
 <2>4. /\ PaneFits(x) /\ Rests(p, x)
       /\ (call.at = p.data.at /\ p.pane.pages = {answer.at}) => PaneFits(y) /\ Rests(p, y)
  BY <1>3, <2>3, UnmoreRests
 <2>5. \/ m = LoadSource(Over(p, x), FALSE)
       \/ p.page = "sources" /\ m = LoadSource(c, TRUE)
       \/ p.page # "sources" /\ m = Over(p, x)
       \/ /\ call.at = p.data.at /\ p.pane.pages = {answer.at}
          /\ m = LoadSource(Over(p, y), FALSE) BY ZenonT(40), <2>1, <2>3, MoreReplyCases
 <2> HIDE DEF m, x, y
 <2>6. ASSUME NEW z, PaneFits(z), Rests(p, z), m = LoadSource(Over(p, z), FALSE)
       PROVE  Loads(p, m, W, 0) /\ Caught(m)
  <3> DEFINE l == LoadSource(Over(p, z), FALSE)
  <3>1. /\ ForSource(p, l) /\ SourceHolds(l, W) /\ p.sourceSequence <= l.sourceSequence
        /\ Weight(l) <= p.sourceSequence + (IF p.sourceRefreshPending THEN 1 ELSE 0) + 1
        /\ Caught(l) BY Zenon, <1>3, <2>6, AgainHolds
  <3> HIDE DEF l
  <3>2. Weight(l) <= Weight(p) + 0 BY <1>1, <2>2, <3>1
  <3> QED BY Zenon, <2>6, <3>1, <3>2 DEF Loads, l
 <2>7. CASE p.page = "sources" /\ m = LoadSource(c, TRUE)
  <3> DEFINE l == LoadSource(c, TRUE)
  <3>1. ForSource(p, c) /\ c.sourceSequence = p.sourceSequence BY <2>4, ClearedFields
  <3>2. SourceHolds(c, W) /\ Weight(c) = p.sourceSequence BY <1>3, <2>4, ClearedHolds
  <3> HIDE DEF c
  <3>3. Fits(c) /\ Timely(c) BY <3>1, TimelyFor DEF ForSource
  <3>4. Loads(c, l, W, 1) /\ Caught(l) BY Zenon, <3>2, <3>3, LoadSourceHolds
  <3> HIDE DEF l
  <3>5. ForSource(p, l) BY <3>1, <3>4, ForSourceThen DEF Loads
  <3>6. Weight(l) \in Nat BY <3>4, WeightType DEF Loads, SourceHolds
  <3>7. Weight(l) <= Weight(p) + 0 BY <3>2, <3>4, <1>1, <2>2, <3>6 DEF Loads
  <3>8. p.sourceSequence <= l.sourceSequence BY <3>1, <3>4 DEF Loads
  <3>9. Loads(p, l, W, 0) BY <3>4, <3>5, <3>7, <3>8 DEF Loads
  <3>10. m = l BY <2>7 DEF l
  <3> QED BY <3>4, <3>9, <3>10 DEF m
 <2>8. CASE p.page # "sources" /\ m = Over(p, x)
  <3> DEFINE o == Over(p, x)
  <3>1. /\ ForSource(p, o) /\ SourceHolds(o, W)
        /\ p.sourceSequence <= o.sourceSequence
        /\ Weight(o) <= p.sourceSequence + (IF p.sourceRefreshPending THEN 1 ELSE 0) BY <1>3, <2>4, OverHolds
  <3> HIDE DEF o
  <3>2. Weight(o) \in Nat BY <3>1, WeightType DEF SourceHolds
  <3>3. Weight(o) <= Weight(p) + 0 BY <1>1, <2>2, <3>1, <3>2
  <3>4. Caught(o) BY <2>8, <3>1 DEF Caught, ForSource
  <3>5. Loads(p, o, W, 0) BY <3>1, <3>3 DEF Loads
  <3>6. m = o BY <2>8 DEF o
  <3> QED BY <3>4, <3>5, <3>6 DEF m
 <2> QED BY Zenon, <2>4, <2>5, <2>6, <2>7, <2>8 DEF m
<1> QED BY <1>2, <1>3

(* What a request for more rows changes. *)
LEMMA LoadSourceMoreFields ==
  ASSUME NEW p, Fits(p), PaneHolds(p), LoadSourceMore(p) # p
  PROVE  /\ p.sourceRequest = None /\ Current(p) /\ p.pane # None /\ ~p.pane.loading
         /\ ForSource(p, LoadSourceMore(p))
         /\ LoadSourceMore(p).sourceSequence = p.sourceSequence
         /\ LoadSourceMore(p).sourceRefreshPending = p.sourceRefreshPending
         /\ LoadSourceMore(p).sourceRequest \in SourceRequests
         /\ LoadSourceMore(p).sourceRequest.slot = "more"
         /\ LoadSourceMore(p).sourceRequest.id = p.sourceSequence
         /\ LoadSourceMore(p).pane = [p.pane EXCEPT !.more = TRUE]
         /\ LoadSourceMore(p).asks = Append(p.asks, MoreCall(p))
<1> DEFINE request == [slot |-> "more", id |-> p.sourceSequence, node |-> p.pane.node, stamp |-> p.pane.stamp]
           pane == [p.pane EXCEPT !.more = TRUE]
           call == MoreCall(p)
           r == [p EXCEPT !.pane.more = TRUE, !.sourceRequest = request]
           q == LoadSourceMore(p)
<1>1. /\ p.sourceRequest = None /\ Current(p) /\ p.pane # None /\ ~p.pane.loading
      /\ q = Ask(r, call) BY DEF LoadSourceMore, MoreCall
<1>2. Fits(q) BY LoadSourceMoreStays DEF Stays, Follow
<1>3. request \in SourceRequests /\ request.slot = "more" /\ request.id = p.sourceSequence
 BY <1>1 DEF PaneHolds, Panes, SourceRequests
<1>4. call.slot = "more" /\ call.conn = p.conn BY DEF MoreCall
<1> HIDE DEF request, call
<1>5. /\ r.sourceSequence = p.sourceSequence /\ r.sourceRequest = request /\ r.pane = pane
      /\ r.asks = p.asks /\ r.sourceRefreshPending = p.sourceRefreshPending
      /\ DetailKept(p, r) /\ ReportKept(p, r)
      /\ r.page = p.page /\ r.source = p.source /\ r.readings = p.readings /\ DOMAIN r = Fields
 BY DEF Fits, Fields, DetailKept, ReportKept
<1> HIDE DEF r, pane
<1>6. q = [r EXCEPT !.asks = Append(p.asks, call)] BY <1>1, <1>5 DEF Ask
<1> HIDE DEF q
<1>7. /\ q.sourceSequence = p.sourceSequence /\ q.sourceRequest = request /\ q.pane = pane
      /\ q.asks = Append(p.asks, call) /\ q.sourceRefreshPending = p.sourceRefreshPending
      /\ DetailKept(p, q) /\ ReportKept(p, q)
      /\ q.page = p.page /\ q.source = p.source /\ q.readings = p.readings
 BY <1>5, <1>6 DEF Fields, DetailKept, ReportKept
<1>8. Adds(p, q, {"source", "more"}) BY Zenon, <1>4, <1>7, AddsOne
<1>9. ForSource(p, q) BY <1>2, <1>7, <1>8 DEF ForSource
<1>10. q.sourceRequest \in SourceRequests /\ q.sourceRequest.slot = "more" /\ q.sourceRequest.id = p.sourceSequence
 BY <1>3, <1>7
<1> QED BY <1>1, <1>7, <1>9, <1>10 DEF q, pane, call

(* loadSourceMore: a request more, of the read of the rows on display. *)
LEMMA LoadSourceMoreHolds ==
  ASSUME NEW p, Fits(p), NEW W, SourceHolds(p, W), Caught(p)
  PROVE  Loads(p, LoadSourceMore(p), W, 1) /\ Caught(LoadSourceMore(p))
<1> DEFINE q == LoadSourceMore(p)
           call == MoreCall(p)
<1>0. PaneHolds(p) BY DEF SourceHolds
<1>1. Weight(p) \in Nat /\ p.sourceSequence \in Nat BY <1>0, WeightType
<1>2. CASE q = p
 <2>1. ForSource(p, p) BY ForSourceNothing
 <2> HIDE DEF q
 <2>2. Loads(p, p, W, 1) BY <1>1, <2>1 DEF Loads
 <2> QED BY <1>2, <2>2 DEF q
<1>3. CASE q # p
 <2>1. /\ p.sourceRequest = None /\ Current(p) /\ p.pane # None /\ ~p.pane.loading
       /\ ForSource(p, q)
       /\ q.sourceSequence = p.sourceSequence
       /\ q.sourceRefreshPending = p.sourceRefreshPending
       /\ q.sourceRequest \in SourceRequests
       /\ q.sourceRequest.slot = "more"
       /\ q.sourceRequest.id = p.sourceSequence
       /\ q.pane = [p.pane EXCEPT !.more = TRUE]
       /\ q.asks = Append(p.asks, call) BY <1>0, <1>3, LoadSourceMoreFields
 <2> HIDE DEF q
 <2>2. call.slot = "more" /\ call.id = p.sourceSequence /\ call.conn = p.conn BY DEF MoreCall
 <2> HIDE DEF call
 <2>3. q.sourceRequest # None /\ Current(q) /\ q.data = p.data /\ q.conn = p.conn
  BY <2>1, PanelAssumption DEF ForSource, DetailKept, Current
 <2>4. p.pane \in Panes /\ Honest(p, p.pane) /\ p.sourceRefreshPending = FALSE BY <1>0, <2>1 DEF PaneHolds
 <2>5. /\ q.pane \in Panes /\ q.pane.more = TRUE /\ q.pane.loading = p.pane.loading
       /\ q.pane.stamp = p.pane.stamp /\ q.pane.pages = p.pane.pages /\ q.pane.failed = p.pane.failed
  BY Zenon, <2>1, <2>4 DEF Panes
 <2>6. PaneHolds(q)
  <3>1. Honest(q, q.pane) BY <2>3, <2>4, <2>5 DEF Honest
  <3>2. q.sourceSequence \in Nat /\ q.sourceRequest.id = q.sourceSequence BY <1>1, <2>1
  <3>3. q.sourceRefreshPending = FALSE BY Zenon, <2>1, <2>4, Zenon
  <3>4. q.sourceRefreshPending \in BOOLEAN /\ ~q.sourceRefreshPending BY Zenon, <3>3
  <3>5. q.pane.more /\ ~q.pane.loading /\ q.pane # None BY Zenon, <2>1, <2>5, PanelAssumption
  <3> QED BY <2>1, <2>3, <2>5, <3>1, <3>2, <3>4, <3>5 DEF PaneHolds
 <2>7. \A c \in Under(p, W) : ~Numbered(p, c) BY <2>1 DEF SourceHolds, Awaited, Own
 <2>8. \A c \in Under(p, W) : ~Numbered(q, c) BY <2>1, <2>7 DEF Numbered
 <2>9. OfSource(call) /\ Numbered(q, call) /\ call.conn = p.conn BY <2>1, <2>2 DEF OfSource, Numbered
 <2>10. /\ Under(q, W) = Under(p, W) \cup {call}
        /\ \A i \in DOMAIN q.asks : Numbered(q, q.asks[i]) =>
             /\ \A c \in W : ~Numbered(q, c)
             /\ \A j \in DOMAIN q.asks : Numbered(q, q.asks[j]) => i = j
  <3>1. q.asks = Append(p.asks, call) BY <2>1
  <3>2. Newer(p, q, call, W) BY <2>8, <2>9, <3>1 DEF Newer
  <3> QED BY <3>2, NewestAlone
 <2>11. Awaited(q, call) BY <2>1, <2>2, <2>3 DEF Awaited, Own
 <2>12. SourceHolds(q, W)
  <3>1. \A c \in Under(q, W) : OfSource(c) => c.id \in Nat /\ c.id <= q.sourceSequence
   BY <1>1, <2>1, <2>2, <2>10 DEF SourceHolds
  <3>2. \A c \in Under(q, W) : Numbered(q, c) => Awaited(q, c) BY <2>8, <2>10, <2>11
  <3>3. \E c \in Under(q, W) : Numbered(q, c) BY <2>9, <2>10
  <3> QED BY <2>6, <2>10, <3>1, <3>2, <3>3 DEF SourceHolds
 <2>13. Weight(q) = Weight(p) + 1 BY <1>1, <2>1, <2>3, <2>4 DEF Weight
 <2>14. Loads(p, q, W, 1) BY <1>1, <2>1, <2>12, <2>13 DEF Loads
 <2>15. Caught(q) BY <2>1, <2>3 DEF Caught
 <2> QED BY <2>14, <2>15 DEF q
<1> QED BY <1>2, <1>3

(* What else changes leaves the dialog and its requests alone. *)
LEMMA DetailFrame ==
  ASSUME NEW p, NEW W, DetailHolds(p, W), NEW q, DetailKept(p, q),
         NEW slots, Adds(p, q, slots), "detail" \notin slots
  PROVE  DetailHolds(q, W) /\ (Shown(p) => Shown(q))
<1>1. DialogHolds(q) BY DEF DetailHolds, DialogHolds, DetailKept, Current
<1>2. Shown(p) => Shown(q) BY DEF Shown, DetailKept, Current, Told, Latest
<1>3. \A call : Heard(q, call) <=> Heard(p, call) BY DEF Heard, DetailKept
<1>4. \A call : Following(p, call) => Following(q, call) BY DEF Following, DetailKept
<1>5. \A call \in Under(q, W) : call.slot = "detail" => call \in Under(p, W) BY UnderAdds
<1>6. Under(p, W) \subseteq Under(q, W) BY UnderAdds
<1>7. \A i \in DOMAIN q.asks : Heard(q, q.asks[i]) =>
        i \in DOMAIN p.asks /\ q.asks[i] = p.asks[i] /\ Heard(p, p.asks[i]) BY <1>3, UnderAdds DEF Heard
<1>8. \A call \in Under(q, W) : call.slot = "detail" =>
        call.id \in Nat /\ call.id <= q.detailSequence /\ call.step \in Steps /\ call.at \in Nat
 BY <1>5 DEF DetailHolds, DetailKept
<1>9. \A call \in Under(q, W) : Heard(q, call) => Following(q, call) BY <1>3, <1>4, <1>5 DEF DetailHolds, Heard
<1>10. q.detailRequest # None =>
         \E call \in Under(q, W) : call.slot = "detail" /\ call.id = q.detailRequest.id
 BY <1>6 DEF DetailHolds, DetailKept
<1>11. \A i \in DOMAIN q.asks : Heard(q, q.asks[i]) =>
         /\ \A call \in W : ~Heard(q, call)
         /\ \A j \in DOMAIN q.asks : Heard(q, q.asks[j]) => i = j BY <1>3, <1>7 DEF DetailHolds
<1> QED BY <1>1, <1>2, <1>8, <1>9, <1>10, <1>11 DEF DetailHolds

(* No step at all is a step of the dialog, *)
LEMMA ForDetailNothing == \A p : Fits(p) /\ p.detailSequence \in Nat => ForDetail(p, p)
<1> TAKE p
<1> HAVE Fits(p) /\ p.detailSequence \in Nat
<1>1. Adds(p, p, {"detail"}) BY AddsNothing
<1> QED BY <1>1 DEF ForDetail, SourceKept, ReportKept

(* and two of them are one. *)
LEMMA ForDetailThen ==
  ASSUME NEW p, NEW q, NEW r, ForDetail(p, q), ForDetail(q, r)
  PROVE  ForDetail(p, r)
BY AddsThen DEF ForDetail, SourceKept, ReportKept

(* It leaves the source alone. *)
LEMMA ForDetailSource ==
  ASSUME NEW p, NEW W, SourceHolds(p, W), Timely(p), NEW q, ForDetail(p, q)
  PROVE  /\ SourceHolds(q, W) /\ Timely(q) /\ Weight(q) = Weight(p) /\ q.sourceSequence = p.sourceSequence
         /\ Caught(p) => Caught(q)
BY SourceFrame DEF ForDetail, Timely, SourceKept, Current, Weight, Stamp, Previous, Caught

(* Drawing the dialog. *)
LEMMA ShowFields ==
  ASSUME NEW p, Fits(p), p.detail # None, p.detail.n \in Nat, p.detailSequence \in Nat, NEW what \in {"evidence", "ended", "error"},
         NEW at \in Nat
  PROVE  LET s == Show(p, p.detail.n, what, at)
             device == p.detail.kind = "device" /\ what = "evidence"
         IN /\ ForDetail(p, s) /\ s.page = p.page /\ s.asks = p.asks
            /\ s.detail = p.detail /\ s.selections = p.selections
            /\ s.detailSequence = p.detailSequence /\ s.detailRequest = p.detailRequest
            /\ s.detailRefreshPending = p.detailRefreshPending
            /\ s.body \in Bodies /\ s.body.at = at
            /\ s.context = IF device THEN at ELSE p.context
            /\ s.unread = IF what = "error" THEN at ELSE p.unread
<1> DEFINE device == p.detail.kind = "device" /\ what = "evidence"
           r == IF device THEN Response(p) ELSE p.response
           c == IF device THEN at ELSE p.context
           u == IF what = "error" THEN at ELSE p.unread
           q == [p EXCEPT !.response = r, !.context = c, !.unread = u]
           chosen == IF device THEN q.response.chosen ELSE {}
           body == [n |-> p.detail.n, what |-> what, at |-> at, rows |-> Related(p), chosen |-> chosen]
           t == [q EXCEPT !.body = body]
           s == Show(p, p.detail.n, what, at)
<1>1. s = t BY DEF Show
<1>2. Related(p) \subseteq Episodes BY RelatedFacts
<1>3. q.response = r BY DEF Fits, Fields
<1>4. chosen \subseteq Episodes BY <1>2, <1>3 DEF Response
<1>5. body \in Bodies /\ body.at = at
 <2> HIDE DEF chosen
 <2> QED BY <1>2, <1>4 DEF Bodies
<1>6. Fits(s) BY Zenon, ShowStays DEF Stays, Follow
<1> HIDE DEF body, r, c, u
<1>7. /\ t.body = body /\ t.context = c /\ t.unread = u
      /\ t.page = p.page /\ t.asks = p.asks /\ t.source = p.source /\ t.readings = p.readings
      /\ t.detail = p.detail /\ t.selections = p.selections
      /\ t.detailSequence = p.detailSequence /\ t.detailRequest = p.detailRequest
      /\ t.detailRefreshPending = p.detailRefreshPending
      /\ SourceKept(p, t) /\ ReportKept(p, t) BY DEF Fits, Fields, SourceKept, ReportKept
<1> HIDE DEF s, t
<1>8. Adds(p, s, {"detail"}) BY <1>1, <1>7, AddsNothing
<1>9. ForDetail(p, s) BY <1>1, <1>6, <1>7, <1>8 DEF ForDetail
<1>10. s.body \in Bodies /\ s.body.at = at /\ s.context = c /\ s.unread = u BY <1>1, <1>5, <1>7
<1> QED BY <1>1, <1>7, <1>9, <1>10 DEF s, c, u

(* A later state of the dialog with the same requests. *)
LEMMA DetailLater ==
  ASSUME NEW p, NEW W, DetailHolds(p, W), NEW q, DialogHolds(q), q.asks = p.asks, q.conn = p.conn,
         q.detailRequest = p.detailRequest, p.detailRefreshPending => q.detailRefreshPending,
         p.detailSequence <= q.detailSequence
  PROVE  DetailHolds(q, W)
<1>1. Under(q, W) = Under(p, W) BY DEF Under
<1>2. p.detailSequence \in Nat /\ q.detailSequence \in Nat BY DEF DetailHolds, DialogHolds
<1>3. \A call \in Under(p, W) : call.slot = "detail" =>
        call.id \in Nat /\ call.id <= p.detailSequence /\ call.step \in Steps /\ call.at \in Nat
 BY DEF DetailHolds
<1>4. \A call \in Under(p, W) : Heard(q, call) => Heard(p, call) BY <1>2, <1>3 DEF Heard
<1>5. \A call : Following(p, call) => Following(q, call) BY DEF Following
<1>6. \A call \in Under(q, W) : Heard(q, call) => Following(q, call) BY <1>1, <1>4, <1>5 DEF DetailHolds
<1>7. \A call \in Under(q, W) : call.slot = "detail" =>
        call.id \in Nat /\ call.id <= q.detailSequence /\ call.step \in Steps /\ call.at \in Nat
 BY <1>1, <1>2, <1>3
<1>8. \A i \in DOMAIN p.asks : p.asks[i] \in Under(p, W) BY DEF Under, Range
<1>9. \A c \in W : c \in Under(p, W) BY DEF Under
<1>10. \A i \in DOMAIN q.asks : Heard(q, q.asks[i]) =>
         /\ \A call \in W : ~Heard(q, call)
         /\ \A j \in DOMAIN q.asks : Heard(q, q.asks[j]) => i = j BY <1>4, <1>8, <1>9 DEF DetailHolds
<1> QED BY <1>1, <1>6, <1>7, <1>10 DEF DetailHolds

(* A request more, which is the only one the dialog takes. *)
LEMMA DetailAsks ==
  ASSUME NEW p, Fits(p), NEW W, NEW q, NEW call, q.asks = Append(p.asks, call), call.slot = "detail",
         DialogHolds(q), q.detailRequest # None, q.detailRequest.id = call.id, call.id = q.detailSequence,
         Following(q, call), q.conn = p.conn, call.step \in Steps, call.at \in Nat,
         Unheard(p, q, W)
  PROVE  DetailHolds(q, W) /\ Adds(p, q, {"detail"})
<1>0. call.conn = p.conn BY DEF Following
<1>1. /\ Adds(p, q, {"detail"}) /\ Range(q.asks) = Range(p.asks) \cup {call}
      /\ Len(q.asks) = Len(p.asks) + 1
 <2>1. Adds(p, q, {"detail"}) BY Zenon, <1>0, AddsOne
 <2>2. Range(q.asks) = Range(p.asks) \cup {call} BY AppendFits DEF Fits, AsksFit
 <2>3. Len(q.asks) = Len(p.asks) + 1 BY <1>0, AddsOne
 <2> QED BY <2>1, <2>2, <2>3
<1>2. Sequence(p.asks) /\ Sequence(q.asks) BY <1>1 DEF Adds
<1>3. Len(p.asks) \in Nat /\ DOMAIN p.asks = 1..Len(p.asks) /\ DOMAIN q.asks = 1..Len(q.asks) BY <1>2, Places
<1>4. ASSUME NEW i \in DOMAIN q.asks, Heard(q, q.asks[i]) PROVE i = Len(p.asks) + 1
 BY <1>1, <1>3, <1>4 DEF Adds, Under, Range, Unheard
<1>5. Under(q, W) = Under(p, W) \cup {call} BY <1>1 DEF Under
<1>6. \A c \in W : ~Heard(q, c) BY DEF Under, Unheard
<1>7. \A i \in DOMAIN q.asks : Heard(q, q.asks[i]) =>
        /\ \A c \in W : ~Heard(q, c)
        /\ \A j \in DOMAIN q.asks : Heard(q, q.asks[j]) => i = j BY <1>4, <1>6
<1>8. q.detailSequence \in Nat BY DEF DialogHolds
<1>9. \A c \in Under(q, W) : c.slot = "detail" =>
        c.id \in Nat /\ c.id <= q.detailSequence /\ c.step \in Steps /\ c.at \in Nat BY <1>5, <1>8 DEF Unheard
<1>10. \A c \in Under(q, W) : Heard(q, c) => Following(q, c) BY <1>5 DEF Unheard
<1>11. \E c \in Under(q, W) : c.slot = "detail" /\ c.id = q.detailRequest.id BY <1>5
<1> QED BY Zenon, <1>1, <1>7, <1>9, <1>10, <1>11 DEF DetailHolds

(* A new number of a read of the dialog. *)
LEMMA BumpHolds ==
  ASSUME NEW p, Fits(p), NEW W, DetailHolds(p, W)
  PROVE  /\ ForDetail(p, Bump(p)) /\ DetailHolds(Bump(p), W) /\ Bump(p).page = p.page
         /\ Bump(p).detail = p.detail /\ Bump(p).asks = p.asks /\ Bump(p).body = p.body
         /\ Bump(p).detailSequence = p.detailSequence + 1
         /\ Bump(p).selections = p.selections
         /\ Bump(p).detailRefreshPending = p.detailRefreshPending
         /\ \A c \in Under(Bump(p), W) : ~Heard(Bump(p), c)
         /\ Bump(p).detailRequest = p.detailRequest
<1> DEFINE q == Bump(p)
<1>1. /\ q.page = p.page /\ q.detail = p.detail /\ q.asks = p.asks /\ q.body = p.body
      /\ q.detailSequence = p.detailSequence + 1 /\ q.selections = p.selections
      /\ q.detailRequest = p.detailRequest /\ q.detailRefreshPending = p.detailRefreshPending
      /\ q.context = p.context /\ SourceKept(p, q) /\ ReportKept(p, q)
      /\ q.source = p.source /\ q.readings = p.readings
      /\ Whole(q) /\ Same(p, q) BY DEF Bump, Fits, Fields, SourceKept, ReportKept, Whole, Same
<1> HIDE DEF q
<1>2. Stays(p, q) BY <1>1, SameStays DEF Fits, AsksFit, SourceKept
<1>3. Adds(p, q, {"detail"}) BY <1>1, AddsNothing
<1>5. p.detailSequence \in Nat BY DEF DetailHolds, DialogHolds
<1>4. ForDetail(p, q) BY <1>1, <1>2, <1>3, <1>5 DEF ForDetail, Stays, Follow
<1>6. DialogHolds(q) BY <1>1, <1>5 DEF DetailHolds, DialogHolds, SourceKept, Current, DetailRequests
<1>7. DetailHolds(q, W) BY <1>1, <1>5, <1>6, DetailLater DEF SourceKept
<1>8. \A c \in Under(q, W) : ~Heard(q, c) BY <1>1, <1>5 DEF Under, DetailHolds, Heard
<1> QED BY <1>1, <1>4, <1>7, <1>8 DEF q

(* A request that is asked for is one more. *)
LEMMA AskAsks ==
  ASSUME NEW p, Fits(p), NEW call
  PROVE  Ask(p, call).asks = Append(p.asks, call) /\ Ask(p, call).asks # p.asks
BY DEF Ask, Fits, Fields, AsksFit

(* loadDetail does nothing, forgets, waits, or reads. *)
LEMMA LoadDetailCases ==
  ASSUME NEW p, Fits(p)
  PROVE  \/ p.detail = None /\ LoadDetail(p) = Bump(p)
         \/ /\ p.detail # None /\ ~Current(p)
            /\ \E body \in {p.body, None} : LoadDetail(p) = [Bump(p) EXCEPT !.body = body]
         \/ /\ p.detail # None /\ Current(p) /\ p.detailRequest # None
            /\ LoadDetail(p) = Remember(p, Waiting(p))
         \/ /\ p.detail # None /\ Current(p) /\ p.detailRequest = None
            /\ \/ \E step \in {"context", "node"} : LoadDetail(p) = Fetch(Bump(p), step)
               \/ LoadDetail(p) = ShowHistory(Bump(p))
               \/ /\ p.detail.kind # "device"
                  /\ LoadDetail(p) = Show(Bump(p), Bump(p).detail.n, "ended", Bump(p).data.at)
<1> DEFINE b == Bump(p)
<1>1. /\ b.detail = p.detail /\ b.asks = p.asks /\ b.body = p.body /\ b.status = p.status
      /\ b.data = p.data /\ Whole(b) /\ Same(p, b) /\ b.pane = p.pane BY DEF Bump, Fits, Fields, Whole, Same
<1>2. CASE p.detail = None BY <1>2 DEF LoadDetail, ReadDetail, Bump
<1>3. CASE p.detail # None /\ ~Current(p)
 <2> DEFINE known == p.body # None /\ p.status \in {"loading", "disconnected"} /\ p.body.what = "evidence"
            body == IF known THEN p.body ELSE None
 <2>1. LoadDetail(p) = [b EXCEPT !.body = IF known THEN @ ELSE None] BY <1>3 DEF LoadDetail, ReadDetail, Bump
 <2>2. [b EXCEPT !.body = IF known THEN @ ELSE None] = [b EXCEPT !.body = body]
  <3> HIDE DEF b, known
  <3> QED BY <1>1
 <2>3. body \in {p.body, None} OBVIOUS
 <2> HIDE DEF body, known, b
 <2>4. LoadDetail(p) = [b EXCEPT !.body = body] BY <2>1, <2>2
 <2> QED BY <1>3, <2>3, <2>4 DEF b
<1>4. CASE p.detail # None /\ Current(p) /\ p.detailRequest # None BY <1>4 DEF LoadDetail, Remember, Waiting
<1>5. CASE p.detail # None /\ Current(p) /\ p.detailRequest = None
 <2> DEFINE s == ReadSelection(b)
            t == [s EXCEPT !.detailRequest = [id |-> s.detailSequence, n |-> p.detail.n, at |-> p.data.at]]
 <2>1. ReadDetail(p) = s BY <1>5 DEF ReadDetail, Bump
 <2>2. LoadDetail(p) = IF s.asks = p.asks THEN s ELSE t BY <1>5, <2>1 DEF LoadDetail
 <2>3. Fits(b)
  <3> HIDE DEF b
  <3> QED BY <1>1, SameStays DEF Fits, AsksFit, Stays, Follow
 <2>4. \/ \E step \in {"context", "node"} : s = Ask(b, DetailCall(b, step))
       \/ s = ShowHistory(b)
       \/ p.detail.kind # "device" /\ s = Show(b, b.detail.n, "ended", b.data.at)
  <3> HIDE DEF b
  <3> QED BY <1>1 DEF ReadSelection, DetailCall
 <2> HIDE DEF b
 <2>5. ASSUME NEW step, s = Ask(b, DetailCall(b, step)) PROVE LoadDetail(p) = Fetch(b, step)
  <3>1. Ask(b, DetailCall(b, step)).asks # b.asks BY <2>3, AskAsks
  <3>2. Ask(b, DetailCall(b, step)).detailSequence = b.detailSequence BY <2>3 DEF Ask, Fits, Fields
  <3>3. s.asks # p.asks /\ s.detailSequence = b.detailSequence BY <1>1, <2>5, <3>1, <3>2
  <3>4. LoadDetail(p) = t BY <2>2, <3>3
  <3>5. t = [s EXCEPT !.detailRequest = DetailRequest(b)] BY <1>1, <3>3 DEF DetailRequest
  <3> HIDE DEF t
  <3> QED BY <2>5, <3>4, <3>5 DEF Fetch
 <2>6. CASE s = ShowHistory(b) BY Zenon, <2>3, <1>1, <2>2, <2>6, <1>5 DEF ShowHistory, Shut, Fits, Fields, b
 <2>7. CASE p.detail.kind # "device" /\ s = Show(b, b.detail.n, "ended", b.data.at)
  BY <1>1, <1>5, <2>3, ShowStays, <2>2, <2>7 DEF b
 <2> HIDE DEF s
 <2> QED BY <1>5, <2>4, <2>5, <2>6, <2>7 DEF b
<1> QED BY <1>2, <1>3, <1>4, <1>5

(* What a read of the dialog asks for, *)
LEMMA DetailCallFields ==
  ASSUME NEW p, NEW step
  PROVE  /\ DetailCall(p, step).slot = "detail" /\ DetailCall(p, step).id = p.detailSequence
         /\ DetailCall(p, step).n = p.detail.n /\ DetailCall(p, step).conn = p.conn
         /\ DetailCall(p, step).step = step /\ DetailCall(p, step).at = p.data.at
BY DEF DetailCall

(* and what the dialog remembers of it. *)
LEMMA DetailRequestFields ==
  ASSUME NEW p
  PROVE  /\ DetailRequest(p).id = p.detailSequence /\ DetailRequest(p).n = p.detail.n
         /\ DetailRequest(p).at = p.data.at
         /\ (p.detailSequence \in Nat /\ p.detail.n \in Nat /\ p.data.at \in Nat) =>
              DetailRequest(p) \in DetailRequests /\ DetailRequest(p) # None
BY PanelAssumption DEF DetailRequest, DetailRequests

(* A read of the dialog begins. *)
LEMMA FetchHolds ==
  ASSUME NEW p, Fits(p), NEW W, DetailHolds(p, W), Timely(p), Current(p), p.detail # None,
         p.detailRequest = None, \A c \in Under(p, W) : ~Heard(p, c),
         NEW step \in {"context", "node"}, Fits(Fetch(p, step))
  PROVE  ForDetail(p, Fetch(p, step)) /\ DetailHolds(Fetch(p, step), W) /\ Shown(Fetch(p, step))
<1> DEFINE call == DetailCall(p, step)
           request == DetailRequest(p)
           a == Ask(p, call)
           q == Fetch(p, step)
<1>1. DialogHolds(p) BY DEF DetailHolds
<1>2. p.detailSequence \in Nat /\ p.detail.n \in Nat /\ p.data.at \in Nat /\ p.detailRefreshPending = FALSE
 BY <1>1 DEF DialogHolds, Timely
<1>3. /\ call.slot = "detail" /\ call.id = p.detailSequence /\ call.n = p.detail.n /\ call.conn = p.conn
      /\ call.step = step /\ call.at = p.data.at BY DetailCallFields
<1>4. /\ request.id = p.detailSequence /\ request.n = p.detail.n /\ request.at = p.data.at
      /\ request \in DetailRequests /\ request # None BY <1>2, DetailRequestFields
<1>5. q = [a EXCEPT !.detailRequest = request] BY DEF Fetch
<1> HIDE DEF call, request
<1>6. /\ a.asks = Append(p.asks, call) /\ SourceKept(p, a) /\ ReportKept(p, a) /\ DetailKept(p, a)
      /\ a.page = p.page /\ a.source = p.source /\ a.readings = p.readings /\ DOMAIN a = Fields
 BY DEF Ask, Fits, Fields, SourceKept, ReportKept, DetailKept
<1> HIDE DEF a, q
<1>7. /\ q.asks = Append(p.asks, call) /\ SourceKept(p, q) /\ ReportKept(p, q)
      /\ q.page = p.page /\ q.source = p.source /\ q.readings = p.readings
      /\ q.detail = p.detail /\ q.selections = p.selections /\ q.body = p.body
      /\ q.detailSequence = p.detailSequence /\ q.detailRequest = request
      /\ q.detailRefreshPending = p.detailRefreshPending
      /\ q.context = p.context BY <1>5, <1>6 DEF Fields, SourceKept, ReportKept, DetailKept
<1>8. Current(q) /\ q.data = p.data /\ q.conn = p.conn BY <1>7 DEF SourceKept, Current
<1>9. q.detailRequest # None /\ q.detailRequest.id = p.detailSequence /\ q.detailRequest.n = p.detail.n
      /\ q.detailRequest.at = p.data.at /\ q.detailRequest \in DetailRequests BY <1>4, <1>7
<1>10. q.detailRefreshPending = FALSE BY Zenon, <1>2, <1>7, Zenon
<1>11. q.detailRefreshPending \in BOOLEAN /\ ~q.detailRefreshPending BY Zenon, <1>10
<1>12. DialogHolds(q) BY <1>1, <1>2, <1>7, <1>8, <1>9, <1>11 DEF DialogHolds
<1>13. Following(q, call) BY <1>3, <1>8, <1>9 DEF Following
<1>14. call.step \in Steps /\ call.at \in Nat BY <1>2, <1>3 DEF Steps
<1>15. Unheard(p, q, W) BY <1>7 DEF Unheard, DetailHolds, Heard
<1>16. call.id = q.detailSequence /\ q.detailRequest.id = call.id BY <1>3, <1>7, <1>9
<1>17. DetailHolds(q, W) /\ Adds(p, q, {"detail"})
 BY <1>3, <1>7, <1>8, <1>9, <1>12, <1>13, <1>14, <1>15, <1>16, DetailAsks
<1>18. Shown(q) BY <1>7, <1>8, <1>9 DEF Shown, Latest
<1>19. ForDetail(p, q) BY <1>2, <1>7, <1>17 DEF ForDetail, q
<1> QED BY <1>17, <1>18, <1>19 DEF q

(* Without a dialog there is nothing to show. *)
LEMMA ShowHistoryHolds ==
  ASSUME NEW p, Fits(p), NEW W, DetailHolds(p, W)
  PROVE  ForDetail(p, ShowHistory(p)) /\ DetailHolds(ShowHistory(p), W) /\ Shown(ShowHistory(p))
<1> DEFINE q == ShowHistory(p)
<1>1. Fits(q) BY ShowHistoryStays DEF Stays, Follow
<1>2. /\ q.asks = p.asks /\ SourceKept(p, q) /\ ReportKept(p, q)
      /\ q.page = "history" /\ q.source = p.source /\ q.readings = p.readings
      /\ q.detail = None /\ q.selections = p.selections
      /\ q.detailSequence = p.detailSequence + 1 /\ q.detailRequest = p.detailRequest
      /\ q.detailRefreshPending = p.detailRefreshPending
 BY DEF ShowHistory, Shut, Fits, Fields, SourceKept, ReportKept
<1> HIDE DEF q
<1>3. DialogHolds(p) /\ p.detailSequence \in Nat BY DEF DetailHolds, DialogHolds
<1>4. DialogHolds(q) BY <1>2, <1>3 DEF DialogHolds, SourceKept, Current, DetailRequests
<1>5. DetailHolds(q, W) BY <1>2, <1>3, <1>4, DetailLater DEF SourceKept
<1>6. Adds(p, q, {"detail"}) BY <1>2, AddsNothing
<1> QED BY <1>1, <1>2, <1>3, <1>5, <1>6 DEF ForDetail, Shown, q

(* A dialog that is drawn. *)
LEMMA ShowHolds ==
  ASSUME NEW p, Fits(p), NEW W, DetailHolds(p, W), p.detail # None,
         NEW what \in {"evidence", "ended", "error"}, NEW at \in Nat
  PROVE  LET s == Show(p, p.detail.n, what, at)
         IN /\ ForDetail(p, s) /\ DetailHolds(s, W) /\ s.page = p.page
            /\ s.detail = p.detail /\ s.detailSequence = p.detailSequence /\ s.asks = p.asks
            /\ s.detailRequest = p.detailRequest /\ s.detailRefreshPending = p.detailRefreshPending
            /\ (at = p.data.at /\ (what = "ended" => p.detail.kind # "device")) => Told(s)
<1> DEFINE s == Show(p, p.detail.n, what, at)
           device == p.detail.kind = "device" /\ what = "evidence"
<1>1. DialogHolds(p) /\ p.detail.n \in Nat /\ p.detailSequence \in Nat BY DEF DetailHolds, DialogHolds
<1>2. /\ ForDetail(p, s) /\ s.page = p.page /\ s.asks = p.asks
      /\ s.detail = p.detail /\ s.selections = p.selections
      /\ s.detailSequence = p.detailSequence /\ s.detailRequest = p.detailRequest
      /\ s.detailRefreshPending = p.detailRefreshPending
      /\ s.body \in Bodies /\ s.body.at = at
      /\ s.context = IF device THEN at ELSE p.context
      /\ s.unread = IF what = "error" THEN at ELSE p.unread BY <1>1, ShowFields
<1> HIDE DEF s
<1>3. DialogHolds(s) BY <1>1, <1>2 DEF DialogHolds, ForDetail, SourceKept, Current
<1>4. DetailHolds(s, W) BY <1>1, <1>2, <1>3, DetailLater DEF DialogHolds, ForDetail, SourceKept
<1>5. s.body # None /\ s.data = p.data BY <1>2, PanelAssumption DEF ForDetail, SourceKept
<1>6. ASSUME at = p.data.at, what = "ended" => p.detail.kind # "device" PROVE Told(s)
 BY <1>2, <1>5, <1>6, PanelAssumption DEF Told
<1> QED BY <1>2, <1>4, <1>6 DEF s

(* loadDetail: one request, and a later one remembered. *)
LEMMA RememberHolds ==
  ASSUME NEW p, Fits(p), NEW W, DetailHolds(p, W), p.detail # None, Current(p), p.detailRequest # None,
         p.detailRefreshPending \/ p.detailRequest.n # p.detail.n \/ p.detailRequest.id = p.detailSequence
  PROVE  ForDetail(p, Remember(p, Waiting(p))) /\ DetailHolds(Remember(p, Waiting(p)), W)
         /\ Shown(Remember(p, Waiting(p)))
<1> DEFINE b == Waiting(p)
           q == Remember(p, b)
<1>1. DialogHolds(p) BY DEF DetailHolds
<1>2. b \in BOOLEAN /\ (p.detailRefreshPending => b)
      /\ (~b => p.detailRequest.n = p.detail.n /\ p.detailRequest.at = p.data.at /\ ~p.detailRefreshPending)
 BY <1>1 DEF Waiting, DialogHolds
<1> HIDE DEF b
<1>3. /\ q.detailRefreshPending = b
      /\ q.page = p.page /\ q.detail = p.detail /\ q.asks = p.asks
      /\ q.detailSequence = p.detailSequence /\ q.selections = p.selections
      /\ q.detailRequest = p.detailRequest
      /\ q.context = p.context /\ SourceKept(p, q) /\ ReportKept(p, q)
      /\ q.source = p.source /\ q.readings = p.readings
      /\ Whole(q) /\ Same(p, q) BY DEF Remember, Fits, Fields, SourceKept, ReportKept, Whole, Same
<1> HIDE DEF q
<1>4. Stays(p, q) BY <1>3, SameStays DEF Fits, AsksFit, SourceKept
<1>5. Adds(p, q, {"detail"}) BY <1>3, AddsNothing
<1>6. ForDetail(p, q) BY <1>1, <1>3, <1>4, <1>5 DEF ForDetail, DialogHolds, Stays, Follow
<1>7. DialogHolds(q) BY <1>1, <1>2, <1>3 DEF DialogHolds, SourceKept, Current
<1>8. DetailHolds(q, W) BY <1>2, <1>3, <1>1, <1>7, DetailLater DEF DialogHolds, SourceKept
<1>9. Shown(q) BY <1>3, <1>2 DEF SourceKept, Shown, Latest
<1> QED BY <1>6, <1>8, <1>9 DEF q, b

(* What is shown of an earlier evidence may go. *)
LEMMA BodyHolds ==
  ASSUME NEW p, Fits(p), NEW W, DetailHolds(p, W), ~Current(p), NEW body \in {p.body, None}
  PROVE  LET q == [p EXCEPT !.body = body]
         IN ForDetail(p, q) /\ DetailHolds(q, W) /\ Shown(q)
<1> DEFINE q == [p EXCEPT !.body = body]
<1>1. /\ q.body = body /\ q.detailRefreshPending = p.detailRefreshPending
      /\ q.page = p.page /\ q.detail = p.detail /\ q.asks = p.asks
      /\ q.detailSequence = p.detailSequence /\ q.selections = p.selections
      /\ q.detailRequest = p.detailRequest /\ q.response = p.response
      /\ q.context = p.context /\ SourceKept(p, q) /\ ReportKept(p, q)
      /\ q.source = p.source /\ q.readings = p.readings
      /\ Beside(p, q) BY DEF Fits, Fields, SourceKept, ReportKept, Whole, Beside
<1> HIDE DEF q
<1>2. q.body # None => q.detail # None /\ q.body.n = q.detail.n BY <1>1 DEF Fits, DetailFits
<1>3. ResponseFits(q) /\ Saved(q) \subseteq Saved(p) BY <1>1, SameSaved DEF Fits, ResponseFits
<1>4. Stays(p, q) BY <1>1, <1>2, <1>3, BesideStays
<1>5. Adds(p, q, {"detail"}) BY <1>1, AddsNothing
<1>7. DialogHolds(p) BY DEF DetailHolds
<1>6. ForDetail(p, q) BY <1>1, <1>4, <1>5, <1>7 DEF ForDetail, DialogHolds, Stays, Follow
<1>8. DialogHolds(q) BY <1>1, <1>7 DEF DialogHolds, SourceKept, Current
<1>9. DetailHolds(q, W) BY <1>1, <1>7, <1>8, DetailLater DEF DialogHolds, SourceKept
<1>10. Shown(q) BY <1>1 DEF Shown, SourceKept, Current
<1> QED BY <1>6, <1>9, <1>10 DEF q

(* loadDetail, for which the dialog is or will be up to date. *)
LEMMA LoadDetailHolds ==
  ASSUME NEW p, Fits(p), NEW W, DetailHolds(p, W), Timely(p),
         (p.detailRequest # None /\ p.detail # None) =>
           p.detailRefreshPending \/ p.detailRequest.n # p.detail.n \/ p.detailRequest.id = p.detailSequence
  PROVE  Redraws(p, LoadDetail(p), W)
<1> DEFINE b == Bump(p)
           q == LoadDetail(p)
<1>1. /\ ForDetail(p, b) /\ DetailHolds(b, W) /\ b.page = p.page
      /\ b.detail = p.detail /\ b.asks = p.asks /\ b.body = p.body
      /\ \A c \in Under(b, W) : ~Heard(b, c)
      /\ b.detailRequest = p.detailRequest BY BumpHolds
<1>2. Fits(b) /\ (Current(b) <=> Current(p)) /\ Timely(b) /\ b.data = p.data
 BY <1>1 DEF ForDetail, SourceKept, Current, Timely
<1>3. Fits(q) BY LoadDetailStays DEF Stays, Follow
<1>4. ASSUME NEW r, ForDetail(b, r) /\ DetailHolds(r, W) /\ Shown(r) PROVE Redraws(p, r, W)
 BY <1>1, <1>4, ForDetailThen DEF Redraws
<1>5. CASE p.detail = None /\ q = b BY <1>1, <1>5 DEF Shown, Redraws
<1>6. CASE /\ p.detail # None /\ ~Current(p)
           /\ \E body \in {p.body, None} : q = [b EXCEPT !.body = body]
 <2>1. PICK body \in {b.body, None} : q = [b EXCEPT !.body = body] BY <1>1, <1>6
 <2> HIDE DEF b, q
 <2>2. ForDetail(b, q) /\ DetailHolds(q, W) /\ Shown(q) BY Zenon, <1>1, <1>2, <1>6, <2>1, BodyHolds
 <2> QED BY <1>4, <2>2 DEF q
<1>7. CASE /\ p.detail # None /\ Current(p) /\ p.detailRequest # None
           /\ q = Remember(p, Waiting(p))
 <2> HIDE DEF q
 <2> QED BY <1>7, RememberHolds DEF Redraws, q
<1>8. CASE /\ p.detail # None /\ Current(p) /\ p.detailRequest = None
           /\ \E step \in {"context", "node"} : q = Fetch(b, step)
 <2>1. PICK step \in {"context", "node"} : q = Fetch(b, step) BY <1>8
 <2> HIDE DEF b, q
 <2>2. Fits(Fetch(b, step)) BY <1>3, <2>1
 <2>3. ForDetail(b, q) /\ DetailHolds(q, W) /\ Shown(q) BY <1>1, <1>2, <1>8, <2>1, <2>2, FetchHolds
 <2> QED BY <1>4, <2>3 DEF q
<1>9. CASE q = ShowHistory(b)
 <2> HIDE DEF b, q
 <2>1. ForDetail(b, ShowHistory(b)) /\ DetailHolds(ShowHistory(b), W) /\ Shown(ShowHistory(b))
  BY <1>1, <1>2, ShowHistoryHolds
 <2>2. Redraws(p, ShowHistory(b), W) BY <1>4, <2>1
 <2> QED BY <1>9, <2>2 DEF q
<1>10. CASE /\ p.detail # None /\ Current(p) /\ p.detailRequest = None /\ p.detail.kind # "device"
            /\ q = Show(b, b.detail.n, "ended", b.data.at)
 <2> HIDE DEF b, q
 <2> DEFINE s == Show(b, b.detail.n, "ended", b.data.at)
 <2>1. b.data.at \in Nat /\ b.detail # None /\ b.detail.kind # "device" BY <1>1, <1>2, <1>10 DEF Timely
 <2>2. ForDetail(b, s) /\ DetailHolds(s, W) /\ s.detailRequest = b.detailRequest /\ Told(s)
  BY <1>1, <1>2, <2>1, ShowHolds
 <2> HIDE DEF s
 <2>3. Shown(s) BY <1>1, <1>10, <2>2 DEF Shown
 <2>4. Redraws(p, s, W) BY <1>4, <2>2, <2>3
 <2> QED BY <1>10, <2>4 DEF q, s
<1> QED BY <1>5, <1>6, <1>7, <1>8, <1>9, <1>10, LoadDetailCases

(* With nothing just asked for, what is under way is under way. *)
LEMMA UnderNone ==
  ASSUME NEW p, p.asks = <<>>, NEW W
  PROVE  Under(p, W) = W /\ DOMAIN p.asks = {}
BY NoneFacts DEF Under

(* The end of a read of the dialog. *)
LEMMA SettledHolds ==
  ASSUME NEW p, Fits(p), NEW W, NEW call, DetailHolds(p, W \cup {call}), call.slot = "detail",
         FinalRead(p, call, W), p.detailRequest # None, p.detailRequest.id = call.id
  PROVE  /\ ForDetail(p, Settled(p)) /\ DetailHolds(Settled(p), W) /\ Unasked(Settled(p))
         /\ Settled(p).detail = p.detail /\ Settled(p).page = p.page
         /\ (Told(p) => Told(Settled(p)))
<1> DEFINE q == Settled(p)
<1>1. /\ q.detailRequest = None /\ q.detailRefreshPending = FALSE
      /\ q.page = p.page /\ q.detail = p.detail /\ q.asks = p.asks
      /\ q.detailSequence = p.detailSequence /\ q.selections = p.selections
      /\ q.context = p.context /\ q.body = p.body /\ q.unread = p.unread
      /\ SourceKept(p, q) /\ ReportKept(p, q)
      /\ q.source = p.source /\ q.readings = p.readings
      /\ Whole(q) /\ Same(p, q) BY Zenon DEF Settled, Fits, Fields, SourceKept, ReportKept, Whole, Same
<1> HIDE DEF q
<1>2. Stays(p, q) BY <1>1, SameStays DEF Fits, AsksFit, SourceKept
<1>3. Adds(p, q, {"detail"}) BY <1>1, AddsNothing
<1>5. DialogHolds(p) BY DEF DetailHolds
<1>4. ForDetail(p, q) BY <1>1, <1>2, <1>3, <1>5 DEF ForDetail, DialogHolds, Stays, Follow
<1>6. DialogHolds(q) BY Zenon, <1>1, <1>5 DEF DialogHolds
<1>7. Under(p, W \cup {call}) = W \cup {call} /\ Under(q, W) = W /\ DOMAIN q.asks = {}
 BY <1>1, UnderNone DEF FinalRead
<1>8. ASSUME NEW c \in W, Heard(q, c) PROVE FALSE
 BY Zenon, <1>1, <1>8, <1>7 DEF Heard, DetailHolds, Following, FinalRead
<1>9. \A c \in W : c.slot = "detail" =>
        c.id \in Nat /\ c.id <= q.detailSequence /\ c.step \in Steps /\ c.at \in Nat
 BY <1>1, <1>7 DEF DetailHolds
<1>10. DetailHolds(q, W) BY <1>1, <1>6, <1>7, <1>8, <1>9 DEF DetailHolds
<1>11. Told(p) => Told(q) BY <1>1 DEF Told, SourceKept
<1> QED BY <1>1, <1>4, <1>10, <1>11 DEF q, Unasked

(* The finally block of a read, with the refresh that waited. *)
LEMMA DetailDoneHolds ==
  ASSUME NEW p, Fits(p), Timely(p), NEW W, NEW call, DetailHolds(p, W \cup {call}), call.slot = "detail",
         FinalRead(p, call, W),
         (p.detailRequest # None /\ p.detailRequest.id = call.id /\ ~p.detailRefreshPending
          /\ p.detail # None /\ Current(p)) => Told(p),
         (p.detailRequest = None \/ p.detailRequest.id # call.id) => Shown(p)
  PROVE  Redraws(p, DetailDone(p, call), W)
<1> DEFINE q == Settled(p)
           d == DetailDone(p, call)
<1>1. CASE p.detailRequest = None \/ p.detailRequest.id # call.id
 <2>1. d = p BY <1>1 DEF DetailDone
 <2>2. Under(p, W \cup {call}) = W \cup {call} /\ Under(p, W) = W BY UnderNone DEF FinalRead
 <2>3. DetailHolds(p, W)
  <3>1. \A c \in W : c \in W \cup {call} OBVIOUS
  <3>2. \A c \in W \cup {call} : c \in W \/ c = call OBVIOUS
  <3> QED BY Zenon, <1>1, <2>2, <3>1, <3>2 DEF DetailHolds
 <2>4. ForDetail(p, p) BY ForDetailNothing DEF DetailHolds, DialogHolds
 <2> HIDE DEF d
 <2>5. Redraws(p, p, W) BY <1>1, <2>3, <2>4 DEF Redraws
 <2> QED BY <2>1, <2>5 DEF d
<1>2. CASE p.detailRequest # None /\ p.detailRequest.id = call.id
 <2>1. /\ ForDetail(p, q) /\ DetailHolds(q, W) /\ Unasked(q) /\ q.detail = p.detail
       /\ (Told(p) => Told(q)) BY <1>2, SettledHolds
 <2>2. d = IF p.detailRefreshPending /\ p.detail # None /\ Current(p) THEN LoadDetail(q) ELSE q
  BY <1>2 DEF DetailDone, Settled
 <2> HIDE DEF q
 <2>3. Fits(q) /\ Timely(q) /\ (Current(q) <=> Current(p)) BY <2>1 DEF ForDetail, SourceKept, Timely, Current
 <2>4. CASE p.detailRefreshPending /\ p.detail # None /\ Current(p)
  <3> DEFINE l == LoadDetail(q)
  <3>1. Redraws(q, l, W) BY <2>1, <2>3, LoadDetailHolds DEF Unasked
  <3> HIDE DEF l
  <3>2. Redraws(p, l, W) BY <2>1, <3>1, ForDetailThen DEF Redraws
  <3>3. d = l BY <2>2, <2>4 DEF l
  <3> HIDE DEF d
  <3> QED BY <3>2, <3>3 DEF d
 <2>5. CASE ~(p.detailRefreshPending /\ p.detail # None /\ Current(p))
  <3>1. Shown(q) BY <1>2, <2>1, <2>3, <2>5 DEF Shown, Unasked
  <3>2. Redraws(p, q, W) BY <2>1, <3>1 DEF Redraws
  <3>3. d = q BY <2>2, <2>5
  <3> HIDE DEF d
  <3> QED BY <3>2, <3>3 DEF d
 <2> QED BY <2>4, <2>5
<1> QED BY <1>1, <1>2

(* The next request of a chain but for its step. *)
LEMMA NextCallFields ==
  ASSUME NEW call, DOMAIN call = {"slot", "id", "n", "conn", "step", "at"}, NEW step, NEW at
  PROVE  /\ NextCall(call, step, at).slot = call.slot /\ NextCall(call, step, at).id = call.id
         /\ NextCall(call, step, at).n = call.n /\ NextCall(call, step, at).conn = call.conn
         /\ NextCall(call, step, at).step = step /\ NextCall(call, step, at).at = at
BY DEF NextCall

(* What an answer of a chain does. *)
LEMMA DetailReplyCases ==
  ASSUME NEW p, NEW call, call.step \in Steps, NEW answer
  PROVE  \/ ~DetailCurrent(p, call) /\ DetailReply(p, call, answer) = DetailDone(p, call)
         \/ /\ DetailCurrent(p, call)
            /\ \/ DetailReply(p, call, answer) = DetailDone(Show(p, p.detail.n, "error", p.data.at), call)
               \/ \E step \in {"coverage", "page"} :
                    DetailReply(p, call, answer) = Ask(p, NextCall(call, step, answer.at))
               \/ call.step = "node" /\ DetailReply(p, call, answer)
                    = DetailDone(Show(p, p.detail.n, "evidence", answer.at), call)
               \/ call.step \in {"coverage", "page"} /\ DetailReply(p, call, answer)
                    = DetailDone(Show(p, p.detail.n, "evidence", call.at), call)
<1> DEFINE d == DetailReply(p, call, answer)
<1>1. CASE ~DetailCurrent(p, call) BY <1>1 DEF DetailReply
<1>2. CASE DetailCurrent(p, call) /\ ~answer.ok /\ call.step # "coverage" BY <1>2 DEF DetailReply, DetailCurrent
<1>3. CASE DetailCurrent(p, call) /\ (answer.ok \/ call.step = "coverage")
 BY <1>3 DEF DetailCurrent, DetailReply, NextCall, Steps
<1> QED BY <1>1, <1>2, <1>3

(* The dialog is drawn and the read is over. *)
LEMMA DrawnDoneHolds ==
  ASSUME NEW p, Fits(p), Timely(p), NEW W, NEW call, DetailHolds(p, W \cup {call}), call.slot = "detail",
         FinalRead(p, call, W), p.detail # None, p.detailRequest # None, p.detailRequest.id = call.id,
         NEW what \in {"evidence", "error"}, NEW at \in Nat, ~p.detailRefreshPending => at = p.data.at
  PROVE  Redraws(p, DetailDone(Show(p, p.detail.n, what, at), call), W)
<1> DEFINE s == Show(p, p.detail.n, what, at)
<1>0. what \in {"evidence", "ended", "error"} /\ what # "ended" OBVIOUS
<1>1. /\ ForDetail(p, s) /\ DetailHolds(s, W \cup {call})
      /\ s.detail = p.detail /\ s.detailSequence = p.detailSequence /\ s.asks = p.asks
      /\ s.detailRequest = p.detailRequest /\ s.detailRefreshPending = p.detailRefreshPending
      /\ (at = p.data.at /\ (what = "ended" => p.detail.kind # "device")) => Told(s) BY <1>0, ShowHolds
<1> HIDE DEF s
<1>2. Fits(s) /\ Timely(s) BY <1>1 DEF ForDetail, SourceKept, Timely, Current
<1>3. FinalRead(s, call, W) BY <1>1 DEF FinalRead, Heard
<1>4. s.detailRequest # None /\ s.detailRequest.id = call.id /\ (~s.detailRefreshPending => Told(s))
 BY <1>0, <1>1
<1>5. Redraws(s, DetailDone(s, call), W) BY <1>1, <1>2, <1>3, <1>4, DetailDoneHolds
<1> DEFINE d == DetailDone(s, call)
<1> HIDE DEF d
<1>6. Redraws(s, d, W) BY <1>5 DEF d
<1>7. Redraws(p, d, W) BY <1>1, <1>6, ForDetailThen DEF Redraws
<1> QED BY <1>7 DEF d, s

(* The next request of the chain. *)
LEMMA NextHolds ==
  ASSUME NEW p, Fits(p), NEW W, NEW call, DetailHolds(p, W \cup {call}), Heard(p, call), ReadFits(call),
         FinalRead(p, call, W), Shown(p), p.detail # None, NEW step \in {"coverage", "page"},
         NEW at \in Nat, at = p.data.at, Current(p)
  PROVE  Redraws(p, Ask(p, NextCall(call, step, at)), W)
<1> DEFINE next == NextCall(call, step, at)
           q == Ask(p, next)
<1>0. DOMAIN call = {"slot", "id", "n", "conn", "step", "at"} /\ call.slot = "detail" BY DEF Heard, ReadFits
<1>1. /\ next.slot = "detail" /\ next.id = call.id /\ next.n = call.n /\ next.conn = call.conn
      /\ next.step = step /\ next.at = at BY <1>0, NextCallFields
<1>2. ReadFits(next)
 <2>1. DOMAIN next = {"slot", "id", "n", "conn", "step", "at"} BY <1>0 DEF NextCall
 <2> HIDE DEF next
 <2> QED BY <1>1, <2>1 DEF ReadFits
<1>3. Fits(q) BY <1>2, AskStays DEF Stays, Follow
<1> HIDE DEF next
<1>4. /\ q.asks = Append(p.asks, next) /\ SourceKept(p, q) /\ ReportKept(p, q) /\ DetailKept(p, q)
      /\ q.page = p.page /\ q.source = p.source /\ q.readings = p.readings
 BY DEF Ask, Fits, Fields, SourceKept, ReportKept, DetailKept
<1> HIDE DEF q
<1>5. Under(p, W \cup {call}) = W \cup {call} /\ Under(p, W) = W BY UnderNone DEF FinalRead
<1>6. Following(p, call) BY <1>5 DEF DetailHolds
<1>7. DialogHolds(p) /\ DialogHolds(q) BY <1>4 DEF DetailHolds, DialogHolds, DetailKept, Current
<1>8. (~p.detailRefreshPending => at = p.detailRequest.at) BY <1>6 DEF Shown, Following
<1>9. Following(q, next) BY <1>1, <1>4, <1>6, <1>8 DEF Following, DetailKept
<1>10. Unheard(p, q, W)
 <2>1. \A c \in W : ~Heard(q, c) BY <1>4 DEF FinalRead, Heard, DetailKept
 <2>2. \A c \in W : c.slot = "detail" =>
         c.id \in Nat /\ c.id <= q.detailSequence /\ c.step \in Steps /\ c.at \in Nat
  BY Zenon, <1>4, <1>5 DEF DetailHolds, DetailKept
 <2> QED BY <1>5, <2>1, <2>2 DEF Unheard
<1>11. q.detailRequest # None /\ q.detailRequest.id = next.id /\ next.id = q.detailSequence
 BY <1>1, <1>4, <1>6 DEF DetailKept, Following, Heard
<1>12. next.step \in Steps /\ next.at \in Nat BY <1>1 DEF Steps
<1>13. DetailHolds(q, W) /\ Adds(p, q, {"detail"})
 BY <1>1, <1>4, <1>7, <1>9, <1>10, <1>11, <1>12, DetailAsks DEF DetailKept
<1>14. Shown(q) BY <1>4 DEF Shown, DetailKept, Current, Told, Latest
<1>15. ForDetail(p, q) BY <1>3, <1>4, <1>7, <1>13 DEF ForDetail, DetailKept, DialogHolds, q
<1>16. Redraws(p, q, W) BY <1>13, <1>14, <1>15 DEF Redraws
<1> QED BY <1>16 DEF q, next

(* readDetail, when an answer of its chain comes. *)
LEMMA DetailReplyHolds ==
  ASSUME NEW p, Fits(p), Timely(p), NEW W, NEW call, DetailHolds(p, W \cup {call}), call.slot = "detail",
         ReadFits(call), FinalRead(p, call, W), Shown(p), NEW answer, Prompt(p, call, answer)
  PROVE  Redraws(p, DetailReply(p, call, answer), W)
<1> DEFINE d == DetailReply(p, call, answer)
<1>1. Under(p, W \cup {call}) = W \cup {call} BY UnderNone DEF FinalRead
<1>2. call.step \in Steps /\ call.at \in Nat BY <1>1 DEF DetailHolds
<1>3. Heard(p, call) => Following(p, call) BY Zenon, <1>1 DEF DetailHolds
<1>4. CASE ~DetailCurrent(p, call)
 <2>1. d = DetailDone(p, call) BY <1>4 DEF DetailReply
 <2>2. (p.detailRequest # None /\ p.detailRequest.id = call.id /\ ~p.detailRefreshPending
        /\ p.detail # None /\ Current(p)) => Told(p)
  BY <1>3, <1>4 DEF Shown, Latest, Heard, Following, DetailCurrent
 <2>3. Redraws(p, DetailDone(p, call), W) BY <2>2, DetailDoneHolds
 <2> HIDE DEF d
 <2> QED BY <2>1, <2>3 DEF d
<1>5. CASE DetailCurrent(p, call)
 <2>1. Heard(p, call) /\ p.detail # None /\ Current(p) /\ call.conn = p.conn BY <1>5 DEF DetailCurrent, Heard
 <2>2. Following(p, call) BY <1>3, <2>1
 <2>3. p.detailRequest # None /\ p.detailRequest.id = call.id BY <2>2 DEF Following
 <2>4. answer.at \in Nat /\ answer.at = p.data.at /\ p.data.at \in Nat BY <2>1 DEF Prompt
 <2>5. call.step \in {"coverage", "page"} => (~p.detailRefreshPending => call.at = p.data.at)
  BY <2>1, <2>2, <2>3 DEF Following, Shown
 <2>6. ASSUME d = DetailDone(Show(p, p.detail.n, "error", p.data.at), call) PROVE Redraws(p, d, W)
  <3>1. Redraws(p, DetailDone(Show(p, p.detail.n, "error", p.data.at), call), W)
   BY <2>1, <2>3, <2>4, DrawnDoneHolds
  <3> HIDE DEF d
  <3> QED BY <2>6, <3>1
 <2>7. ASSUME NEW step \in {"coverage", "page"}, d = Ask(p, NextCall(call, step, answer.at))
       PROVE  Redraws(p, d, W)
  <3>1. Redraws(p, Ask(p, NextCall(call, step, answer.at)), W) BY <2>1, <2>4, NextHolds
  <3> HIDE DEF d
  <3> QED BY <2>7, <3>1
 <2>8. ASSUME d = DetailDone(Show(p, p.detail.n, "evidence", answer.at), call) PROVE Redraws(p, d, W)
  <3>1. Redraws(p, DetailDone(Show(p, p.detail.n, "evidence", answer.at), call), W)
   BY <2>1, <2>3, <2>4, DrawnDoneHolds
  <3> HIDE DEF d
  <3> QED BY <2>8, <3>1
 <2>9. ASSUME call.step \in {"coverage", "page"}, d = DetailDone(Show(p, p.detail.n, "evidence", call.at), call)
       PROVE  Redraws(p, d, W)
  <3>1. Redraws(p, DetailDone(Show(p, p.detail.n, "evidence", call.at), call), W)
   BY <1>2, <2>1, <2>3, <2>5, <2>9, DrawnDoneHolds
  <3> HIDE DEF d
  <3> QED BY <2>9, <3>1
 <2> QED BY <1>2, <1>5, <2>6, <2>7, <2>8, <2>9, DetailReplyCases
<1> QED BY <1>4, <1>5

(* A selection, before it is read. *)
LEMMA SelectingHolds ==
  ASSUME NEW p, Fits(p), NEW W, DetailHolds(p, W), NEW kind, NEW id, p.tool = None,
         kind = "episode" => p.reportEpisode = None
  PROVE  /\ ForDetail(p, Selecting(p, kind, id)) /\ DetailHolds(Selecting(p, kind, id), W)
         /\ Selecting(p, kind, id).detailRequest # None =>
              Selecting(p, kind, id).detailRequest.n # Selecting(p, kind, id).detail.n
<1> DEFINE detail == [kind |-> kind, id |-> id, n |-> p.selections + 1]
           q == [p EXCEPT !.detail = detail, !.selections = @ + 1, !.body = None, !.response = None,
                          !.context = None]
<1>1. Selecting(p, kind, id) = q BY DEF Selecting
<1>2. /\ detail = [kind |-> detail.kind, id |-> detail.id, n |-> detail.n] /\ detail.kind = kind
      /\ detail.n = p.selections + 1 OBVIOUS
<1> HIDE DEF detail
<1>3. /\ Whole(q) /\ q.detail = detail /\ q.selections = p.selections + 1 /\ q.body = None
      /\ q.response = None /\ q.status = p.status /\ q.pending = p.pending /\ q.data = p.data
      /\ q.report = p.report /\ q.reportStatus = p.reportStatus /\ q.members = p.members
      /\ q.reportEpisode = p.reportEpisode /\ q.tool = None /\ q.pane = p.pane /\ q.asks = p.asks
 BY ZenonT(40) DEF Fits, Fields, Whole
<1>4. /\ SourceKept(p, q) /\ ReportKept(p, q) /\ q.page = p.page
      /\ q.source = p.source /\ q.readings = p.readings
      /\ q.detailSequence = p.detailSequence /\ q.detailRequest = p.detailRequest
      /\ q.detailRefreshPending = p.detailRefreshPending /\ q.context = None
 BY DEF Fits, Fields, SourceKept, ReportKept
<1> HIDE DEF q
<1>5. DetailFits(q) /\ ResponseFits(q) BY <1>2, <1>3 DEF Fits, DetailFits, ResponseFits
<1>6. ReportFits(q) BY <1>2, <1>3 DEF Fits, ReportFits
<1>7. ToolFits(q) /\ p.selections \in Nat BY <1>3 DEF Fits, ToolFits
<1>8. PaneFits(q.pane) /\ AsksFit(q) BY <1>3 DEF Fits, AsksFit
<1>9. Fits(q) BY <1>3, <1>5, <1>6, <1>7, <1>8 DEF Fits, Whole
<1>10. DialogHolds(p) /\ p.detailSequence \in Nat BY DEF DetailHolds, DialogHolds
<1>11. Adds(p, q, {"detail"}) BY <1>3, AddsNothing
<1>12. ForDetail(p, q) BY <1>4, <1>9, <1>10, <1>11 DEF ForDetail
<1>13. p.detailRequest # None => p.detailRequest.n \in Nat /\ p.detailRequest.n <= p.selections
 BY <1>10 DEF DialogHolds, DetailRequests
<1>14. DialogHolds(q) BY <1>2, <1>3, <1>4, <1>7, <1>10, <1>13 DEF DialogHolds, SourceKept, Current
<1>15. DetailHolds(q, W) BY <1>3, <1>4, <1>10, <1>14, DetailLater DEF SourceKept
<1>16. q.detailRequest # None => q.detailRequest.n # q.detail.n BY <1>2, <1>3, <1>4, <1>7, <1>13
<1> QED BY <1>1, <1>12, <1>15, <1>16

(* openDetail: another selection, which is read. *)
LEMMA OpenDetailHolds ==
  ASSUME NEW p, Fits(p), Timely(p), NEW W, DetailHolds(p, W), NEW kind, NEW id, p.tool = None,
         kind = "episode" => p.reportEpisode = None
  PROVE  Redraws(p, OpenDetail(p, kind, id), W)
<1> DEFINE q == Selecting(p, kind, id)
           l == LoadDetail(q)
<1>1. OpenDetail(p, kind, id) = l BY DEF OpenDetail, Selecting
<1>2. /\ ForDetail(p, q) /\ DetailHolds(q, W)
      /\ q.detailRequest # None => q.detailRequest.n # q.detail.n BY SelectingHolds
<1> HIDE DEF q
<1>3. Fits(q) /\ Timely(q) BY <1>2 DEF ForDetail, SourceKept, Timely, Current
<1>4. Redraws(q, l, W) BY <1>2, <1>3, LoadDetailHolds
<1> HIDE DEF l
<1>5. Redraws(p, l, W) BY <1>2, <1>4, ForDetailThen DEF Redraws
<1> QED BY <1>1, <1>5

(* A dialog that is closed. *)
LEMMA ShutHolds ==
  ASSUME NEW p, Fits(p), NEW W, DetailHolds(p, W)
  PROVE  Redraws(p, Shut(p), W) /\ Shut(p).page = p.page
<1> DEFINE q == Shut(p)
<1>1. Fits(q) BY ShutStays DEF Stays, Follow
<1>2. /\ q.asks = p.asks /\ SourceKept(p, q) /\ ReportKept(p, q)
      /\ q.page = p.page /\ q.source = p.source /\ q.readings = p.readings
      /\ q.detail = None /\ q.selections = p.selections
      /\ q.detailSequence = p.detailSequence + 1 /\ q.detailRequest = p.detailRequest
      /\ q.detailRefreshPending = p.detailRefreshPending BY DEF Shut, Fits, Fields, SourceKept, ReportKept
<1> HIDE DEF q
<1>3. DialogHolds(p) /\ p.detailSequence \in Nat BY DEF DetailHolds, DialogHolds
<1>4. DialogHolds(q) BY <1>2, <1>3 DEF DialogHolds, SourceKept, Current, DetailRequests
<1>5. DetailHolds(q, W) BY <1>2, <1>3, <1>4, DetailLater DEF SourceKept
<1>6. Adds(p, q, {"detail"}) BY <1>2, AddsNothing
<1>7. ForDetail(p, q) BY <1>1, <1>2, <1>3, <1>6 DEF ForDetail
<1>8. Shown(q) BY <1>2 DEF Shown
<1>9. Redraws(p, q, W) BY <1>5, <1>7, <1>8 DEF Redraws
<1> QED BY <1>2, <1>9 DEF q

(* renderDeviceIssues: the device as it was read last. *)
LEMMA RenderedHolds ==
  ASSUME NEW p, Fits(p), NEW W, DetailHolds(p, W), Shown(p)
  PROVE  /\ Redraws(p, Rendered(p), W) /\ Rendered(p).page = p.page /\ Rendered(p).asks = p.asks
         /\ Rendered(p).detailRequest = p.detailRequest
<1>1. DialogHolds(p) /\ p.detailSequence \in Nat BY DEF DetailHolds, DialogHolds
<1>2. CASE Rendered(p) = p BY <1>1, ForDetailNothing, <1>2 DEF Redraws
<1>3. CASE p.detail # None /\ p.context # None /\ Rendered(p) = Show(p, p.detail.n, "evidence", p.context)
 <2> DEFINE s == Show(p, p.detail.n, "evidence", p.context)
 <2>1. p.context \in Nat /\ p.detail.kind = "device" /\ p.detail.n \in Nat BY <1>1, <1>3 DEF DialogHolds
 <2>2. /\ ForDetail(p, s) /\ s.page = p.page /\ s.asks = p.asks
       /\ s.detail = p.detail /\ s.detailSequence = p.detailSequence /\ s.detailRequest = p.detailRequest
       /\ s.detailRefreshPending = p.detailRefreshPending
       /\ s.body \in Bodies /\ s.body.at = p.context
       /\ s.context = p.context /\ s.unread = p.unread BY <1>1, <1>3, <2>1, ShowFields
 <2>3. DetailHolds(s, W) BY <1>3, <2>1, ShowHolds
 <2> HIDE DEF s
 <2>4. s.data = p.data /\ (Current(s) <=> Current(p)) /\ s.body # None
  BY <2>2, PanelAssumption DEF ForDetail, SourceKept, Current
 <2>5. Told(p) => Told(s) BY <1>3, <2>1, <2>2, <2>4 DEF Told
 <2>6. Shown(s) BY <2>2, <2>4, <2>5 DEF Shown, Latest
 <2>7. Redraws(p, s, W) BY <2>2, <2>3, <2>6 DEF Redraws
 <2> QED BY <1>3, <2>2, <2>7 DEF s
<1>4. Rendered(p) = p \/ (p.detail # None /\ p.context # None
                          /\ Rendered(p) = Show(p, p.detail.n, "evidence", p.context)) BY DEF Rendered
<1> QED BY <1>2, <1>3, <1>4

(* What else changes leaves the report and its requests alone. *)
LEMMA ReportFrame ==
  ASSUME NEW p, NEW W, ReportHolds(p, W), NEW q, ReportKept(p, q),
         NEW slots, Adds(p, q, slots)
  PROVE  ReportHolds(q, W) /\ (ReportAsked(p) => ReportAsked(q))
<1>1. Under(p, W) \subseteq Under(q, W) BY UnderAdds
<1>2. \A call : OfReport(p, call) => OfReport(q, call) BY DEF OfReport, ReportKept
<1>3. ReportHolds(q, W) BY <1>1, <1>2 DEF ReportHolds, ReportKept
<1>4. ReportAsked(p) => ReportAsked(q) BY DEF ReportAsked, ReportKept, Current
<1> QED BY <1>3, <1>4

(* No step at all is a step of the report, *)
LEMMA ForReportNothing == \A p : Fits(p) => ForReport(p, p)
<1> TAKE p
<1> HAVE Fits(p)
<1>1. Adds(p, p, {"report"}) BY AddsNothing
<1> QED BY <1>1 DEF ForReport, SourceKept, DetailKept

(* and two of them are one. *)
LEMMA ForReportThen ==
  ASSUME NEW p, NEW q, NEW r, ForReport(p, q), ForReport(q, r)
  PROVE  ForReport(p, r)
BY AddsThen DEF ForReport, SourceKept, DetailKept

(* It leaves the source and the dialog alone. *)
LEMMA ForReportOthers ==
  ASSUME NEW p, NEW W, NEW q, ForReport(p, q)
  PROVE  /\ SourceHolds(p, W) => SourceHolds(q, W)
         /\ Timely(p) => Timely(q)
         /\ Weight(q) = Weight(p)
         /\ Caught(p) => Caught(q)
         /\ DetailHolds(p, W) => DetailHolds(q, W) /\ (Shown(p) => Shown(q))
BY SourceFrame, DetailFrame DEF ForReport, Timely, SourceKept, Current, Weight, Stamp, Previous,
  Caught

(* loadNotificationReport: one read of it. *)
LEMMA LoadReportHolds ==
  ASSUME NEW p, Fits(p), NEW W, ReportHolds(p, W)
  PROVE  /\ ForReport(p, LoadReport(p)) /\ ReportHolds(LoadReport(p), W) /\ ReportAsked(LoadReport(p))
         /\ (~Current(p) => LoadReport(p) = p)
<1> DEFINE call == [slot |-> "report", id |-> p.reportSequence + 1, got |-> <<>>]
           r == [p EXCEPT !.reportSequence = @ + 1, !.reportRequest = p.reportSequence + 1,
                          !.reportStatus = "loading"]
           q == Ask(r, call)
           l == LoadReport(p)
           idle == \/ p.report = None \/ ~Current(p) \/ p.reportRequest # None
                   \/ p.reportStatus \in {"available", "expired", "error"}
<1>1. l = IF idle THEN p ELSE q BY DEF LoadReport
<1>2. Fits(l) BY LoadReportOpens DEF Opens, Follow
<1>3. CASE idle
 <2>1. ReportAsked(p) BY <1>3 DEF ReportAsked
 <2>2. ForReport(p, p) BY ForReportNothing
 <2>3. l = p BY <1>1, <1>3
 <2> HIDE DEF l
 <2> QED BY <2>1, <2>2, <2>3 DEF l
<1>4. CASE ~idle
 <2>1. call.slot = "report" /\ call.id = p.reportSequence + 1 OBVIOUS
 <2>2. p.report # None /\ Current(p) /\ p.reportSequence \in Nat BY <1>4 DEF ReportHolds
 <2>3. l = q BY <1>1, <1>4
 <2> HIDE DEF call
 <2>4. /\ r.asks = p.asks /\ SourceKept(p, r) /\ DetailKept(p, r) /\ DOMAIN r = Fields
       /\ r.page = p.page /\ r.source = p.source /\ r.readings = p.readings
       /\ r.report = p.report /\ r.reportSequence = p.reportSequence + 1
       /\ r.reportRequest = p.reportSequence + 1 BY DEF Fits, Fields, SourceKept, DetailKept
 <2> HIDE DEF r
 <2>5. q = [r EXCEPT !.asks = Append(p.asks, call)] BY <2>4 DEF Ask
 <2> HIDE DEF q
 <2>6. /\ q.asks = Append(p.asks, call) /\ SourceKept(p, q) /\ DetailKept(p, q)
       /\ q.page = p.page /\ q.source = p.source /\ q.readings = p.readings
       /\ q.report = p.report /\ q.reportSequence = p.reportSequence + 1
       /\ q.reportRequest = p.reportSequence + 1 BY <2>4, <2>5 DEF Fields, SourceKept, DetailKept
 <2>7. Adds(p, q, {"report"}) /\ Range(q.asks) = Range(p.asks) \cup {call}
  <3>1. Adds(p, q, {"report"}) BY Zenon, <2>1, <2>6, AddsOne
  <3>2. Range(q.asks) = Range(p.asks) \cup {call} BY <2>6, AppendFits DEF Fits, AsksFit
  <3> QED BY <3>1, <3>2
 <2>8. ForReport(p, q) BY <1>2, <2>3, <2>6, <2>7 DEF ForReport
 <2>9. call \in Under(q, W) BY <2>7 DEF Under
 <2>10. q.reportRequest # None BY <2>2, <2>6, PanelAssumption
 <2>11. ReportHolds(q, W) BY <2>1, <2>2, <2>6, <2>9 DEF ReportHolds, OfReport
 <2>12. ReportAsked(q) BY <2>10 DEF ReportAsked
 <2> HIDE DEF l
 <2> QED BY <2>2, <2>3, <2>8, <2>11, <2>12 DEF l
<1> QED BY <1>3, <1>4

(* A read of the report that has become obsolete. *)
LEMMA InvalidateReportHolds ==
  ASSUME NEW p, Fits(p), NEW W, ReportHolds(p, W)
  PROVE  /\ ForReport(p, InvalidateReport(p)) /\ ReportHolds(InvalidateReport(p), W)
         /\ Unread(InvalidateReport(p)) /\ InvalidateReport(p).asks = p.asks
         /\ InvalidateReport(p).report = p.report
<1> DEFINE q == InvalidateReport(p)
<1>1. /\ q.asks = p.asks /\ SourceKept(p, q) /\ DetailKept(p, q)
      /\ q.page = p.page /\ q.source = p.source /\ q.readings = p.readings
      /\ q.report = p.report /\ q.reportSequence = p.reportSequence + 1
      /\ q.reportRequest = None BY DEF InvalidateReport, Fits, Fields, SourceKept, DetailKept
<1>2. Fits(q) BY InvalidateReportOpens DEF Opens, Follow
<1> HIDE DEF q
<1>3. Adds(p, q, {"report"}) BY <1>1, AddsNothing
<1>4. ForReport(p, q) BY <1>1, <1>2, <1>3 DEF ForReport
<1>5. ReportHolds(q, W) BY <1>1 DEF ReportHolds
<1> QED BY <1>1, <1>4, <1>5 DEF q, Unread

(* Without a report there is nothing to read. *)
LEMMA ClearReportHolds ==
  ASSUME NEW p, Fits(p), NEW W, ReportHolds(p, W)
  PROVE  /\ ForReport(p, ClearReport(p)) /\ ReportHolds(ClearReport(p), W)
         /\ ReportAsked(ClearReport(p)) /\ Unread(ClearReport(p))
<1> DEFINE r == InvalidateReport(p)
           q == ClearReport(p)
<1>1. /\ r.asks = p.asks /\ SourceKept(p, r) /\ DetailKept(p, r) /\ DOMAIN r = Fields
      /\ r.page = p.page /\ r.source = p.source /\ r.readings = p.readings
      /\ r.reportSequence = p.reportSequence + 1 /\ r.reportRequest = None
 BY DEF InvalidateReport, Fits, Fields, SourceKept, DetailKept
<1>2. q = [r EXCEPT !.report = None, !.reportStatus = None, !.members = None, !.reportEpisode = None]
 BY DEF ClearReport
<1>3. Fits(q) BY ClearReportOpens DEF Opens, Follow
<1> HIDE DEF r, q
<1>4. /\ q.asks = p.asks /\ SourceKept(p, q) /\ DetailKept(p, q)
      /\ q.page = p.page /\ q.source = p.source /\ q.readings = p.readings
      /\ q.report = None /\ q.reportSequence = p.reportSequence + 1 /\ q.reportRequest = None
 BY <1>1, <1>2 DEF Fields, SourceKept, DetailKept
<1>5. Adds(p, q, {"report"}) BY <1>4, AddsNothing
<1>6. ForReport(p, q) BY <1>3, <1>4, <1>5 DEF ForReport
<1>7. ReportHolds(q, W) BY <1>4 DEF ReportHolds
<1>8. ReportAsked(q) BY <1>4 DEF ReportAsked
<1> QED BY <1>4, <1>6, <1>7, <1>8 DEF q, Unread

(* What the answer of a report does: more of it is asked for, or its read  *)
(* is over and the issue of the link opens.                                *)
LEMMA ReportReplyCases ==
  ASSUME NEW p, Fits(p), NEW call, ReadFits(call), call.slot = "report", NEW answer
  PROVE  \/ /\ call.id # p.reportSequence \/ p.report = None
            /\ ReportReply(p, call, answer) = p
         \/ /\ call.id = p.reportSequence
            /\ \E next : /\ next.slot = "report" /\ next.id = call.id
                         /\ ReportReply(p, call, answer) = Ask(p, next)
                         /\ Beyond(p, Ask(p, next)) /\ ReportKept(p, Ask(p, next))
                         /\ Ask(p, next).asks = Append(p.asks, next)
         \/ /\ call.id = p.reportSequence
            /\ \E r : /\ Finished(p, r)
                      /\ \/ ReportReply(p, call, answer) = r
                         \/ /\ r.tool = None /\ r.reportEpisode = None
                            /\ \E e : ReportReply(p, call, answer) = OpenDetail(r, "episode", e)
<1> DEFINE status == IF answer.ok THEN "expired" ELSE "error"
           failed == [p EXCEPT !.reportRequest = None, !.reportStatus = status]
           got == Append(call.got, Members[Len(call.got) + 1])
           next == [call EXCEPT !.got = got]
           q == [p EXCEPT !.reportRequest = None, !.members = Range(got),
                          !.reportStatus = "available", !.reportEpisode = None]
           reply == ReportReply(p, call, answer)
<1>1. \/ (call.id # p.reportSequence \/ p.report = None) /\ reply = p
      \/ /\ call.id = p.reportSequence /\ p.report # None
         /\ \/ reply = failed
            \/ Len(got) < Len(Members) /\ reply = Ask(p, next)
            \/ /\ ~(Len(got) < Len(Members))
               /\ \/ reply = q
                  \/ p.reportEpisode \in Range(got) /\ reply = OpenDetail(q, "episode", p.reportEpisode)
 BY DEF ReportReply
<1> HIDE DEF reply
<1>2. /\ call = [slot |-> "report", id |-> call.id, got |-> call.got]
      /\ call.got \in Seq(Episodes) /\ Len(call.got) < Len(Members)
      /\ \A i \in DOMAIN call.got : call.got[i] = Members[i] BY DEF ReadFits
<1>3. /\ got \in Seq(Episodes) /\ Range(got) \subseteq Episodes
      /\ \A i \in DOMAIN got : got[i] = Members[i]
      /\ ~(Len(got) < Len(Members)) => Range(got) = Range(Members)
 <2> HIDE DEF got
 <2>1. got = Append(call.got, Members[Len(call.got) + 1]) BY DEF got
 <2> QED BY Zenon, <1>2, <2>1, AllMembers
<1> HIDE DEF got
<1>4. CASE (call.id # p.reportSequence \/ p.report = None) /\ reply = p BY <1>4 DEF reply
<1>5. CASE call.id = p.reportSequence /\ p.report # None /\ reply = failed
 <2>1. status # "available" /\ status # "loading" OBVIOUS
 <2> HIDE DEF status
 <2>2. /\ Reports(p, failed) /\ failed.asks = p.asks /\ failed.report = p.report
       /\ failed.members = p.members /\ failed.reportEpisode = p.reportEpisode
       /\ failed.reportStatus = status /\ failed.reportRequest = None
       /\ failed.reportSequence = p.reportSequence
       /\ SourceKept(p, failed) /\ DetailKept(p, failed)
       /\ failed.source = p.source /\ failed.readings = p.readings /\ failed.page = p.page
  BY Zenon DEF Fits, Fields, Whole, Reports, SourceKept, DetailKept
 <2> HIDE DEF failed
 <2>3. ReportFits(failed) /\ AsksFit(failed) BY Zenon, <2>1, <2>2 DEF Fits, ReportFits, AsksFit, Reports
 <2>4. Fits(failed) BY <2>2, <2>3, ReportsOpens DEF Opens, Follow
 <2>5. Finished(p, failed) BY <2>1, <2>2, <2>4 DEF Finished, Beyond
 <2> QED BY <1>5, <2>5 DEF reply
<1>6. CASE call.id = p.reportSequence /\ Len(got) < Len(Members) /\ reply = Ask(p, next)
 <2>1. next = [slot |-> "report", id |-> call.id, got |-> got] BY <1>2
 <2>2. ReadFits(next) /\ next.slot = "report" /\ next.id = call.id BY <1>3, <1>6, <2>1 DEF ReadFits
 <2> DEFINE a == Ask(p, next)
 <2>3. Fits(a) BY <2>2, AskStays DEF Stays, Follow
 <2> HIDE DEF next
 <2>4. /\ a.asks = Append(p.asks, next) /\ SourceKept(p, a) /\ DetailKept(p, a) /\ ReportKept(p, a)
       /\ a.page = p.page /\ a.source = p.source /\ a.readings = p.readings
       /\ a.report = p.report /\ a.reportSequence = p.reportSequence
  BY DEF Ask, Fits, Fields, SourceKept, DetailKept, ReportKept
 <2> HIDE DEF a
 <2>5. Beyond(p, a) BY <2>3, <2>4 DEF Beyond
 <2>6. reply = a BY <1>6 DEF a
 <2> QED BY <1>6, <2>2, <2>4, <2>5, <2>6 DEF reply, a
<1>7. ASSUME ~(Len(got) < Len(Members)), p.report # None
      PROVE  Finished(p, q) /\ q.reportEpisode = None /\ q.tool = p.tool
 <2>1. /\ Reports(p, q) /\ q.asks = p.asks /\ q.report = p.report
       /\ q.members = Range(got) /\ q.reportEpisode = None
       /\ q.reportStatus = "available" /\ q.reportRequest = None
       /\ q.reportSequence = p.reportSequence
       /\ SourceKept(p, q) /\ DetailKept(p, q)
       /\ q.source = p.source /\ q.readings = p.readings /\ q.page = p.page
  BY ZenonT(40) DEF Fits, Fields, Whole, Reports, SourceKept, DetailKept
 <2> HIDE DEF q
 <2>2. Range(got) # None BY <1>3, PanelAssumption
 <2>3. ReportFits(q) /\ AsksFit(q) BY <1>3, <1>7, <2>1, <2>2 DEF Fits, ReportFits, AsksFit
 <2>4. Fits(q) BY <2>1, <2>3, ReportsOpens DEF Opens, Follow
 <2> QED BY <2>1, <2>4 DEF Finished, Beyond, Reports
<1>8. CASE /\ call.id = p.reportSequence /\ p.report # None /\ ~(Len(got) < Len(Members))
           /\ \/ reply = q
              \/ p.reportEpisode \in Range(got) /\ reply = OpenDetail(q, "episode", p.reportEpisode)
 <2>1. Finished(p, q) /\ q.reportEpisode = None /\ q.tool = p.tool BY <1>7, <1>8
 <2>2. p.reportEpisode \in Range(got) => p.tool = None BY <1>3, PanelAssumption DEF Fits, ToolFits
 <2> HIDE DEF q
 <2> QED BY <1>8, <2>1, <2>2 DEF reply
<1> HIDE DEF q, failed, next
<1> QED BY <1>1, <1>4, <1>5, <1>6, <1>8

(* loadNotificationReport, when an answer comes. *)
LEMMA ReportReplyHolds ==
  ASSUME NEW p, Fits(p), Timely(p), p.asks = <<>>, NEW W, NEW call, ReportHolds(p, W \cup {call}),
         DetailHolds(p, W), Shown(p), ReportAsked(p), ReadFits(call), call.slot = "report", NEW answer
  PROVE  \E r : /\ ForReport(p, r) /\ ReportHolds(r, W) /\ ReportAsked(r)
                /\ r.reportRequest \in {p.reportRequest, None}
                /\ \/ ReportReply(p, call, answer) = r
                   \/ Redraws(r, ReportReply(p, call, answer), W)
<1> DEFINE reply == ReportReply(p, call, answer)
           Goal(r) == /\ ForReport(p, r) /\ ReportHolds(r, W) /\ ReportAsked(r)
                      /\ r.reportRequest \in {p.reportRequest, None}
                      /\ reply = r \/ Redraws(r, reply, W)
<1> HIDE DEF reply
<1>1. Under(p, W \cup {call}) = W \cup {call} /\ Under(p, W) = W BY UnderNone
<1>2. p.reportSequence \in Nat BY DEF ReportHolds
<1>3. CASE (call.id # p.reportSequence \/ p.report = None) /\ reply = p
 BY Zenon, <1>1, <1>3, ForReportNothing DEF ReportHolds, OfReport, reply
<1>4. CASE /\ call.id = p.reportSequence
           /\ \E next : /\ next.slot = "report" /\ next.id = call.id
                        /\ reply = Ask(p, next)
                        /\ Beyond(p, Ask(p, next)) /\ ReportKept(p, Ask(p, next))
                        /\ Ask(p, next).asks = Append(p.asks, next)
 <2>1. PICK next : /\ next.slot = "report" /\ next.id = call.id
                   /\ reply = Ask(p, next)
                   /\ Beyond(p, Ask(p, next)) /\ ReportKept(p, Ask(p, next))
                   /\ Ask(p, next).asks = Append(p.asks, next) BY <1>4
 <2> DEFINE a == Ask(p, next)
 <2> HIDE DEF a
 <2>2. reply = a /\ Beyond(p, a) /\ ReportKept(p, a) /\ a.asks = Append(p.asks, next) BY <2>1 DEF a
 <2>3. Adds(p, a, {"report"}) BY Zenon, <2>1, <2>2, AddsOne
 <2>4. Range(a.asks) = Range(p.asks) \cup {next} BY Zenon, <2>2, AppendFits DEF Fits, AsksFit
 <2>5. ForReport(p, a) BY <2>2, <2>3 DEF ForReport, Beyond
 <2>6. next \in Under(a, W) BY <2>4 DEF Under
 <2>7. ReportHolds(a, W) BY <1>2, <1>4, <2>1, <2>2, <2>6 DEF ReportHolds, ReportKept, OfReport
 <2>8. ReportAsked(a) BY <2>2 DEF ReportAsked, ReportKept, Current
 <2>9. a.reportRequest = p.reportRequest BY <2>2 DEF ReportKept
 <2>10. Goal(a) BY <2>2, <2>5, <2>7, <2>8, <2>9
 <2> QED BY <2>10 DEF reply
<1>5. CASE \E r : /\ Finished(p, r)
                  /\ \/ reply = r
                     \/ /\ r.tool = None /\ r.reportEpisode = None
                        /\ \E e : reply = OpenDetail(r, "episode", e)
 <2>1. PICK r : /\ Finished(p, r)
                /\ \/ reply = r
                   \/ /\ r.tool = None /\ r.reportEpisode = None
                      /\ \E e : reply = OpenDetail(r, "episode", e) BY <1>5
 <2>2. Adds(p, r, {"report"}) BY <2>1, AddsNothing DEF Finished
 <2>3. ForReport(p, r) /\ r.reportRequest = None BY <2>1, <2>2 DEF ForReport, Finished, Beyond
 <2>4. ReportHolds(r, W) /\ ReportAsked(r) BY <1>2, <2>1 DEF ReportHolds, ReportAsked, Finished, Beyond
 <2>5. DetailHolds(r, W) /\ Timely(r) /\ Fits(r) BY <2>3, ForReportOthers DEF ForReport
 <2>6. reply = r \/ Redraws(r, reply, W) BY <2>1, <2>5, OpenDetailHolds
 <2>7. Goal(r) BY <2>3, <2>4, <2>6
 <2> QED BY <2>7 DEF reply
<1> QED BY <1>3, <1>4, <1>5, ReportReplyCases DEF reply

(* Two parts of a handler, one after the other. *)
LEMMA MovesThen ==
  ASSUME NEW p, NEW q, NEW r, NEW c \in Nat, NEW d \in Nat, Moves(p, q, c), Moves(q, r, d)
  PROVE  Moves(p, r, c + d)
BY AddsThen DEF Moves, Current

(* What costs nothing costs at most a read. *)
LEMMA MovesMore ==
  ASSUME NEW p, NEW q, Moves(p, q, 0)
  PROVE  Moves(p, q, 1)
BY DEF Moves

(* The numbers of a panel. *)
LEMMA BaseNumbers ==
  ASSUME NEW p, NEW W, PaneHolds(p), DetailHolds(p, W)
  PROVE  p.sourceSequence \in Nat /\ p.detailSequence \in Nat /\ Weight(p) \in Nat
BY WeightType DEF DetailHolds, DialogHolds

(* The parts of Base that are used alone. *)
LEMMA BaseOf == \A p, W : Base(p, W) => PaneHolds(p) /\ Timely(p)
BY DEF Base, SourceHolds

(* A step of the source. *)
LEMMA SourceMoves ==
  ASSUME NEW p, NEW W, PaneHolds(p), Timely(p), DetailHolds(p, W), ReportHolds(p, W),
         NEW q, NEW c \in Nat, Loads(p, q, W, c)
  PROVE  /\ Moves(p, q, c) /\ Base(q, W) /\ q.page = p.page
         /\ (Shown(p) => Shown(q)) /\ (ReportAsked(p) => ReportAsked(q))
BY TimelyFor, DetailFrame, ReportFrame, BaseNumbers, AddsMore DEF Loads, ForSource, Base,
  SourceHolds, ReadSlots, DetailKept, ReportKept, Moves

(* A step of the dialog. *)
LEMMA DetailMoves ==
  ASSUME NEW p, NEW W, Timely(p), SourceHolds(p, W), ReportHolds(p, W),
         NEW q, Redraws(p, q, W)
  PROVE  /\ Moves(p, q, 0) /\ Base(q, W) /\ Shown(q) /\ q.page \in {p.page, "history"}
         /\ (Caught(p) => Caught(q)) /\ (ReportAsked(p) => ReportAsked(q))
BY ForDetailSource, ReportFrame, WeightType, AddsMore DEF Redraws, ForDetail, Base, SourceHolds,
  ReadSlots, Moves, SourceKept, ReportKept

(* A step of the report. *)
LEMMA ReportMoves ==
  ASSUME NEW p, NEW W, Timely(p), SourceHolds(p, W), DetailHolds(p, W),
         NEW q, ForReport(p, q), ReportHolds(q, W),
         (~Current(p) /\ p.reportRequest = None) => q.reportRequest = None
  PROVE  /\ Moves(p, q, 0) /\ Base(q, W) /\ q.page = p.page
         /\ (Caught(p) => Caught(q)) /\ (Shown(p) => Shown(q))
BY ForReportOthers, BaseNumbers, AddsMore DEF Base, SourceHolds, ReadSlots, ForReport, Moves,
  SourceKept, DetailKept

(* A step that none of these reads looks at. *)
LEMMA ApartMoves ==
  ASSUME NEW p, Fits(p), NEW W, Base(p, W), NEW q, Apart(p, q),
         q.source \in Nodes, q.readings \in {0, 1}
  PROVE  /\ Moves(p, q, 0) /\ Base(q, W)
         /\ (Shown(p) => Shown(q)) /\ (ReportAsked(p) => ReportAsked(q))
         /\ (q.page = p.page /\ q.source = p.source /\ q.readings = p.readings /\ Caught(p)) => Caught(q)
<1>1. Adds(p, q, ReadSlots) /\ Adds(p, q, {}) BY AddsNothing DEF Apart
<1>2. SourceHolds(q, W) BY <1>1, SourceFrame DEF Apart, Base
<1>3. DetailHolds(q, W) /\ (Shown(p) => Shown(q)) BY <1>1, DetailFrame DEF Apart, Base
<1>4. ReportHolds(q, W) /\ (ReportAsked(p) => ReportAsked(q)) BY <1>1, ReportFrame DEF Apart, Base
<1>5. Timely(q) BY DEF Base, Timely, Apart, SourceKept, Current
<1>6. Base(q, W) BY <1>2, <1>3, <1>4, <1>5 DEF Base
<1>7. p.sourceSequence \in Nat /\ p.detailSequence \in Nat /\ Weight(p) \in Nat
 BY BaseNumbers DEF Base, SourceHolds
<1>8. Weight(q) = Weight(p) BY DEF Weight, Apart, SourceKept
<1>9. Moves(p, q, 0) BY <1>1, <1>7, <1>8 DEF Moves, Apart, SourceKept, DetailKept, ReportKept
<1>10. (q.page = p.page /\ q.source = p.source /\ q.readings = p.readings /\ Caught(p)) => Caught(q)
 BY DEF Stamp, Previous, Apart, SourceKept, Caught, Current
<1> QED BY <1>3, <1>4, <1>6, <1>9, <1>10

(* A handler that ends with loadSource, *)
LEMMA LoadSourceEnds ==
  ASSUME NEW p, NEW q, NEW W, Moves(p, q, 0), Base(q, W), Shown(q), ReportAsked(q), NEW force \in BOOLEAN
  PROVE  Handles(p, LoadSource(q, force), W, 1)
<1> DEFINE l == LoadSource(q, force)
<1>1. Fits(q) /\ Timely(q) /\ SourceHolds(q, W) /\ PaneHolds(q) /\ DetailHolds(q, W) /\ ReportHolds(q, W)
 BY DEF Moves, Base, SourceHolds
<1>2. Loads(q, l, W, 1) /\ Caught(l) BY <1>1, LoadSourceHolds
<1> HIDE DEF l
<1>3. Moves(q, l, 1) /\ Base(l, W) /\ Shown(l) /\ ReportAsked(l) BY <1>1, <1>2, SourceMoves
<1>4. Moves(p, l, 0 + 1) BY <1>3, MovesThen
<1>5. Handles(p, l, W, 1) BY <1>2, <1>3, <1>4 DEF Handles, Due
<1> QED BY <1>5 DEF l

(* A handler that has nothing to load. *)
LEMMA DetailEnds ==
  ASSUME NEW p, NEW W, Base(p, W), Due(p), NEW q, Redraws(p, q, W)
  PROVE  Handles(p, q, W, 0)
BY DetailMoves DEF Base, Handles, Due

(* one that is a step of the source, *)
LEMMA SourceEnds ==
  ASSUME NEW p, NEW W, Base(p, W), Due(p), NEW q, NEW c \in Nat, Loads(p, q, W, c), Caught(q)
  PROVE  Handles(p, q, W, c)
BY BaseOf, SourceMoves DEF Base, Handles, Due

(* Another page, without the dialog and the report of the last. *)
LEMMA GoesHolds ==
  ASSUME NEW p, Fits(p), NEW W, Base(p, W), NEW page
  PROVE  Moves(p, Goes(p, page), 0) /\ Base(Goes(p, page), W) /\ Shown(Goes(p, page))
         /\ ReportAsked(Goes(p, page)) /\ Unread(Goes(p, page)) /\ Goes(p, page).page = page
<1> DEFINE r == Shut(p)
           c == ClearReport(r)
           q == [c EXCEPT !.page = page]
<1>1. Goes(p, page) = q BY DEF Goes
<1>2. Redraws(p, r, W) BY ShutHolds DEF Base
<1>3. Moves(p, r, 0) /\ Base(r, W) /\ Shown(r) BY <1>2, DetailMoves DEF Base
<1> HIDE DEF r
<1>4. Fits(r) BY <1>3 DEF Moves
<1>5. ForReport(r, c) /\ ReportHolds(c, W) /\ ReportAsked(c) /\ Unread(c)
 BY <1>3, <1>4, ClearReportHolds DEF Base
<1>6. Moves(r, c, 0) /\ Base(c, W) /\ Shown(c) BY <1>3, <1>5, ReportMoves DEF Base, Unread
<1> HIDE DEF c
<1>7. Fits(c) BY <1>6 DEF Moves
<1>8. Fits(Goes(p, page)) BY GoesFollows DEF Opens, Follow
<1>9. Fits(q) BY <1>1, <1>8
<1>10. /\ q.asks = c.asks /\ SourceKept(c, q) /\ DetailKept(c, q) /\ ReportKept(c, q)
       /\ q.source = c.source /\ q.readings = c.readings /\ q.page = page
 BY <1>7 DEF Fits, Fields, SourceKept, DetailKept, ReportKept
<1> HIDE DEF q
<1>11. Apart(c, q) BY <1>9, <1>10 DEF Apart
<1>12. q.source \in Nodes /\ q.readings \in {0, 1} BY <1>6, <1>10 DEF Base, Timely
<1>13. Moves(c, q, 0) /\ Base(q, W) /\ Shown(q) /\ ReportAsked(q) BY <1>5, <1>6, <1>7, <1>11, <1>12, ApartMoves
<1>14. Moves(p, c, 0 + 0) BY <1>3, <1>6, MovesThen
<1>15. Moves(p, q, 0 + 0 + 0) BY <1>13, <1>14, MovesThen
<1>16. Moves(p, q, 0) BY <1>15
<1>17. Unread(q) BY <1>5, <1>10 DEF Unread, ReportKept
<1> QED BY <1>1, <1>10, <1>13, <1>16, <1>17

(* A destination of its own. *)
LEMMA ArrivesHolds ==
  ASSUME NEW p, Fits(p), NEW W, Base(p, W), NEW page
  PROVE  Moves(p, Arrives(p, page), 0) /\ Base(Arrives(p, page), W) /\ Shown(Arrives(p, page))
         /\ ReportAsked(Arrives(p, page)) /\ Unread(Arrives(p, page)) /\ Arrives(p, page).page = page
<1> DEFINE g == Goes(p, page)
           q == Arrives(p, page)
<1>1. /\ Moves(p, g, 0) /\ Base(g, W) /\ Shown(g) /\ ReportAsked(g) /\ Unread(g) /\ g.page = page BY GoesHolds
<1>2. q = [g EXCEPT !.pending = None, !.tool = None] BY DEF Arrives
<1> HIDE DEF g
<1>3. Fits(q) BY ArrivesFollows DEF Follow
<1> HIDE DEF q
<1>4. Fits(g) BY <1>1 DEF Moves
<1>5. /\ q.asks = g.asks /\ SourceKept(g, q) /\ DetailKept(g, q) /\ ReportKept(g, q)
      /\ q.source = g.source /\ q.readings = g.readings /\ q.page = g.page
 BY <1>2, <1>4 DEF Fits, Fields, SourceKept, DetailKept, ReportKept
<1>6. Apart(g, q) BY <1>3, <1>5 DEF Apart
<1>7. q.source \in Nodes /\ q.readings \in {0, 1} BY <1>1, <1>5 DEF Base, Timely
<1>8. Moves(g, q, 0) /\ Base(q, W) /\ Shown(q) /\ ReportAsked(q) BY <1>1, <1>4, <1>6, <1>7, ApartMoves
<1>9. Moves(p, q, 0 + 0) BY <1>1, <1>8, MovesThen
<1>10. Moves(p, q, 0) BY <1>9
<1>11. Unread(q) BY <1>1, <1>5 DEF Unread, ReportKept
<1> QED BY <1>1, <1>5, <1>8, <1>10, <1>11 DEF q

(* A page of the navigation. *)
LEMMA PageHandles ==
  ASSUME NEW p, Fits(p), NEW W, Base(p, W), NEW page
  PROVE  Handles(p, LoadSource(Goes(p, page), FALSE), W, 1)
BY Zenon, GoesHolds, LoadSourceEnds

(* A link of an issue or source. *)
LEMMA LinkHandles ==
  ASSUME NEW p, Fits(p), NEW W, Base(p, W), NEW page, NEW x
  PROVE  LET a == Arrives(p, page)
         IN Handles(p, LoadSource(IF Current(a) THEN OpenDetail(a, x.kind, x.id)
                                  ELSE [a EXCEPT !.pending = x], FALSE), W, 1)
<1> DEFINE a == Arrives(p, page)
           open == OpenDetail(a, x.kind, x.id)
           wait == [a EXCEPT !.pending = x]
<1>1. Moves(p, a, 0) /\ Base(a, W) /\ Shown(a) /\ ReportAsked(a) BY ArrivesHolds
<1>2. a.tool = None /\ a.reportEpisode = None BY ArrivesFollows
<1> HIDE DEF a
<1>3. Fits(a) /\ Timely(a) /\ DetailHolds(a, W) /\ SourceHolds(a, W) /\ ReportHolds(a, W)
 BY <1>1 DEF Moves, Base
<1>4. Redraws(a, open, W) BY <1>2, <1>3, OpenDetailHolds
<1> HIDE DEF open
<1>5. Moves(a, open, 0) /\ Base(open, W) /\ Shown(open) /\ ReportAsked(open) BY <1>1, <1>3, <1>4, DetailMoves
<1>6. Fits(wait) BY <1>2, <1>3, WaitFollows DEF Follow
<1>7. /\ wait.asks = a.asks /\ SourceKept(a, wait) /\ DetailKept(a, wait) /\ ReportKept(a, wait)
      /\ wait.source = a.source /\ wait.readings = a.readings /\ wait.page = a.page
 BY <1>3 DEF Fits, Fields, SourceKept, DetailKept, ReportKept
<1> HIDE DEF wait
<1>8. Apart(a, wait) /\ wait.source \in Nodes /\ wait.readings \in {0, 1} BY <1>3, <1>6, <1>7 DEF Apart, Timely
<1>9. Moves(a, wait, 0) /\ Base(wait, W) /\ Shown(wait) /\ ReportAsked(wait) BY <1>1, <1>3, <1>8, ApartMoves
<1>10. ASSUME NEW q, Moves(a, q, 0) /\ Base(q, W) /\ Shown(q) /\ ReportAsked(q)
       PROVE  Handles(p, LoadSource(q, FALSE), W, 1)
 <2>1. Moves(p, q, 0 + 0) BY <1>1, <1>10, MovesThen
 <2>2. Moves(p, q, 0) BY <2>1
 <2> QED BY Zenon, <1>10, <2>2, LoadSourceEnds
<1>11. CASE Current(a) BY Zenon, <1>5, <1>10, <1>11 DEF a, open
<1>12. CASE ~Current(a) BY Zenon, <1>9, <1>10, <1>12 DEF a, wait
<1> QED BY Zenon, <1>11, <1>12

(* The link of a report. *)
LEMMA ReportLinkHandles ==
  ASSUME NEW p, Fits(p), NEW W, Base(p, W), NEW e
  PROVE  Handles(p, LoadReport([Arrives(p, "problems") EXCEPT !.report = Report, !.reportStatus = "loading",
                                                    !.members = {}, !.reportEpisode = e]), W, 0)
<1> DEFINE a == Arrives(p, "problems")
           q == [a EXCEPT !.report = Report, !.reportStatus = "loading", !.members = {}, !.reportEpisode = e]
           l == LoadReport(q)
<1>1. Moves(p, a, 0) /\ Base(a, W) /\ Shown(a) /\ ReportAsked(a) /\ Unread(a) /\ a.page = "problems"
 BY ArrivesHolds
<1>2. a.pending = None /\ a.tool = None /\ a.detail = None /\ a.reportEpisode = None BY ArrivesFollows
<1> HIDE DEF a
<1>3. Fits(a) /\ Timely(a) /\ DetailHolds(a, W) /\ SourceHolds(a, W) /\ ReportHolds(a, W)
 BY <1>1 DEF Moves, Base
<1>4. /\ Whole(q) /\ q.page = a.page /\ q.status = a.status /\ q.data = a.data
      /\ q.detail = a.detail /\ q.selections = a.selections /\ q.body = a.body
      /\ q.reportStatus = "loading" /\ q.members = {} /\ q.tool = a.tool /\ q.pending = a.pending
      /\ q.response = a.response /\ q.pane = a.pane /\ q.asks = a.asks BY ZenonT(40), <1>3 DEF Fits, Fields, Whole
<1>5. /\ SourceKept(a, q) /\ DetailKept(a, q)
      /\ q.source = a.source /\ q.readings = a.readings
      /\ q.reportSequence = a.reportSequence /\ q.reportRequest = a.reportRequest
 BY <1>3 DEF Fits, Fields, SourceKept, DetailKept
<1> HIDE DEF q
<1>6. DetailFits(q) /\ ResponseFits(q) /\ AsksFit(q)
 BY Zenon, <1>3, <1>4 DEF Fits, DetailFits, ResponseFits, AsksFit
<1>7. ReportFits(q) BY <1>2, <1>4, PanelAssumption DEF ReportFits
<1>8. ToolFits(q) BY <1>2, <1>3, <1>4 DEF Fits, ToolFits
<1>9. Fits(q) BY <1>3, <1>4, <1>6, <1>7, <1>8 DEF Fits, Whole
<1>10. Adds(a, q, {"report"}) BY <1>3, <1>4, AddsNothing
<1>11. ForReport(a, q) BY <1>4, <1>5, <1>9, <1>10 DEF ForReport
<1>12. ReportHolds(q, W) /\ Unread(q) BY <1>1, <1>3, <1>5 DEF ReportHolds, Unread
<1>13. Moves(a, q, 0) /\ Base(q, W) /\ Shown(q) /\ q.page = "problems"
 BY <1>1, <1>3, <1>11, <1>12, ReportMoves DEF Unread
<1>14. ForReport(q, l) /\ ReportHolds(l, W) /\ ReportAsked(l) /\ (~Current(q) => l = q)
 BY <1>9, <1>12, LoadReportHolds
<1> HIDE DEF l
<1>15. Timely(q) /\ SourceHolds(q, W) /\ DetailHolds(q, W) BY <1>13 DEF Base
<1>16. Moves(q, l, 0) /\ Base(l, W) /\ Shown(l) /\ l.page = "problems" BY <1>13, <1>14, <1>15, ReportMoves
<1>17. Moves(p, q, 0 + 0) BY <1>1, <1>13, MovesThen
<1>18. Moves(p, l, 0 + 0 + 0) BY <1>16, <1>17, MovesThen
<1>19. Moves(p, l, 0) /\ Caught(l) BY <1>16, <1>18 DEF Caught
<1>20. Handles(p, l, W, 0) BY <1>14, <1>16, <1>19 DEF Handles, Due
<1> QED BY <1>20 DEF l, q, a

(* Another source, or a state of an entity shown. *)
LEMMA LookingHandles ==
  ASSUME NEW p, Fits(p), NEW W, Base(p, W), Due(p), NEW q,
         \/ \E node \in Nodes : q = [p EXCEPT !.source = node]
         \/ q = [p EXCEPT !.readings = 1 - @]
  PROVE  Handles(p, LoadSource(q, FALSE), W, 1)
<1>1. Fits(q)
 <2>1. CASE \E node \in Nodes : q = [p EXCEPT !.source = node]
  <3>1. PICK node \in Nodes : q = [p EXCEPT !.source = node] BY <2>1
  <3>2. Stays(p, [p EXCEPT !.source = node]) BY Zenon, LooksStays
  <3> QED BY <3>1, <3>2 DEF Stays, Follow
 <2>2. CASE q = [p EXCEPT !.readings = 1 - @] BY Zenon, LooksStays, <2>2 DEF Stays, Follow
 <2> QED BY <2>1, <2>2
<1>2. p.source \in Nodes /\ p.readings \in {0, 1} BY DEF Base, Timely
<1>3. /\ q.asks = p.asks /\ SourceKept(p, q) /\ DetailKept(p, q) /\ ReportKept(p, q)
      /\ q.source \in Nodes /\ q.readings \in {0, 1}
 BY <1>2 DEF Fits, Fields, SourceKept, DetailKept, ReportKept
<1>4. Apart(p, q) BY <1>1, <1>3 DEF Apart
<1>5. Moves(p, q, 0) /\ Base(q, W) /\ Shown(q) /\ ReportAsked(q) BY <1>3, <1>4, ApartMoves DEF Due
<1> QED BY Zenon, <1>5, LoadSourceEnds

(* Further rows. *)
LEMMA MoreHandles ==
  ASSUME NEW p, Fits(p), NEW W, Base(p, W), Due(p)
  PROVE  Handles(p, LoadSourceMore(p), W, 1)
BY LoadSourceMoreHolds, SourceEnds DEF Base, Due

(* An issue, node or device of the page. *)
LEMMA OpenHandles ==
  ASSUME NEW p, Fits(p), NEW W, Base(p, W), Due(p), NEW kind, NEW id, p.tool = None,
         kind = "episode" => p.reportEpisode = None
  PROVE  Handles(p, OpenDetail(p, kind, id), W, 0)
BY OpenDetailHolds, DetailEnds DEF Base

(* The dialog closes. *)
LEMMA CloseHandles ==
  ASSUME NEW p, Fits(p), NEW W, Base(p, W), Due(p)
  PROVE  Handles(p, Shut(p), W, 0)
BY ShutHolds, DetailEnds DEF Base

(* A report that failed is read again. *)
LEMMA RetryHandles ==
  ASSUME NEW p, Fits(p), NEW W, Base(p, W), Due(p)
  PROVE  Handles(p, LoadReport(InvalidateReport(p)), W, 0)
<1> DEFINE q == InvalidateReport(p)
           l == LoadReport(q)
<1>1. ForReport(p, q) /\ ReportHolds(q, W) /\ Unread(q) BY InvalidateReportHolds DEF Base
<1> HIDE DEF q
<1>2. Moves(p, q, 0) /\ Base(q, W) /\ Caught(q) /\ Shown(q) BY <1>1, ReportMoves DEF Base, Due, Unread
<1>3. Fits(q) /\ Timely(q) /\ SourceHolds(q, W) /\ DetailHolds(q, W) BY <1>2 DEF Moves, Base
<1>4. ForReport(q, l) /\ ReportHolds(l, W) /\ ReportAsked(l) /\ (~Current(q) => l = q)
 BY <1>1, <1>3, LoadReportHolds
<1> HIDE DEF l
<1>5. Moves(q, l, 0) /\ Base(l, W) /\ Caught(l) /\ Shown(l) BY <1>2, <1>3, <1>4, ReportMoves
<1>6. Moves(p, l, 0 + 0) BY <1>2, <1>5, MovesThen
<1>7. Handles(p, l, W, 0) BY <1>4, <1>5, <1>6 DEF Handles, Due
<1> QED BY <1>7 DEF l, q

(* What only these reads look at stays. *)
LEMMA ApartHandles ==
  ASSUME NEW p, Fits(p), NEW W, Base(p, W), Due(p), NEW q, Apart(p, q),
         q.page = p.page, q.source = p.source, q.readings = p.readings
  PROVE  Handles(p, q, W, 0)
BY ApartMoves DEF Base, Timely, Handles, Due

(* and one that opens the dialog of an action. *)
LEMMA ToolHandles ==
  ASSUME NEW p, Fits(p), NEW W, Base(p, W), Due(p), NEW u, Fits(Tooled(p, u))
  PROVE  Handles(p, Tooled(p, u), W, 0) /\ Tooled(p, u).asks = p.asks
<1> DEFINE r == Shut(p)
           q == Tooled(p, u)
<1>1. Redraws(p, r, W) BY ShutHolds DEF Base
<1>2. r.detail = None /\ r.asks = p.asks BY DEF Shut, Fits, Fields
<1> HIDE DEF r
<1>3. Fits(r) /\ DetailHolds(r, W) BY <1>1 DEF Redraws, ForDetail
<1>4. DialogHolds(r) /\ r.detailSequence \in Nat /\ r.selections \in Nat
 BY <1>3 DEF DetailHolds, DialogHolds, Fits, ToolFits
<1>5. /\ q.asks = r.asks /\ SourceKept(r, q) /\ ReportKept(r, q)
      /\ q.page = r.page /\ q.source = r.source /\ q.readings = r.readings
      /\ q.detail = None /\ q.selections = r.selections + 1 /\ q.context = r.context
      /\ q.detailSequence = r.detailSequence /\ q.detailRequest = r.detailRequest
      /\ q.detailRefreshPending = r.detailRefreshPending /\ Fits(q)
 BY Zenon, <1>2, <1>3 DEF r, Tooled, Fits, Fields, SourceKept, ReportKept
<1> HIDE DEF q
<1>6. DialogHolds(q) BY <1>4, <1>5 DEF DialogHolds, SourceKept, Current, DetailRequests
<1>7. DetailHolds(q, W) BY <1>3, <1>4, <1>5, <1>6, DetailLater DEF SourceKept
<1>8. Adds(r, q, {"detail"}) BY <1>3, <1>5, AddsNothing
<1>9. ForDetail(r, q) BY <1>4, <1>5, <1>8 DEF ForDetail
<1>10. Shown(q) BY <1>5 DEF Shown
<1>11. Redraws(p, q, W) BY <1>1, <1>7, <1>9, <1>10, ForDetailThen DEF Redraws
<1> QED BY <1>2, <1>5, <1>11, DetailEnds DEF q

(* What a dialog of actions or a response changes of itself. *)
LEMMA BesideHandles ==
  ASSUME NEW p, Fits(p), NEW W, Base(p, W), Due(p), NEW x, NEW q, Fits(q),
         q = [p EXCEPT !.response = x] \/ q = [p EXCEPT !.tool = x]
  PROVE  Handles(p, q, W, 0) /\ q.asks = p.asks
BY ApartHandles DEF Fits, Fields, SourceKept, DetailKept, ReportKept, Apart

(* Handlers after one another. *)
LEMMA HandlesThen ==
  ASSUME NEW p, NEW q, NEW r, NEW W, Handles(p, q, W, 0), Handles(q, r, W, 0)
  PROVE  Handles(p, r, W, 0)
BY MovesThen DEF Handles

(* Nothing is done. *)
LEMMA NothingHandles ==
  ASSUME NEW p, Fits(p), NEW W, Base(p, W), Due(p)
  PROVE  Handles(p, p, W, 0)
BY ApartHandles DEF Apart, SourceKept, DetailKept, ReportKept

(* What a handler that reads nothing leaves. *)
LEMMA CalmlyFrom ==
  ASSUME NEW p, NEW q, NEW W, Calmly(p, q, W)
  PROVE  Fits(q) /\ Base(q, W) /\ Due(q) /\ q.asks = <<>>
BY DEF Calmly, Handles

(* The device is drawn again. *)
LEMMA RenderedCalmly ==
  ASSUME NEW p, NEW q, NEW W, Calmly(p, q, W)
  PROVE  Calmly(p, Rendered(q), W)
BY CalmlyFrom, RenderedHolds, DetailEnds, HandlesThen DEF Base, Due, Calmly, Redraws, ForDetail

(* Another response of the device. *)
LEMMA RespondCalmly ==
  ASSUME NEW p, NEW q, NEW W, Calmly(p, q, W), NEW x, ResponseShape(x), x.saved \subseteq Saved(q)
  PROVE  Calmly(p, [q EXCEPT !.response = x], W)
<1> DEFINE r == [q EXCEPT !.response = x]
<1>1. Fits(q) /\ Base(q, W) /\ Due(q) /\ q.asks = <<>> BY CalmlyFrom
<1>2. Fits(r) BY <1>1, RespondDraws DEF Draws, Stays, Follow
<1>3. r = [q EXCEPT !.response = x] OBVIOUS
<1> HIDE DEF r
<1>4. Handles(q, r, W, 0) /\ r.asks = q.asks BY Zenon, <1>1, <1>2, <1>3, BesideHandles
<1>5. Handles(p, r, W, 0) BY <1>4, HandlesThen DEF Calmly
<1>6. Calmly(p, r, W) BY <1>1, <1>2, <1>4, <1>5 DEF Calmly
<1> QED BY <1>6 DEF r

(* The end of a response. *)
LEMMA EndedCalmly ==
  ASSUME NEW p, NEW d, NEW W, Calmly(p, d, W), NEW n
  PROVE  Calmly(p, Ended(d, n), W)
<1> DEFINE r == [d.response EXCEPT !.busy = FALSE]
           s == [r EXCEPT !.form = None]
           q == [d EXCEPT !.response = s]
<1>0. Fits(d) BY CalmlyFrom
<1>1. \/ Ended(d, n) = d
      \/ d.response # None /\ Ended(d, n) \in {q, Rendered(q)}
 <2>1. [d EXCEPT !.response.busy = FALSE, !.response.form = None] = q BY Zenon, <1>0 DEF Fits, Fields
 <2> HIDE DEF q
 <2> QED BY <2>1 DEF Ended
<1>2. ASSUME d.response # None PROVE Calmly(p, q, W)
 <2>1. ResponseShape(d.response) /\ d.response.saved = Saved(d)
  BY <1>0, <1>2 DEF Fits, ResponseFits, ResponseShape, Saved
 <2>2. ResponseShape(r) /\ r.saved = Saved(d) BY <2>1, BusyShape
 <2> HIDE DEF r
 <2>3. ResponseShape(s) /\ s.saved = Saved(d) BY <2>2, FormShape
 <2> HIDE DEF s
 <2> QED BY <2>3, RespondCalmly
<1> HIDE DEF q
<1>3. d.response # None => Calmly(p, Rendered(q), W) BY <1>2, RenderedCalmly
<1> QED BY <1>1, <1>2, <1>3

(* The next issue of a response, if there is one. *)
LEMMA RequestPerforms ==
  ASSUME NEW p, NEW d, NEW W, Calmly(p, d, W), NEW call, CallFits(call), NEW n, NEW rest,
         Acts(IF Continue(d, call).asks = <<>> THEN Ended(Continue(d, call), n)
              ELSE Continue(d, call), rest)
  PROVE  Performs(p, rest, W)
<1> DEFINE q == Continue(d, call)
<1>0. Acts(IF q.asks = <<>> THEN Ended(q, n) ELSE q, rest) OBVIOUS
<1>1. Fits(d) /\ d.asks = <<>> BY CalmlyFrom
<1>2. \/ q = d
      \/ Current(d) /\ \E next : CallFits(next) /\ q = Ask(d, next)
 <2>1. \/ q = d
       \/ \E next : CallFits(next) /\ q = Ask(d, next) BY <1>1, ContinueFacts
 <2>2. Current(d) \/ q = d BY DEF Continue
 <2> QED BY <2>1, <2>2
<1> HIDE DEF q
<1>3. CASE q = d BY <1>0, <1>1, <1>3, EndedCalmly DEF Performs
<1>4. ASSUME Current(d), NEW next, CallFits(next), q = Ask(d, next)
      PROVE  Performs(p, rest, W)
 <2>1. Ask(d, next).asks # <<>> BY <1>1 DEF Ask, Fits, Fields
 <2>2. q.asks # <<>> BY <1>4, <2>1
 <2>3. Acts(q, rest) BY <1>0, <2>2
 <2>4. next.slot \notin ReadSlots /\ next.kind \in Kinds BY <1>4 DEF CallFits, ReadSlots, Kinds
 <2>5. Acts(Ask(d, next), rest) BY <1>4, <2>3
 <2> QED BY <1>4, <2>4, <2>5 DEF Performs
<1> QED BY <1>2, <1>3, <1>4

(* Another response, drawn. *)
LEMMA DrawPerforms ==
  ASSUME NEW p, Fits(p), NEW W, Base(p, W), Due(p), p.asks = <<>>, NEW x, ResponseShape(x),
         x.saved \subseteq Saved(p), NEW rest, Acts(Rendered([p EXCEPT !.response = x]), rest)
  PROVE  Performs(p, rest, W)
<1> DEFINE q == [p EXCEPT !.response = x]
<1>1. Calmly(p, p, W) BY NothingHandles DEF Calmly
<1>2. Calmly(p, q, W) BY <1>1, RespondCalmly
<1>3. Acts(Rendered(q), rest) OBVIOUS
<1> HIDE DEF q
<1>4. Calmly(p, Rendered(q), W) BY <1>2, RenderedCalmly
<1> QED BY <1>3, <1>4 DEF Performs

(* The issues of a click. *)
LEMMA ApplyPerforms ==
  ASSUME NEW p, Fits(p), NEW W, Base(p, W), Due(p), p.asks = <<>>, NEW r, ResponseShape(r),
         r.saved \subseteq Saved(p), NEW kind \in {"acknowledge", "shelve"}, NEW ids, ids \subseteq Episodes,
         NEW rest, Acts(Apply([p EXCEPT !.response = r], kind, ids), rest)
  PROVE  Performs(p, rest, W)
<1> DEFINE o == [p EXCEPT !.response = r]
           s == [r EXCEPT !.busy = TRUE]
           b == [p EXCEPT !.response = s]
           d == Rendered(b)
           list == SetToSeq(ids)
           call == [slot |-> "response", n |-> r.n, kind |-> kind, captured |-> ids,
                    id |-> None, tried |-> {}, rest |-> list]
           q == Continue(d, call)
<1>1. o.response = r /\ [o EXCEPT !.response.busy = TRUE] = b BY Zenon DEF Fits, Fields
<1>2. Apply(o, kind, ids) = IF q.asks = <<>> THEN Ended(q, r.n) ELSE q BY <1>1 DEF Apply
<1>3. Acts(IF q.asks = <<>> THEN Ended(q, r.n) ELSE q, rest) BY Zenon, <1>2, Zenon
<1>4. list \in Seq(ids) BY PanelAssumption, FS_Subset, SetToSeqType
<1> HIDE DEF list
<1>5. CallFits(call) BY Zenon, <1>4 DEF CallFits
<1> HIDE DEF o, call
<1>6. ResponseShape(s) /\ s.saved = r.saved BY BusyShape
<1> HIDE DEF s
<1>7. Calmly(p, p, W) BY NothingHandles DEF Calmly
<1>8. Calmly(p, b, W) BY <1>6, <1>7, RespondCalmly
<1> HIDE DEF b
<1>9. Calmly(p, d, W) BY <1>8, RenderedCalmly
<1> HIDE DEF d
<1> QED BY <1>3, <1>5, <1>9, RequestPerforms

(* A panel left by a handler that asked for nothing. *)
LEMMA QuietFits ==
  ASSUME NEW q, Whole(q), q.asks = <<>>, NEW rest, Runs(q, rest), Inv'
  PROVE  Fits(q)
BY DEF Runs, Whole, Fields, Inv

(* Another state of the dialog of actions. *)
LEMMA ToolPerforms ==
  ASSUME Inv, Inv', NEW W, Base(panel, W), Due(panel), NEW u, NEW rest,
         Runs([panel EXCEPT !.tool = u], rest), UNCHANGED server
  PROVE  Performs(panel, rest, W)
<1> DEFINE q == [panel EXCEPT !.tool = u]
<1>1. Fits(panel) /\ panel.asks = <<>> BY DEF Inv
<1>2. Whole(q) /\ q.asks = <<>> BY <1>1 DEF Fits, Fields, Whole
<1>3. Runs(q, rest) /\ q = [panel EXCEPT !.tool = u] OBVIOUS
<1> HIDE DEF q
<1>4. Fits(q) BY Zenon, <1>2, <1>3, QuietFits
<1>5. Handles(panel, q, W, 0) BY Zenon, <1>1, <1>3, <1>4, BesideHandles
<1>6. Acts(q, rest) BY <1>2, <1>3 DEF Acts
<1> QED BY <1>2, <1>4, <1>5, <1>6 DEF Performs, Calmly

(* The dialog of an action opens, *)
LEMMA OpenToolPerforms ==
  ASSUME Inv, Inv', NEW W, Base(panel, W), Due(panel), NEW kind, OpenTool(kind)
  PROVE  Performs(panel, down, W)
<1> DEFINE u == [id |-> panel.selections + 1, kind |-> kind,
                 target |-> panel.detail.id, busy |-> FALSE, done |-> FALSE]
           q == Tooled(panel, u)
<1>1. Runs(q, down) /\ UNCHANGED server BY DEF OpenTool, Follows, Tooled
<1> HIDE DEF u
<1>2. Fits(panel) /\ panel.asks = <<>> BY DEF Inv
<1>3. Whole(q) /\ q.asks = <<>>
 <2> DEFINE r == Shut(panel)
 <2>1. Whole(r) /\ r.asks = <<>> BY Zenon, <1>2 DEF Shut, Fits, Fields, Whole
 <2> HIDE DEF r
 <2>2. q = [r EXCEPT !.selections = @ + 1, !.tool = u] BY DEF Tooled, r
 <2> QED BY Zenon, <2>1, <2>2 DEF Fields, Whole
<1>4. Fits(q) BY <1>1, <1>3, QuietFits
<1>5. Handles(panel, q, W, 0) BY <1>2, <1>4, ToolHandles
<1>6. Acts(q, down) BY <1>1, <1>3 DEF Acts
<1> QED BY <1>3, <1>4, <1>5, <1>6 DEF Performs, Calmly

(* closes, *)
LEMMA CloseToolPerforms ==
  ASSUME Inv, Inv', NEW W, Base(panel, W), Due(panel), CloseTool
  PROVE  Performs(panel, down, W)
BY ToolPerforms DEF CloseTool, Follows

(* is submitted, *)
LEMMA SubmitPerforms ==
  ASSUME Inv, NEW W, Base(panel, W), Due(panel), Submit
  PROVE  Performs(panel, down, W)
<1> DEFINE u == [panel.tool EXCEPT !.busy = TRUE]
           q == [panel EXCEPT !.tool = u]
           call == [slot |-> "tool", tool |-> panel.tool.id, kind |-> panel.tool.kind,
                    id |-> panel.tool.target]
<1>1. panel.tool # None /\ Current(panel) /\ Acts(Ask(q, call), down) BY DEF Submit, Press, Allowed
<1>2. Fits(panel) /\ panel.asks = <<>> BY DEF Inv
<1>3. /\ u = [id |-> u.id, kind |-> u.kind, target |-> u.target, busy |-> u.busy, done |-> u.done]
      /\ u.id = panel.tool.id /\ u.kind = panel.tool.kind /\ u.target = panel.tool.target
 BY Zenon, <1>1, <1>2, ToolBusy
<1> HIDE DEF u
<1>4. Fits(q) /\ q.asks = <<>> /\ q.status = panel.status BY <1>1, <1>2, <1>3, ToolSet
<1>5. call.slot \notin ReadSlots /\ call.kind \in Kinds BY <1>1, <1>2 DEF ReadSlots, Fits, ToolFits
<1>6. q = [panel EXCEPT !.tool = u] OBVIOUS
<1> HIDE DEF q, call
<1>7. Handles(panel, q, W, 0) BY Zenon, <1>2, <1>4, <1>6, BesideHandles
<1>8. Current(q) BY <1>1, <1>4 DEF Current
<1> QED BY <1>1, <1>4, <1>5, <1>7, <1>8 DEF Performs, Calmly

(* and takes its answer, or that of another is let go. *)
LEMMA ToolReplyPerforms ==
  ASSUME Inv, Inv', NEW W, Base(panel, W), Due(panel), NEW call, NEW answer, NEW rest,
         Acts(ToolReply(panel, call, answer), rest)
  PROVE  Performs(panel, rest, W)
<1> DEFINE q == ToolReply(panel, call, answer)
           u == [panel.tool EXCEPT !.busy = FALSE, !.done = answer.ok]
           p == [panel EXCEPT !.tool = u]
<1>1. Fits(panel) /\ panel.asks = <<>> BY DEF Inv
<1>2. q = panel \/ q = p BY Zenon DEF ToolReply
<1>3. Acts(q, rest) OBVIOUS
<1> HIDE DEF q, u
<1>4. CASE q = panel BY <1>1, NothingHandles, <1>3, <1>4 DEF Calmly, Performs
<1>5. CASE q = p BY Zenon, <1>1, <1>3, <1>5, ToolPerforms DEF Fits, Fields, Acts
<1> QED BY <1>2, <1>4, <1>5

(* An issue is chosen or not; *)
LEMMA ChoosePerforms ==
  ASSUME Inv, NEW W, Base(panel, W), Due(panel), NEW e \in Episodes, Choose(e)
  PROVE  Performs(panel, down, W)
<1> DEFINE x == IF e \in panel.response.chosen THEN panel.response.chosen \ {e}
                ELSE panel.response.chosen \cup {e}
           r == [panel.response EXCEPT !.chosen = x]
<1>1. OnDevice /\ panel.asks = <<>> BY DEF Choose, Idle, Inv
<1>2. Fits(panel) /\ ResponseShape(panel.response) /\ panel.response.saved = Saved(panel) BY <1>1, IdleFacts
<1>3. Acts(Rendered([panel EXCEPT !.response = r]), down) BY DEF Choose, Press
<1> HIDE DEF x
<1>4. ResponseShape(r) /\ r.saved = Saved(panel) BY <1>2, ChosenShape
<1> HIDE DEF r
<1> QED BY <1>1, <1>2, <1>3, <1>4, DrawPerforms

(* the form of a pause opens *)
LEMMA PausePerforms ==
  ASSUME Inv, NEW W, Base(panel, W), Due(panel), Pause
  PROVE  Performs(panel, down, W)
<1> DEFINE x == Selected(panel)
           r == [panel.response EXCEPT !.form = x]
<1>1. OnDevice /\ panel.asks = <<>> BY DEF Pause, Idle, Inv
<1>2. Fits(panel) /\ ResponseShape(panel.response) /\ panel.response.saved = Saved(panel) BY <1>1, IdleFacts
<1>3. Acts(Rendered([panel EXCEPT !.response = r]), down) BY DEF Pause, Press
<1>4. x \subseteq Episodes BY <1>2, SelectedFacts
<1> HIDE DEF x
<1>5. ResponseShape(r) /\ r.saved = Saved(panel) BY <1>2, <1>4, FormShape
<1> HIDE DEF r
<1> QED BY <1>1, <1>2, <1>3, <1>5, DrawPerforms

(* and closes; *)
LEMMA CancelPausePerforms ==
  ASSUME Inv, NEW W, Base(panel, W), Due(panel), CancelPause
  PROVE  Performs(panel, down, W)
<1> DEFINE r == [panel.response EXCEPT !.form = None]
<1>1. OnDevice /\ panel.asks = <<>> BY DEF CancelPause, Idle, Inv
<1>2. Fits(panel) /\ ResponseShape(panel.response) /\ panel.response.saved = Saved(panel) BY <1>1, IdleFacts
<1>3. Acts(Rendered([panel EXCEPT !.response = r]), down) BY DEF CancelPause, Press
<1>4. ResponseShape(r) /\ r.saved = Saved(panel) BY <1>2, FormShape
<1> HIDE DEF r
<1> QED BY <1>1, <1>2, <1>3, <1>4, DrawPerforms

(* the issues selected are acknowledged, *)
LEMMA AcknowledgePerforms ==
  ASSUME Inv, NEW W, Base(panel, W), Due(panel), Acknowledge
  PROVE  Performs(panel, down, W)
<1> DEFINE r == Response(panel)
           ids == Selected(panel)
<1>1. Fits(panel) /\ panel.asks = <<>> BY DEF Inv
<1>2. Acts(Apply([panel EXCEPT !.response = r], "acknowledge", ids), down) BY DEF Acknowledge, Press
<1>3. ResponseShape(r) /\ r.saved = Saved(panel) BY <1>1, ResponseStays DEF ResponseShape
<1>4. ids \subseteq Episodes BY <1>1, SelectedFacts
<1> HIDE DEF r, ids
<1> QED BY <1>1, <1>2, <1>3, <1>4, ApplyPerforms

(* or paused. *)
LEMMA ApplyPausePerforms ==
  ASSUME Inv, NEW W, Base(panel, W), Due(panel), ApplyPause
  PROVE  Performs(panel, down, W)
<1> DEFINE r == panel.response
           ids == panel.response.form
<1>1. OnDevice /\ ids # None /\ Acts(Apply(panel, "shelve", ids), down) /\ panel.asks = <<>> /\ Fits(panel)
 BY DEF ApplyPause, Idle, Inv, Press
<1>2. ResponseShape(r) /\ r.saved = Saved(panel) /\ panel = [panel EXCEPT !.response = r] BY <1>1, IdleFacts
<1>3. ids \subseteq Episodes BY <1>1, <1>2 DEF ResponseShape
<1>4. Acts(Apply([panel EXCEPT !.response = r], "shelve", ids), down) BY Zenon, <1>1, <1>2, Zenon
<1> HIDE DEF r, ids
<1> QED BY <1>1, <1>2, <1>3, <1>4, ApplyPerforms

(* An answer, and the next request. *)
LEMMA ResponseReplyPerforms ==
  ASSUME NEW p, Fits(p), p.asks = <<>>, NEW W, Base(p, W), Due(p),
         NEW call, CallFits(call), NEW answer, NEW rest, Acts(ResponseReply(p, call, answer), rest)
  PROVE  Performs(p, rest, W)
<1> DEFINE mine == p.response # None /\ p.response.n = call.n
           added == [p EXCEPT !.response.saved = @ \cup {<<call.kind, call.id>>}]
           noted == IF mine /\ answer.ok THEN added ELSE p
           q == Continue(noted, call)
<1>1. Acts(IF q.asks = <<>> THEN Ended(q, call.n) ELSE q, rest) BY DEF ResponseReply
<1>2. Calmly(p, p, W) BY NothingHandles DEF Calmly
<1>3. Calmly(p, noted, W)
 <2>1. CASE mine /\ answer.ok
  <3> DEFINE a == <<call.kind, call.id>>
             u == [p.response EXCEPT !.saved = p.response.saved \cup {a}]
  <3>1. added = [p EXCEPT !.response.saved = @ \cup {a}] OBVIOUS
  <3>2. added = [p EXCEPT !.response = u] OBVIOUS
  <3> HIDE DEF a, u, added
  <3>3. Fits(added) BY Zenon, <2>1, <3>1, NotedFacts
  <3>4. Handles(p, added, W, 0) /\ added.asks = p.asks BY Zenon, <3>2, <3>3, BesideHandles
  <3>5. Calmly(p, added, W) BY <3>3, <3>4 DEF Calmly
  <3> QED BY <2>1, <3>5
 <2>2. CASE ~(mine /\ answer.ok) BY <1>2, <2>2
 <2> QED BY <2>1, <2>2
<1> HIDE DEF noted
<1> QED BY <1>1, <1>3, RequestPerforms

(* An answer of another read leaves the dialog and the report. *)
LEMMA OthersDropped ==
  ASSUME NEW p, p.asks = <<>>, NEW W, NEW call
  PROVE  /\ (call.slot # "detail" /\ DetailHolds(p, W \cup {call})) => DetailHolds(p, W)
         /\ (call.slot # "report" /\ ReportHolds(p, W \cup {call})) => ReportHolds(p, W)
         /\ (~OfSource(call) /\ SourceHolds(p, W \cup {call})) => SourceHolds(p, W)
BY UnderNone, DroppedHolds DEF DetailHolds, ReportHolds, OfReport, Numbered

(* An answer of the source, *)
LEMMA SourceAnswerHandles ==
  ASSUME NEW p, Fits(p), p.asks = <<>>, NEW W, NEW call, Base(p, W \cup {call}), Due(p),
         OfSource(call), NEW c \in Nat, NEW q, Loads(p, q, W, c), Caught(q)
  PROVE  Handles(p, q, W, c)
BY Zenon, OthersDropped, SourceMoves DEF OfSource, Base, SourceHolds, Due, Handles

(* of the dialog *)
LEMMA DetailAnswerHandles ==
  ASSUME NEW p, Fits(p), p.asks = <<>>, NEW W, NEW call, Base(p, W \cup {call}), Due(p),
         call.slot = "detail", NEW q, Redraws(p, q, W)
  PROVE  Handles(p, q, W, 0)
BY Zenon, OthersDropped, DetailMoves DEF Base, OfSource, Due, Handles

(* and of the report. *)
LEMMA ReportAnswerHandles ==
  ASSUME NEW p, Fits(p), p.asks = <<>>, NEW W, NEW call, Base(p, W \cup {call}), Due(p),
         call.slot = "report", ReadFits(call), NEW answer
  PROVE  Handles(p, ReportReply(p, call, answer), W, 0)
<1> DEFINE q == ReportReply(p, call, answer)
<1>1. SourceHolds(p, W) /\ DetailHolds(p, W) /\ Timely(p) /\ ReportHolds(p, W \cup {call})
 BY OthersDropped DEF Base, OfSource
<1>2. Caught(p) /\ Shown(p) /\ ReportAsked(p) BY DEF Due
<1>3. PICK r : /\ ForReport(p, r) /\ ReportHolds(r, W) /\ ReportAsked(r)
               /\ r.reportRequest \in {p.reportRequest, None}
               /\ q = r \/ Redraws(r, q, W) BY <1>1, <1>2, ReportReplyHolds
<1> HIDE DEF q
<1>4. Moves(p, r, 0) /\ Base(r, W) /\ Caught(r) /\ Shown(r) BY <1>1, <1>2, <1>3, ReportMoves
<1>5. Handles(p, r, W, 0) BY <1>3, <1>4 DEF Handles, Due
<1>6. Redraws(r, q, W) => Handles(p, q, W, 0) BY <1>4, <1>5, DetailEnds, HandlesThen DEF Handles
<1>7. Handles(p, q, W, 0) BY <1>3, <1>5, <1>6
<1> QED BY <1>7 DEF q

(* An answer of a read, which is the last of its number. *)
LEMMA ReplyHandles ==
  ASSUME NEW p, Fits(p), p.asks = <<>>, NEW W, NEW call, Base(p, W \cup {call}), Due(p),
         call.slot \in ReadSlots, ReadFits(call), NEW answer, Final(p, call, W), FinalRead(p, call, W),
         call.slot # "report" => Prompt(p, call, answer)
  PROVE  Handles(p, Replied(p, call, answer), W, Charge(p, call, answer))
<1> DEFINE c == Charge(p, call, answer)
<1>0. c \in Nat /\ (call.slot \in {"detail", "report"} => c = 0)
      /\ (IF Numbered(p, call) /\ ~answer.ok THEN 1 ELSE 0) = c BY DEF Charge, Numbered, OfSource
<1>1. Timely(p) /\ SourceHolds(p, W \cup {call}) /\ DetailHolds(p, W \cup {call}) /\ Caught(p) /\ Shown(p)
 BY DEF Base, Due
<1>2. CASE call.slot = "source"
 <2> DEFINE q == SourceReply(p, call, answer)
 <2>1. Replied(p, call, answer) = q BY <1>2 DEF Replied
 <2>2. PaneFits(call.previous) BY <1>2 DEF ReadFits
 <2>3. Loads(p, q, W, c) /\ Caught(q) BY <1>1, <1>2, <2>2, SourceReplyHolds DEF Charge
 <2> HIDE DEF q, c
 <2>4. OfSource(call) BY <1>2 DEF OfSource
 <2>5. Handles(p, q, W, c) BY <1>0, <2>3, <2>4, SourceAnswerHandles
 <2> QED BY <2>1, <2>5 DEF c
<1>3. CASE call.slot = "more"
 <2> DEFINE q == MoreReply(p, call, answer)
 <2>1. Replied(p, call, answer) = q BY <1>3 DEF Replied
 <2>2. Loads(p, q, W, 0) /\ Caught(q) BY <1>1, <1>3, MoreReplyHolds
 <2>3. Weight(p) \in Nat /\ Weight(q) \in Nat BY <1>1, <2>2, WeightType DEF Loads, SourceHolds
 <2> HIDE DEF q, c
 <2>4. Loads(p, q, W, c) BY <1>0, <2>2, <2>3 DEF Loads
 <2>5. OfSource(call) BY <1>3 DEF OfSource
 <2>6. Handles(p, q, W, c) BY <1>0, <2>2, <2>4, <2>5, SourceAnswerHandles
 <2> QED BY <2>1, <2>6 DEF c
<1>4. CASE call.slot = "detail"
 <2> DEFINE q == DetailReply(p, call, answer)
 <2>1. Replied(p, call, answer) = q BY <1>4 DEF Replied
 <2>2. Redraws(p, q, W) BY <1>1, <1>4, DetailReplyHolds
 <2> HIDE DEF q
 <2>3. Handles(p, q, W, 0) BY <1>4, <2>2, DetailAnswerHandles
 <2> QED BY <1>0, <1>4, <2>1, <2>3
<1>5. CASE call.slot = "report" BY <1>5, ReportAnswerHandles, <1>0 DEF Replied
<1> QED BY <1>2, <1>3, <1>4, <1>5 DEF ReadSlots

(* What the listener is told first. *)
LEMMA NoticedFits ==
  ASSUME NEW p, Fits(p), NEW status, NEW data, status = "current" => data.open \subseteq Episodes
  PROVE  Fits(Noticed(p, status, data)) /\ Noticed(p, status, data).asks = p.asks
<1> DEFINE left == IF status # "current" /\ Current(p) THEN InvalidateReads(p) ELSE p
           known == IF status = "current" THEN data ELSE left.data
           q == Noticed(p, status, data)
<1>1. Opens(p, left) /\ left.asks = p.asks BY InvalidateReadsOpens, Nothing, StaysOpens
<1>2. Fits(left) BY <1>1 DEF Opens, Follow
<1>3. q = [left EXCEPT !.status = status, !.data = known] BY DEF Noticed
<1> HIDE DEF left
<1>4. known # None => known.open \subseteq Episodes BY <1>2 DEF Fits, DetailFits
<1> HIDE DEF known, q
<1>5. /\ Whole(q) /\ q.page = left.page /\ q.status = status /\ q.data = known
      /\ q.detail = left.detail /\ q.selections = left.selections /\ q.body = left.body
      /\ q.report = left.report /\ q.reportStatus = left.reportStatus /\ q.members = left.members
      /\ q.reportEpisode = left.reportEpisode /\ q.pending = left.pending /\ q.tool = left.tool
      /\ q.response = left.response /\ q.pane = left.pane /\ q.asks = left.asks
 BY Zenon, <1>2, <1>3 DEF Fits, Fields, Whole
<1>6. DetailFits(q) BY <1>2, <1>4, <1>5 DEF Fits, DetailFits
<1>7. ResponseFits(q) /\ AsksFit(q) /\ ReportFits(q) /\ ToolFits(q)
 BY Zenon, <1>2, <1>5 DEF Fits, ResponseFits, AsksFit, ReportFits, ToolFits
<1>8. Fits(q) BY <1>2, <1>5, <1>6, <1>7 DEF Fits, Whole
<1> QED BY <1>1, <1>5, <1>8 DEF q

(* Later evidence: what is on display, or under way, is of an earlier one. *)
LEMMA LaterHolds ==
  ASSUME NEW p, NEW W, Base(p, W), NEW q, Retained(p, q), Current(q), q.data.at \in Nat,
         Current(p) => p.data.at < q.data.at
  PROVE  Base(q, W) /\ Weight(q) = Weight(p)
<1>1. Under(q, W) = Under(p, W) BY DEF Under, Retained
<1>2. \A call : Numbered(q, call) <=> Numbered(p, call) BY DEF Numbered, Retained
<1>3. Current(p) => p.data.at \in Nat BY DEF Base, Timely
<1>4. ASSUME NEW x, Honest(p, x), x.stamp = <<>> \/ Current(p) PROVE Honest(q, x) BY <1>3, <1>4 DEF Honest
<1>5. PaneHolds(q) BY <1>4 DEF Base, SourceHolds, PaneHolds, Retained
<1>6. ASSUME NEW call, Awaited(p, call), p.sourceRequest # None PROVE Awaited(q, call)
 BY <1>6, <1>4, <1>3 DEF Base, SourceHolds, PaneHolds, Awaited, Own, Retained
<1>7. \A call : Awaited(p, call) => p.sourceRequest # None BY DEF Awaited, Own
<1>8. SourceHolds(q, W)
 <2>1. SourceHolds(p, W) BY DEF Base
 <2>2. \A call \in Under(q, W) : OfSource(call) => call.id \in Nat /\ call.id <= q.sourceSequence
  BY <1>1, <2>1 DEF SourceHolds, Retained
 <2>3. \A call \in Under(q, W) : Numbered(q, call) => Awaited(q, call)
  BY <1>1, <1>2, <1>6, <1>7, <2>1 DEF SourceHolds
 <2>4. q.sourceRequest # None => \E call \in Under(q, W) : Numbered(q, call)
  BY <1>1, <1>2, <2>1 DEF SourceHolds, Retained
 <2>5. \A i \in DOMAIN q.asks : Numbered(q, q.asks[i]) =>
         /\ \A call \in W : ~Numbered(q, call)
         /\ \A j \in DOMAIN q.asks : Numbered(q, q.asks[j]) => i = j BY <1>2, <2>1 DEF SourceHolds, Retained
 <2> QED BY <1>5, <2>2, <2>3, <2>4, <2>5 DEF SourceHolds
<1>9. DetailHolds(q, W) BY DetailLater DEF Base, DetailHolds, DialogHolds, Retained
<1>10. ReportHolds(q, W) BY <1>1 DEF Base, ReportHolds, Retained, OfReport
<1>11. Timely(q) BY DEF Base, Timely, Retained
<1> QED BY <1>8, <1>9, <1>10, <1>11 DEF Base, Weight, Retained

(* An idle panel, whose numbers are those of no request that counts. *)
LEMMA IdlingHolds ==
  ASSUME NEW p, p.asks = <<>>, NEW W, Base(p, W), NEW q, q.asks = <<>>, Idling(q),
         q.source \in Nodes, q.readings \in {0, 1},
         q.sourceSequence \in Nat,
         \/ p.sourceSequence < q.sourceSequence
         \/ p.sourceSequence = q.sourceSequence /\ p.sourceRequest = None,
         q.detailSequence \in Nat,
         \/ p.detailSequence < q.detailSequence
         \/ p.detailSequence = q.detailSequence /\ p.detailRequest = None,
         q.detail # None => /\ q.detail.n \in Nat /\ q.detail.n <= q.selections
                            /\ q.context # None => q.detail.kind = "device" /\ q.context \in Nat,
         ReportHolds(q, W)
  PROVE  Base(q, W) /\ Due(q) /\ Weight(q) = q.sourceSequence
<1>1. Under(q, W) = W /\ Under(p, W) = W /\ DOMAIN q.asks = {} BY UnderNone
<1>2. SourceHolds(p, W) /\ DetailHolds(p, W) /\ p.sourceSequence \in Nat /\ p.detailSequence \in Nat
 BY BaseNumbers DEF Base, SourceHolds
<1>3. \A call \in W : OfSource(call) => call.id \in Nat /\ call.id <= p.sourceSequence
 BY <1>1, <1>2 DEF SourceHolds
<1>4. \A call \in W : Numbered(p, call) => p.sourceRequest # None BY <1>1, <1>2 DEF SourceHolds, Awaited, Own
<1>5. \A call \in W : ~Numbered(q, call) BY <1>2, <1>3, <1>4 DEF Numbered
<1>6. \A call \in W : OfSource(call) => call.id \in Nat /\ call.id <= q.sourceSequence BY <1>2, <1>3
<1>7. \A call \in W : call.slot = "detail" =>
         call.id \in Nat /\ call.id <= p.detailSequence /\ call.step \in Steps /\ call.at \in Nat
 BY <1>1, <1>2 DEF DetailHolds
<1>8. \A call \in W : Heard(p, call) => p.detailRequest # None BY <1>1, <1>2 DEF DetailHolds, Following
<1>9. \A call \in W : ~Heard(q, call) BY <1>2, <1>7, <1>8 DEF Heard
<1>10. \A call \in W : call.slot = "detail" =>
         call.id \in Nat /\ call.id <= q.detailSequence /\ call.step \in Steps /\ call.at \in Nat BY <1>2, <1>7
<1>11. PaneHolds(q) BY Zenon DEF PaneHolds, Idling, Honest
<1>12. SourceHolds(q, W) BY <1>1, <1>5, <1>6, <1>11 DEF SourceHolds, Idling
<1>13. DialogHolds(q) BY Zenon DEF DialogHolds, Idling
<1>14. DetailHolds(q, W) BY <1>1, <1>9, <1>10, <1>13 DEF DetailHolds, Idling
<1>15. Timely(q) BY DEF Timely, Idling
<1>16. Due(q) BY DEF Due, Caught, Shown, ReportAsked, Idling
<1>17. Weight(q) = q.sourceSequence BY DEF Weight, Idling
<1> QED BY <1>12, <1>14, <1>15, <1>16, <1>17 DEF Base

(* A panel that is not current waits for no read but of a report. *)
LEMMA NotCurrentFacts ==
  ASSUME NEW p, NEW W, Base(p, W), ~Current(p)
  PROVE  Idling(p) /\ Weight(p) = p.sourceSequence
BY DEF Base, SourceHolds, PaneHolds, DetailHolds, DialogHolds, Idling, Weight

(* The panel once its evidence is no longer current. *)
LEMMA AwayFields ==
  ASSUME NEW p, Fits(p), NEW W, Base(p, W), p.asks = <<>>, NEW status, status # "current"
  PROVE  /\ Fits(Away(p, status)) /\ Away(p, status).asks = <<>> /\ Away(p, status).conn = p.conn
         /\ Away(p, status).data = p.data /\ Away(p, status).status = status
         /\ Away(p, status).source = p.source /\ Away(p, status).readings = p.readings
         /\ Away(p, status).detail = p.detail /\ Away(p, status).selections = p.selections
         /\ Away(p, status).context = p.context
         /\ Idling(Away(p, status)) /\ ReportHolds(Away(p, status), W)
         /\ (Unread(p) \/ Current(p)) => Unread(Away(p, status))
         /\ Away(p, status).sourceSequence = (IF Current(p) THEN p.sourceSequence + 1 ELSE p.sourceSequence)
         /\ Away(p, status).detailSequence = (IF Current(p) THEN p.detailSequence + 1 ELSE p.detailSequence)
<1> DEFINE q == Away(p, status)
<1>0. Fits(q) /\ q.asks = <<>> BY NoticedFits DEF Away
<1>1. CASE ~Current(p)
 <2>1. q = [p EXCEPT !.status = status, !.data = p.data] BY <1>1 DEF Away, Noticed
 <2>2. /\ q.conn = p.conn /\ q.data = p.data /\ q.status = status
       /\ q.source = p.source /\ q.readings = p.readings
       /\ q.detail = p.detail /\ q.selections = p.selections /\ q.context = p.context
       /\ q.sourceRequest = p.sourceRequest /\ q.sourceRefreshPending = p.sourceRefreshPending
       /\ q.detailRequest = p.detailRequest /\ q.detailRefreshPending = p.detailRefreshPending
       /\ q.pane = p.pane /\ q.report = p.report /\ q.reportSequence = p.reportSequence
       /\ q.reportRequest = p.reportRequest
       /\ q.sourceSequence = p.sourceSequence /\ q.detailSequence = p.detailSequence
        BY ZenonT(40), <2>1 DEF Fits, Fields
 <2> HIDE DEF q
 <2>3. Idling(p) BY <1>1, NotCurrentFacts
 <2>4. Idling(q) BY <2>2, <2>3 DEF Idling, Current
 <2>5. ReportHolds(q, W) BY <1>0, <2>2 DEF Under, Base, ReportHolds, OfReport
 <2>6. (Unread(p) \/ Current(p)) => Unread(q) BY <1>1, <2>2 DEF Unread
 <2> QED BY <1>0, <1>1, <2>2, <2>4, <2>5, <2>6 DEF q
<1>2. CASE Current(p)
 <2> DEFINE r == InvalidateReport(p)
            pane == IF r.pane = None THEN r.pane
                    ELSE [r.pane EXCEPT !.stamp = <<>>, !.loading = FALSE, !.more = FALSE]
            i == [r EXCEPT !.sourceSequence = @ + 1, !.sourceRequest = None,
                           !.sourceRefreshPending = FALSE, !.pane = pane,
                           !.detailSequence = @ + 1, !.detailRequest = None,
                           !.detailRefreshPending = FALSE]
 <2>1. q = [i EXCEPT !.status = status, !.data = @] BY <1>2 DEF Away, Noticed, InvalidateReads
 <2>2. ForReport(p, r) /\ ReportHolds(r, W) /\ Unread(r) /\ r.asks = p.asks /\ r.report = p.report
  BY InvalidateReportHolds DEF Base
 <2> HIDE DEF r
 <2>3. Fits(r) /\ SourceKept(p, r) /\ DetailKept(p, r) /\ r.source = p.source /\ r.readings = p.readings
  BY <2>2 DEF ForReport
 <2>4. pane # None => pane \in Panes /\ pane.stamp = <<>> /\ pane.loading = FALSE /\ pane.more = FALSE
  <3>1. r.pane # None => r.pane \in Panes BY <2>3 DEF Base, SourceHolds, PaneHolds, SourceKept
  <3> DEFINE v == [r.pane EXCEPT !.stamp = <<>>, !.loading = FALSE, !.more = FALSE]
  <3>2. r.pane # None => v \in Panes /\ v.stamp = <<>> /\ v.loading = FALSE /\ v.more = FALSE
   BY Zenon, <3>1 DEF Panes, Stamps
  <3>3. pane # None => r.pane # None /\ pane = v OBVIOUS
  <3> HIDE DEF v, pane
  <3> QED BY <3>2, <3>3
 <2> HIDE DEF pane
 <2>5. /\ i.conn = r.conn /\ i.data = r.data
       /\ i.source = r.source /\ i.readings = r.readings
       /\ i.detail = r.detail /\ i.selections = r.selections /\ i.context = r.context
       /\ i.sourceRequest = None /\ i.sourceRefreshPending = FALSE
       /\ i.detailRequest = None /\ i.detailRefreshPending = FALSE
       /\ i.pane = pane /\ i.report = r.report /\ i.reportSequence = r.reportSequence
       /\ i.reportRequest = r.reportRequest
       /\ i.sourceSequence = r.sourceSequence + 1 /\ i.detailSequence = r.detailSequence + 1
       /\ DOMAIN i = Fields BY <2>3 DEF Fits, Fields
 <2> HIDE DEF i
 <2>6. /\ q.conn = r.conn /\ q.data = r.data /\ q.status = status
       /\ q.source = r.source /\ q.readings = r.readings
       /\ q.detail = r.detail /\ q.selections = r.selections /\ q.context = r.context
       /\ q.sourceRequest = None /\ q.sourceRefreshPending = FALSE
       /\ q.detailRequest = None /\ q.detailRefreshPending = FALSE
       /\ q.pane = pane /\ q.report = r.report /\ q.reportSequence = r.reportSequence
       /\ q.reportRequest = r.reportRequest
       /\ q.sourceSequence = r.sourceSequence + 1 /\ q.detailSequence = r.detailSequence + 1
  BY <2>1, <2>5 DEF Fields
 <2> HIDE DEF q
 <2>7. Idling(q) BY <2>4, <2>6 DEF Idling, Current
 <2>8. Unread(q) BY <2>2, <2>6 DEF Unread
 <2>9. ReportHolds(q, W) BY <2>2, <2>6, <2>8 DEF ReportHolds, Unread
 <2>10. /\ q.conn = p.conn /\ q.data = p.data /\ q.source = p.source /\ q.readings = p.readings
        /\ q.detail = p.detail /\ q.selections = p.selections /\ q.context = p.context
        /\ q.sourceSequence = p.sourceSequence + 1 /\ q.detailSequence = p.detailSequence + 1
  BY <2>3, <2>6 DEF SourceKept, DetailKept
 <2> QED BY <1>0, <1>2, <2>6, <2>7, <2>8, <2>9, <2>10 DEF q
<1> QED BY <1>1, <1>2

(* The listener, one handler after the other. *)
LEMMA ListenerSteps ==
  \A p, status, data :
    Listener(p, status, data) = LoadSource(Displays(status, LoadReport(Noticed(p, status, data))), FALSE)
BY DEF Listener, Displays, Noticed

(* What is away, as a base of its own. *)
LEMMA AwayHolds ==
  ASSUME NEW p, Fits(p), NEW W, Base(p, W), p.asks = <<>>, NEW status, status # "current"
  PROVE  Base(Away(p, status), W) /\ Due(Away(p, status))
         /\ Weight(Away(p, status)) = Away(p, status).sourceSequence
<1> DEFINE q == Away(p, status)
<1>1. /\ q.asks = <<>> /\ q.source = p.source /\ q.readings = p.readings
      /\ q.detail = p.detail /\ q.selections = p.selections
      /\ q.context = p.context
      /\ Idling(q) /\ ReportHolds(q, W)
      /\ q.sourceSequence = (IF Current(p) THEN p.sourceSequence + 1 ELSE p.sourceSequence)
      /\ q.detailSequence = (IF Current(p) THEN p.detailSequence + 1 ELSE p.detailSequence) BY AwayFields
<1> HIDE DEF q
<1>2. p.sourceSequence \in Nat /\ p.detailSequence \in Nat BY BaseNumbers DEF Base, SourceHolds
<1>3. ~Current(p) => p.sourceRequest = None /\ p.detailRequest = None BY Zenon, NotCurrentFacts DEF Idling
<1>4. p.detail # None => /\ p.detail.n \in Nat /\ p.detail.n <= p.selections
                         /\ p.context # None => p.detail.kind = "device" /\ p.context \in Nat
 BY DEF Base, DetailHolds, DialogHolds
<1>5. p.source \in Nodes /\ p.readings \in {0, 1} BY DEF Base, Timely
<1>6. /\ q.sourceSequence \in Nat /\ q.detailSequence \in Nat
      /\ p.sourceSequence < q.sourceSequence \/ (p.sourceSequence = q.sourceSequence /\ p.sourceRequest = None)
      /\ p.detailSequence < q.detailSequence \/ (p.detailSequence = q.detailSequence /\ p.detailRequest = None)
 BY <1>1, <1>2, <1>3
<1>7. q.detail # None => /\ q.detail.n \in Nat /\ q.detail.n <= q.selections
                         /\ q.context # None => q.detail.kind = "device" /\ q.context \in Nat BY <1>1, <1>4
<1>8. Base(q, W) /\ Due(q) /\ Weight(q) = q.sourceSequence BY <1>1, <1>5, <1>6, <1>7, IdlingHolds
<1> QED BY <1>8 DEF q

(* Evidence that is not current reads nothing of a source. *)
LEMMA ListenerAway ==
  ASSUME NEW p, Fits(p), NEW W, Base(p, W), p.asks = <<>>, NEW status, status # "current", NEW data
  PROVE  Handles(Away(p, status), Listener(p, status, data), W, 0)
<1> DEFINE q == Away(p, status)
           l == LoadDetail(q)
<1>1. Noticed(p, status, data) = q BY DEF Away, Noticed
<1>2. Base(q, W) /\ Due(q) BY AwayHolds
<1>3. Fits(q) /\ Idling(q) BY AwayFields
<1> HIDE DEF q
<1>4. LoadReport(q) = q BY <1>2, <1>3, LoadReportHolds DEF Base, Idling
<1>5. Displays(status, q) = IF q.detail # None THEN l ELSE q BY DEF Displays
<1>6. Redraws(q, l, W) BY <1>2, <1>3, LoadDetailHolds DEF Base, Idling
<1> HIDE DEF l
<1>7. Handles(q, l, W, 0) /\ Handles(q, q, W, 0) BY <1>2, <1>3, <1>6, DetailEnds, NothingHandles
<1>8. PICK o \in {l, q} : Displays(status, q) = o BY <1>5
<1>9. Handles(q, o, W, 0) BY <1>7, <1>8
<1>10. LoadSource(o, FALSE) = o BY <1>3, <1>9 DEF Handles, Moves, Idling, Current, LoadSource
<1>11. Listener(p, status, data) = o BY Zenon, <1>1, <1>4, <1>8, <1>10, ListenerSteps
<1>12. Handles(q, Listener(p, status, data), W, 0) BY <1>9, <1>11
<1> QED BY <1>12 DEF q

(* The panel as it is told of evidence. *)
LEMMA InformedFields ==
  ASSUME NEW p, Fits(p), NEW data
  PROVE  /\ Retained(p, Informed(p, data)) /\ Informed(p, data).data = data
         /\ Informed(p, data).status = "current" /\ Informed(p, data).page = p.page
         /\ Informed(p, data).pending = p.pending /\ Informed(p, data).tool = p.tool
         /\ Informed(p, data).reportEpisode = p.reportEpisode
<1> DEFINE t == Informed(p, data)
<1>1. t = [p EXCEPT !.status = "current", !.data = data] BY DEF Noticed, Informed
<1>2. /\ Retained(p, t) /\ t.data = data /\ t.status = "current" /\ t.page = p.page
      /\ t.pending = p.pending /\ t.tool = p.tool /\ t.reportEpisode = p.reportEpisode
 BY ZenonT(40), <1>1 DEF Fits, Fields, Retained
<1> QED BY <1>2

(* A link that waits no longer. *)
LEMMA FreeApart ==
  ASSUME NEW q, Fits(q), q.tool = None, q.reportEpisode = None
  PROVE  LET free == [q EXCEPT !.pending = None]
         IN /\ Apart(q, free) /\ free.tool = None /\ free.reportEpisode = None /\ free.page = q.page
            /\ free.source = q.source /\ free.readings = q.readings
<1> DEFINE free == [q EXCEPT !.pending = None]
<1>1. /\ Whole(free) /\ free.page = q.page /\ free.status = q.status /\ free.data = q.data
      /\ free.detail = q.detail /\ free.selections = q.selections /\ free.body = q.body
      /\ free.report = q.report /\ free.reportStatus = q.reportStatus /\ free.members = q.members
      /\ free.reportEpisode = q.reportEpisode /\ free.pending = None /\ free.tool = q.tool
      /\ free.response = q.response /\ free.pane = q.pane /\ free.asks = q.asks BY DEF Fits, Fields, Whole
<1>2. /\ SourceKept(q, free) /\ DetailKept(q, free) /\ ReportKept(q, free)
      /\ free.source = q.source /\ free.readings = q.readings
 BY DEF Fits, Fields, SourceKept, DetailKept, ReportKept
<1> HIDE DEF free
<1>3. DetailFits(free) /\ ResponseFits(free) /\ AsksFit(free)
 BY Zenon, <1>1 DEF Fits, DetailFits, ResponseFits, AsksFit
<1>4. ReportFits(free) /\ ToolFits(free) BY <1>1 DEF Fits, ReportFits, ToolFits
<1>5. Fits(free) BY <1>1, <1>3, <1>4 DEF Fits, Whole
<1>6. Apart(q, free) BY <1>1, <1>2, <1>5 DEF Apart
<1> QED BY <1>1, <1>2, <1>6 DEF free

(* What is displayed of current evidence. *)
LEMMA DisplaysHolds ==
  ASSUME NEW q, Fits(q), NEW W, Base(q, W), ReportAsked(q), Followed(q)
  PROVE  /\ Moves(q, Displays("current", q), 0) /\ Base(Displays("current", q), W)
         /\ Shown(Displays("current", q)) /\ ReportAsked(Displays("current", q))
<1> DEFINE free == [q EXCEPT !.pending = None]
           open == OpenDetail(free, q.pending.kind, q.pending.id)
           load == LoadDetail(q)
<1>1. /\ (q.pending # None) => Displays("current", q) = open
      /\ (q.pending = None /\ q.detail # None) => Displays("current", q) = load
      /\ (q.pending = None /\ q.detail = None) => Displays("current", q) = q BY DEF Displays
<1>2. CASE q.pending # None
 <2>1. q.tool = None /\ q.reportEpisode = None BY <1>2 DEF Fits, ToolFits, ReportFits
 <2>2. /\ Apart(q, free) /\ free.tool = None /\ free.reportEpisode = None /\ free.page = q.page
       /\ free.source = q.source /\ free.readings = q.readings BY <2>1, FreeApart
 <2> HIDE DEF free
 <2>3. free.source \in Nodes /\ free.readings \in {0, 1} BY <2>2 DEF Base, Timely
 <2>4. Moves(q, free, 0) /\ Base(free, W) /\ ReportAsked(free) BY <2>2, <2>3, ApartMoves
 <2>5. Fits(free) /\ Timely(free) /\ DetailHolds(free, W) /\ SourceHolds(free, W) /\ ReportHolds(free, W)
  BY <2>4 DEF Moves, Base
 <2>6. Redraws(free, open, W) BY <2>2, <2>5, OpenDetailHolds
 <2> HIDE DEF open
 <2>7. Moves(free, open, 0) /\ Base(open, W) /\ Shown(open) /\ ReportAsked(open)
  BY <2>4, <2>5, <2>6, DetailMoves
 <2>8. Moves(q, open, 0 + 0) BY <2>4, <2>7, MovesThen
 <2>9. Moves(q, open, 0) BY <2>8
 <2> QED BY <1>1, <1>2, <2>7, <2>9
<1>3. CASE q.pending = None /\ q.detail # None
 <2>1. Redraws(q, load, W) BY LoadDetailHolds DEF Base, Followed
 <2> HIDE DEF load
 <2>2. Moves(q, load, 0) /\ Base(load, W) /\ Shown(load) /\ ReportAsked(load) BY <2>1, DetailMoves DEF Base
 <2> QED BY <1>1, <1>3, <2>2
<1>4. CASE q.pending = None /\ q.detail = None
 BY ApartMoves, <1>4, <1>1 DEF Apart, SourceKept, DetailKept, ReportKept, Base, Timely, Shown
<1> QED BY <1>2, <1>3, <1>4

(* Current evidence: the report, the dialog and the source are read again. *)
LEMMA ListenerTells ==
  ASSUME NEW p, Fits(p), NEW W, Base(p, W), Due(p), NEW data, data.open \subseteq Episodes,
         data.at \in Nat, Current(p) => p.data.at < data.at
  PROVE  /\ Base(Informed(p, data), W) /\ Weight(Informed(p, data)) = Weight(p)
         /\ Handles(Informed(p, data), Listener(p, "current", data), W, 1)
<1> DEFINE t == Informed(p, data)
           q == LoadReport(t)
           o == Displays("current", q)
           l == LoadSource(o, FALSE)
<1>1. Listener(p, "current", data) = l BY Zenon, ListenerSteps DEF Informed
<1>2. Retained(p, t) /\ t.data = data /\ t.status = "current" BY InformedFields
<1>3. Fits(t) BY NoticedFits DEF Informed
<1> HIDE DEF t
<1>4. Current(t) /\ t.data.at \in Nat BY <1>2 DEF Current
<1>5. Base(t, W) /\ Weight(t) = Weight(p) BY <1>2, <1>4, LaterHolds
<1>6. ForReport(t, q) /\ ReportHolds(q, W) /\ ReportAsked(q) BY <1>3, <1>5, LoadReportHolds DEF Base
<1> HIDE DEF q
<1>7. Moves(t, q, 0) /\ Base(q, W) BY <1>4, <1>5, <1>6, ReportMoves DEF Base
<1>8. Followed(q)
 <2>1. p.detailRequest # None => Current(p) BY DEF Base, DetailHolds, DialogHolds
 <2>2. Followed(p) BY <2>1 DEF Due, Shown, Latest, Followed
 <2> QED BY <1>2, <1>6, <2>2 DEF ForReport, DetailKept, Retained, Followed
<1>9. Moves(q, o, 0) /\ Base(o, W) /\ Shown(o) /\ ReportAsked(o) BY <1>6, <1>7, <1>8, DisplaysHolds DEF Moves
<1> HIDE DEF o
<1>10. Moves(t, o, 0 + 0) BY <1>7, <1>9, MovesThen
<1>11. Moves(t, o, 0) BY <1>10
<1>12. Handles(t, l, W, 1) BY Zenon, <1>9, <1>11, LoadSourceEnds
<1> QED BY Zenon, <1>1, <1>5, <1>12 DEF t

(* The panel without the requests it made. *)
LEMMA RestedFields ==
  ASSUME NEW q, Fits(q)
  PROVE  /\ Rested(q).asks = <<>> /\ SourceKept(q, Rested(q)) /\ DetailKept(q, Rested(q))
         /\ ReportKept(q, Rested(q)) /\ Rested(q).page = q.page
         /\ Rested(q).source = q.source /\ Rested(q).readings = q.readings
BY DEF Fits, Fields, Rested, SourceKept, DetailKept, ReportKept

(* Its requests are under way. *)
LEMMA SentHolds ==
  ASSUME NEW q, Fits(q), NEW W, Base(q, W), Due(q)
  PROVE  Base(Rested(q), W \cup Range(q.asks)) /\ Due(Rested(q))
<1> DEFINE r == Rested(q)
           V == W \cup Range(q.asks)
<1>1. /\ r.asks = <<>> /\ SourceKept(q, r) /\ DetailKept(q, r)
      /\ ReportKept(q, r) /\ r.page = q.page
      /\ r.source = q.source /\ r.readings = q.readings BY RestedFields
<1> HIDE DEF r
<1>2. Under(r, V) = Under(q, W) /\ DOMAIN r.asks = {} BY Zenon, <1>1, UnderNone DEF Under
<1> HIDE DEF V
<1>3. PaneHolds(q) /\ SourceHolds(q, W) /\ DetailHolds(q, W) /\ DialogHolds(q) /\ ReportHolds(q, W) /\ Timely(q)
 BY DEF Base, SourceHolds, DetailHolds
<1>4. SourceHolds(r, V)
 <2>1. PaneHolds(r) BY <1>1, <1>3 DEF PaneHolds, SourceKept, Honest, Current
 <2>2. \A call : Numbered(r, call) <=> Numbered(q, call) BY <1>1 DEF Numbered, SourceKept
 <2>3. \A call : Awaited(q, call) => Awaited(r, call) BY <1>1 DEF Awaited, Own, SourceKept, Honest
 <2> QED BY <1>1, <1>2, <1>3, <2>1, <2>2, <2>3 DEF SourceHolds, SourceKept
<1>5. DetailHolds(r, V)
 <2>1. DialogHolds(r) BY <1>1, <1>3 DEF DialogHolds, DetailKept, Current
 <2>2. \A call : Heard(r, call) <=> Heard(q, call) BY <1>1 DEF Heard, DetailKept
 <2>3. \A call : Following(q, call) => Following(r, call) BY <1>1 DEF Following, DetailKept
 <2> QED BY <1>1, <1>2, <1>3, <2>1, <2>2, <2>3 DEF DetailHolds, DetailKept
<1>6. ReportHolds(r, V) BY <1>1, <1>2, <1>3 DEF ReportHolds, ReportKept, OfReport
<1>7. Timely(r) BY <1>1, <1>3 DEF Timely, SourceKept, Current
<1>8. Base(r, V) BY <1>4, <1>5, <1>6, <1>7 DEF Base
<1>9. Due(r)
 <2>1. Stamp(r) = Stamp(q) BY <1>1 DEF Stamp, Previous, SourceKept
 <2>2. Caught(r) BY <1>1, <2>1 DEF Due, Caught, SourceKept, Current
 <2>3. Shown(r) BY <1>1 DEF Due, Shown, Told, Latest, DetailKept, Current
 <2>4. ReportAsked(r) BY <1>1 DEF Due, ReportAsked, ReportKept, Current
 <2> QED BY <2>2, <2>3, <2>4 DEF Due
<1> QED BY <1>8, <1>9 DEF r, V

(* The numbers and requests of the source and the dialog, which what is    *)
(* not current does not answer.                                            *)
LEMMA LostHolds ==
  ASSUME NEW p, NEW W, Base(p, W), ~Current(p), NEW q, SourceKept(p, q), DetailKept(p, q),
         q.source = p.source, q.readings = p.readings, q.asks = <<>>, Unread(q),
         q.reportSequence = p.reportSequence, NEW V, V \subseteq Under(p, W)
  PROVE  Base(q, V) /\ Due(q) /\ Weight(q) = Weight(p)
<1>1. Under(q, V) = V /\ DOMAIN q.asks = {} BY UnderNone
<1>2. PaneHolds(p) /\ SourceHolds(p, W) /\ DetailHolds(p, W) /\ DialogHolds(p) /\ ReportHolds(p, W) /\ Timely(p)
 BY DEF Base, SourceHolds, DetailHolds
<1>3. p.sourceRequest = None /\ p.detailRequest = None /\ ~Current(q)
 BY Zenon, NotCurrentFacts DEF Idling, SourceKept, Current
<1>4. SourceHolds(q, V)
 <2>1. PaneHolds(q) BY <1>2 DEF PaneHolds, SourceKept, Honest, Current
 <2>2. \A call : Numbered(q, call) <=> Numbered(p, call) BY DEF Numbered, SourceKept
 <2>3. \A call \in Under(p, W) : ~Numbered(p, call) BY <1>2, <1>3 DEF SourceHolds, Awaited, Own
 <2>4. \A call \in V : OfSource(call) => call.id \in Nat /\ call.id <= q.sourceSequence
  BY <1>2 DEF SourceHolds, SourceKept
 <2> QED BY <1>1, <1>3, <2>1, <2>2, <2>3, <2>4 DEF SourceHolds, SourceKept
<1>5. DetailHolds(q, V)
 <2>1. DialogHolds(q) BY <1>2 DEF DialogHolds, DetailKept, Current
 <2>2. \A call : Heard(q, call) <=> Heard(p, call) BY DEF Heard, DetailKept
 <2>3. \A call \in Under(p, W) : ~Heard(p, call) BY <1>2, <1>3 DEF DetailHolds, Following
 <2>4. \A call \in V : call.slot = "detail" =>
        call.id \in Nat /\ call.id <= q.detailSequence /\ call.step \in Steps /\ call.at \in Nat
  BY <1>2 DEF DetailHolds, DetailKept
 <2> QED BY <1>1, <1>3, <2>1, <2>2, <2>3, <2>4 DEF DetailHolds, DetailKept
<1>6. ReportHolds(q, V) BY <1>2 DEF ReportHolds, Unread
<1>7. Timely(q) BY <1>2 DEF Timely, SourceKept, Current
<1>8. Base(q, V) BY <1>4, <1>5, <1>6, <1>7 DEF Base
<1>9. Due(q) BY <1>3 DEF Due, Caught, Shown, ReportAsked
<1>10. Weight(q) = Weight(p) BY DEF Weight, SourceKept
<1> QED BY <1>8, <1>9, <1>10

(* A sequence after another is their concatenation. *)
LEMMA ConcatAfter ==
  ASSUME NEW S, NEW D \in Seq(S), NEW E \in Seq(S)
  PROVE  After(D, E, D \o E)
<1> DEFINE F == D \o E
<1>1. /\ F \in Seq(S) /\ Len(F) = Len(D) + Len(E)
      /\ \A i \in 1..Len(D) : F[i] = D[i]
      /\ \A i \in 1..Len(E) : F[Len(D) + i] = E[i] OBVIOUS
<1>2. /\ Len(D) \in Nat /\ Len(E) \in Nat /\ DOMAIN D = 1..Len(D) /\ DOMAIN E = 1..Len(E)
      /\ DOMAIN F = 1..(Len(D) + Len(E)) BY <1>1
<1> HIDE DEF F
<1>3. After(D, E, F) BY <1>1, <1>2 DEF After
<1> QED BY <1>3 DEF F

(* RemoveAt leaves out one message. *)
LEMMA RemovedAt ==
  ASSUME NEW D, Sequence(D), NEW i \in DOMAIN D
  PROVE  Removed(D, i, RemoveAt(D, i))
<1> DEFINE S == Range(D)
           a == SubSeq(D, 1, i - 1)
           b == SubSeq(D, i + 1, Len(D))
<1>1. D \in Seq(S) /\ Len(D) \in Nat /\ DOMAIN D = 1..Len(D) /\ i \in 1..Len(D) BY DEF Sequence
<1> HIDE DEF S
<1>2. a \in Seq(S) /\ Len(a) = i - 1 /\ \A k \in 1..(i - 1) : a[k] = D[k] BY <1>1
<1>3. b \in Seq(S) /\ Len(b) = Len(D) - i /\ \A k \in 1..(Len(D) - i) : b[k] = D[i + k] BY <1>1
<1> HIDE DEF a, b
<1> DEFINE R == a \o b
<1>4. RemoveAt(D, i) = R BY DEF RemoveAt, a, b
<1>5. After(a, b, R) BY <1>2, <1>3, ConcatAfter
<1> HIDE DEF R
<1>6. DOMAIN R = 1..(Len(D) - 1) BY <1>1, <1>2, <1>3, <1>5 DEF After
<1>7. ASSUME NEW k \in DOMAIN R
      PROVE  R[k] = D[Skip(i, k)]
 <2>0. k \in Nat /\ 1 <= k /\ k <= Len(D) - 1 BY <1>1, <1>6
 <2>1. CASE k < i BY <1>1, <2>0, <2>1, <1>2, <1>5 DEF Skip, After
 <2>2. CASE ~(k < i)
  <3>1. Skip(i, k) = k + 1 BY <2>2 DEF Skip
  <3> DEFINE l == k - (i - 1)
  <3>2. l \in 1..(Len(D) - i) /\ (i - 1) + l = k /\ i + l = k + 1 BY <1>1, <2>0, <2>2
  <3> HIDE DEF l
  <3>3. R[(i - 1) + l] = b[l] BY <1>2, <1>3, <1>5, <3>2 DEF After
  <3> QED BY <1>3, <3>1, <3>2, <3>3
 <2> QED BY <2>1, <2>2
<1> QED BY <1>1, <1>4, <1>6, <1>7 DEF Removed

(* Where its messages are. *)
LEMMA RemovedPlaces ==
  ASSUME NEW D, NEW i, NEW R, Removed(D, i, R)
  PROVE  /\ i \in DOMAIN D
         /\ \A k \in DOMAIN R : /\ Skip(i, k) \in DOMAIN D /\ Skip(i, k) # i /\ R[k] = D[Skip(i, k)]
                                /\ \A l \in DOMAIN R : l < k <=> Skip(i, l) < Skip(i, k)
         /\ \A j \in DOMAIN D : j # i => \E k \in DOMAIN R : Skip(i, k) = j
<1>1. ASSUME NEW k \in DOMAIN R
      PROVE  /\ Skip(i, k) \in DOMAIN D /\ Skip(i, k) # i
             /\ \A l \in DOMAIN R : l < k <=> Skip(i, l) < Skip(i, k) BY DEF Removed, Skip
<1>2. ASSUME NEW j \in DOMAIN D, j # i
      PROVE  \E k \in DOMAIN R : Skip(i, k) = j
 <2>1. CASE j < i BY <2>1 DEF Removed, Skip
 <2>2. CASE j > i
  <3>1. j - 1 \in DOMAIN R /\ Skip(i, j - 1) = j BY <2>2 DEF Removed, Skip
  <3> QED BY <3>1
 <2> QED BY <1>2, <2>1, <2>2 DEF Removed
<1> QED BY <1>1, <1>2 DEF Removed

(* The messages without one. *)
LEMMA RemovedMessages ==
  ASSUME NEW D, NEW i, NEW R, Removed(D, i, R), NEW p, NEW q, Messages(D, p), q.conn = p.conn
  PROVE  Messages(R, q)
BY RemovedPlaces DEF Messages

(* What a message is depends on the connection. *)
LEMMA SameMessages ==
  ASSUME NEW p, NEW q, q.conn = p.conn
  PROVE  \A m : /\ Tells(m, q) <=> Tells(m, p)
                /\ Ends(m, q) <=> Ends(m, p)
                /\ Dated(m, q) <=> Dated(m, p)
BY DEF Tells, Ends, Dated

(* The removal of what tells nothing. *)
LEMMA RemovedQueue ==
  ASSUME NEW D, NEW i, NEW R, Removed(D, i, R), NEW p, NEW s, Queue(D, p, s), ~Tells(D[i], p)
  PROVE  Queue(R, p, s) /\ (Announced(D, p, s) => Announced(R, p, s))
<1>1. /\ i \in DOMAIN D
      /\ \A k \in DOMAIN R : /\ Skip(i, k) \in DOMAIN D /\ Skip(i, k) # i /\ R[k] = D[Skip(i, k)]
                             /\ \A l \in DOMAIN R : l < k <=> Skip(i, l) < Skip(i, k)
      /\ \A j \in DOMAIN D : j # i => \E k \in DOMAIN R : Skip(i, k) = j BY RemovedPlaces
<1>2. Messages(R, p) /\ Clock(p, s) BY RemovedMessages DEF Queue
<1>3. EventsOrdered(R, p, s)
 <2>1. ASSUME NEW k \in DOMAIN R, Tells(R[k], p)
       PROVE  /\ R[k].data.at <= s.at /\ (Current(p) => p.data.at < R[k].data.at)
              /\ \A j \in DOMAIN R : (j < k /\ Tells(R[j], p)) => R[j].data.at < R[k].data.at
  BY <1>1, <2>1 DEF Queue, EventsOrdered
 <2>2. ASSUME NEW k \in DOMAIN R, Ends(R[k], p)
       PROVE  k + 1 \in DOMAIN R /\ Tells(R[k + 1], p) BY <1>1, <2>2 DEF Queue, EventsOrdered, Removed, Skip
 <2> QED BY <2>1, <2>2 DEF EventsOrdered
<1>4. AnswersOrdered(R, p)
 <2> SUFFICES ASSUME NEW k \in DOMAIN R, Dated(R[k], p)
              PROVE  /\ \A j \in DOMAIN R : (j < k /\ Tells(R[j], p)) => R[j].data.at <= R[k].answer.at
                     /\ \/ Current(p) /\ p.data.at = R[k].answer.at
                        \/ \E j \in DOMAIN R : j < k /\ Tells(R[j], p) /\ R[j].data.at = R[k].answer.at
  BY DEF AnswersOrdered
 <2>1. Skip(i, k) \in DOMAIN D /\ Dated(D[Skip(i, k)], p) /\ R[k] = D[Skip(i, k)] BY <1>1
 <2>2. \A j \in DOMAIN R : (j < k /\ Tells(R[j], p)) => R[j].data.at <= R[k].answer.at
  BY <1>1, <2>1 DEF Queue, AnswersOrdered
 <2>3. CASE Current(p) /\ p.data.at = D[Skip(i, k)].answer.at BY <2>1, <2>2, <2>3
 <2>4. CASE \E j \in DOMAIN D : j < Skip(i, k) /\ Tells(D[j], p) /\ D[j].data.at = D[Skip(i, k)].answer.at
  <3>1. PICK j \in DOMAIN D : j < Skip(i, k) /\ Tells(D[j], p) /\ D[j].data.at = D[Skip(i, k)].answer.at BY <2>4
  <3>2. PICK l \in DOMAIN R : Skip(i, l) = j BY <1>1, <3>1
  <3>3. l < k /\ Tells(R[l], p) /\ R[l].data.at = R[k].answer.at BY <1>1, <2>1, <3>1, <3>2
  <3> QED BY <2>2, <3>3
 <2> QED BY <2>1, <2>3, <2>4 DEF Queue, AnswersOrdered
<1>5. Announced(D, p, s) => Announced(R, p, s)
 <2>1. CASE \E j \in DOMAIN D : Tells(D[j], p) /\ D[j].data.at = s.at
  <3>1. PICK j \in DOMAIN D : Tells(D[j], p) /\ D[j].data.at = s.at BY <2>1
  <3>2. PICK l \in DOMAIN R : Skip(i, l) = j BY <1>1, <3>1
  <3>3. Tells(R[l], p) /\ R[l].data.at = s.at BY <1>1, <3>1, <3>2
  <3> QED BY <3>3 DEF Announced
 <2> QED BY <2>1 DEF Announced
<1> QED BY <1>2, <1>3, <1>4, <1>5 DEF Queue

(* Before the foremost message nothing is told, ended or read. *)
LEMMA ForemostFirst ==
  ASSUME NEW D, NEW i, Foremost(D, i), NEW p
  PROVE  \A j \in DOMAIN D : j < i => ~Tells(D[j], p) /\ ~Ends(D[j], p) /\ ~Reads(D[j])
BY DEF Foremost, Action, Tells, Ends, Reads

(* Evidence that the panel has now. *)
LEMMA ToldQueue ==
  ASSUME NEW D, NEW i, NEW R, Removed(D, i, R), Foremost(D, i), NEW p, NEW s, Queue(D, p, s),
         Tells(D[i], p), NEW q, q.conn = p.conn, Current(q), q.data.at = D[i].data.at
  PROVE  Queue(R, q, s) /\ (Announced(D, p, s) => Announced(R, q, s))
<1>1. /\ i \in DOMAIN D
      /\ \A k \in DOMAIN R : /\ Skip(i, k) \in DOMAIN D /\ Skip(i, k) # i /\ R[k] = D[Skip(i, k)]
                             /\ \A l \in DOMAIN R : l < k <=> Skip(i, l) < Skip(i, k)
      /\ \A j \in DOMAIN D : j # i => \E k \in DOMAIN R : Skip(i, k) = j BY RemovedPlaces
<1>1a. DOMAIN D \subseteq Int BY DEF Removed
<1>0. \A m : /\ Tells(m, q) <=> Tells(m, p)
             /\ Ends(m, q) <=> Ends(m, p)
             /\ Dated(m, q) <=> Dated(m, p) BY SameMessages
<1>2. Messages(R, q) BY RemovedMessages DEF Queue
<1>3. D[i].data.at \in Nat /\ D[i].data.at <= s.at /\ s.at \in Nat /\ q.conn \in Nat
      /\ (Current(p) => p.data.at \in Nat /\ p.data.at < D[i].data.at)
 BY <1>1 DEF Queue, EventsOrdered, Messages, Clock, Tells
<1>4. \A j \in DOMAIN D : j < i => ~Tells(D[j], p) /\ ~Ends(D[j], p) /\ ~Dated(D[j], p)
 BY ForemostFirst DEF Dated
<1>5. EventsOrdered(R, q, s)
 <2>1. ASSUME NEW k \in DOMAIN R, Tells(R[k], q)
       PROVE  /\ R[k].data.at <= s.at /\ (Current(q) => q.data.at < R[k].data.at)
              /\ \A j \in DOMAIN R : (j < k /\ Tells(R[j], q)) => R[j].data.at < R[k].data.at
  <3>1. Skip(i, k) \in DOMAIN D /\ Skip(i, k) # i /\ R[k] = D[Skip(i, k)] /\ Tells(D[Skip(i, k)], p)
   BY <1>0, <1>1, <2>1
  <3>2. i < Skip(i, k) BY <1>1, <1>1a, <1>4, <3>1
  <3>3. D[i].data.at < D[Skip(i, k)].data.at BY <1>1, <3>1, <3>2 DEF Queue, EventsOrdered
  <3>4. \A j \in DOMAIN R : (j < k /\ Tells(R[j], q)) => R[j].data.at < R[k].data.at
   BY <1>0, <1>1, <3>1 DEF Queue, EventsOrdered
  <3> QED BY <3>1, <3>3, <3>4 DEF Queue, EventsOrdered
 <2>2. ASSUME NEW k \in DOMAIN R, Ends(R[k], q)
       PROVE  k + 1 \in DOMAIN R /\ Tells(R[k + 1], q)
  BY <1>0, <1>1, <2>2, <1>1a, <1>4 DEF Queue, EventsOrdered, Removed, Skip
 <2> QED BY <2>1, <2>2 DEF EventsOrdered
<1>6. AnswersOrdered(R, q)
 <2> SUFFICES ASSUME NEW k \in DOMAIN R, Dated(R[k], q)
              PROVE  /\ \A j \in DOMAIN R : (j < k /\ Tells(R[j], q)) => R[j].data.at <= R[k].answer.at
                     /\ \/ Current(q) /\ q.data.at = R[k].answer.at
                        \/ \E j \in DOMAIN R : j < k /\ Tells(R[j], q) /\ R[j].data.at = R[k].answer.at
  BY DEF AnswersOrdered
 <2>1. Skip(i, k) \in DOMAIN D /\ Dated(D[Skip(i, k)], p) /\ R[k] = D[Skip(i, k)] /\ i < Skip(i, k)
  BY <1>0, <1>1, <1>1a, <1>4
 <2>2. \A j \in DOMAIN R : (j < k /\ Tells(R[j], q)) => R[j].data.at <= R[k].answer.at
  BY <1>0, <1>1, <2>1 DEF Queue, AnswersOrdered
 <2>3. D[i].data.at <= D[Skip(i, k)].answer.at BY <1>1, <2>1 DEF Queue, AnswersOrdered
 <2>4. ~(Current(p) /\ p.data.at = D[Skip(i, k)].answer.at) BY <1>3, <2>3
 <2>5. PICK j \in DOMAIN D : j < Skip(i, k) /\ Tells(D[j], p) /\ D[j].data.at = D[Skip(i, k)].answer.at
  BY <2>1, <2>4 DEF Queue, AnswersOrdered
 <2>6. CASE j = i BY <2>1, <2>2, <2>5, <2>6
 <2>7. CASE j # i
  <3>2. PICK l \in DOMAIN R : Skip(i, l) = j BY <1>1, <2>7
  <3>3. l < k /\ Tells(R[l], q) /\ R[l].data.at = R[k].answer.at BY <1>0, <1>1, <2>1, <2>5, <3>2
  <3> QED BY <2>2, <3>3
 <2> QED BY <2>6, <2>7
<1>7. Announced(D, p, s) => Announced(R, q, s)
 <2>1. ~(Current(p) /\ p.data.at = s.at) BY <1>3
 <2>2. CASE \E j \in DOMAIN D : Tells(D[j], p) /\ D[j].data.at = s.at
  <3>1. PICK j \in DOMAIN D : Tells(D[j], p) /\ D[j].data.at = s.at BY <2>2
  <3>2. CASE j = i BY <3>1, <3>2 DEF Announced
  <3>3. CASE j # i
   <4>1. PICK l \in DOMAIN R : Skip(i, l) = j BY <1>1, <3>3
   <4>2. Tells(R[l], q) /\ R[l].data.at = s.at BY <1>0, <1>1, <3>1, <4>1
   <4> QED BY <4>2 DEF Announced
  <3> QED BY <3>2, <3>3
 <2> QED BY <2>1, <2>2 DEF Announced
<1>8. Clock(q, s) BY <1>3 DEF Clock
<1> QED BY <1>2, <1>5, <1>6, <1>7, <1>8 DEF Queue

(* The evidence has come to its end, and comes again. *)
LEMMA EndedQueue ==
  ASSUME NEW D, NEW i, NEW R, Removed(D, i, R), Foremost(D, i), NEW p, NEW s, Queue(D, p, s),
         Ends(D[i], p), NEW q, q.conn = p.conn, ~Current(q)
  PROVE  Queue(R, q, s) /\ (Announced(D, p, s) => Announced(R, q, s))
         /\ \A k \in DOMAIN R : (Tells(R[k], q) /\ Current(p)) => p.data.at < R[k].data.at
<1>1. /\ i \in DOMAIN D
      /\ \A k \in DOMAIN R : /\ Skip(i, k) \in DOMAIN D /\ Skip(i, k) # i /\ R[k] = D[Skip(i, k)]
                             /\ \A l \in DOMAIN R : l < k <=> Skip(i, l) < Skip(i, k)
      /\ \A j \in DOMAIN D : j # i => \E k \in DOMAIN R : Skip(i, k) = j BY RemovedPlaces
<1>1a. DOMAIN D \subseteq Int BY DEF Removed
<1>2. ~Tells(D[i], p) /\ ~Dated(D[i], p) BY DEF Ends, Tells, Dated, Reads
<1>3. Queue(R, p, s) /\ (Announced(D, p, s) => Announced(R, p, s)) BY <1>2, RemovedQueue
<1>4. \A m : /\ Tells(m, q) <=> Tells(m, p)
             /\ Ends(m, q) <=> Ends(m, p)
             /\ Dated(m, q) <=> Dated(m, p) BY SameMessages
<1>5. i + 1 \in DOMAIN D /\ Tells(D[i + 1], p) BY <1>1 DEF Queue, EventsOrdered
<1>6. Current(p) => /\ p.data.at \in Nat /\ p.data.at <= s.at /\ s.at \in Nat /\ D[i + 1].data.at \in Nat
                    /\ p.data.at < D[i + 1].data.at /\ D[i + 1].data.at <= s.at
 BY <1>5 DEF Queue, EventsOrdered, Messages, Clock, Tells
<1>7. Clock(q, s) /\ Messages(R, q) BY <1>3 DEF Queue, Clock, Messages
<1>8. EventsOrdered(R, q, s) BY <1>3, <1>4 DEF Queue, EventsOrdered
<1>9. AnswersOrdered(R, q)
 <2> SUFFICES ASSUME NEW k \in DOMAIN R, Dated(R[k], q)
              PROVE  /\ \A j \in DOMAIN R : (j < k /\ Tells(R[j], q)) => R[j].data.at <= R[k].answer.at
                     /\ \E j \in DOMAIN R : j < k /\ Tells(R[j], q) /\ R[j].data.at = R[k].answer.at
  BY DEF AnswersOrdered
 <2>1. Dated(R[k], p) BY <1>4
 <2>2. /\ \A j \in DOMAIN R : (j < k /\ Tells(R[j], p)) => R[j].data.at <= R[k].answer.at
       /\ \/ Current(p) /\ p.data.at = R[k].answer.at
          \/ \E j \in DOMAIN R : j < k /\ Tells(R[j], p) /\ R[j].data.at = R[k].answer.at
  BY <1>3, <2>1 DEF Queue, AnswersOrdered
 <2>3. Skip(i, k) \in DOMAIN D /\ Skip(i, k) # i /\ R[k] = D[Skip(i, k)] BY <1>1
 <2>4. i < Skip(i, k) BY <1>1, <1>1a, <2>1, <2>3, ForemostFirst DEF Dated
 <2>5. i + 1 < Skip(i, k) BY <1>5, <2>1, <2>3, <1>1, <1>1a, <2>4 DEF Tells, Dated, Reads
 <2>6. D[i + 1].data.at <= R[k].answer.at BY <1>5, <2>1, <2>3, <2>5 DEF Queue, AnswersOrdered
 <2>7. ~(Current(p) /\ p.data.at = R[k].answer.at) BY <1>6, <2>6
 <2> QED BY <1>4, <2>2, <2>7
<1>10. Announced(D, p, s) => Announced(R, q, s) BY <1>6, <1>3, <1>4 DEF Announced
<1>11. \A k \in DOMAIN R : (Tells(R[k], q) /\ Current(p)) => p.data.at < R[k].data.at
 BY <1>3, <1>4 DEF Queue, EventsOrdered
<1> QED BY <1>7, <1>8, <1>9, <1>10, <1>11 DEF Queue

(* Where the messages of two sequences are. *)
LEMMA AfterPlaces ==
  ASSUME NEW D, NEW E, NEW F, After(D, E, F)
  PROVE  /\ \A k \in DOMAIN D : k \in DOMAIN F /\ F[k] = D[k] /\ k \in Int /\ k <= Len(D)
         /\ \A k \in DOMAIN E : Len(D) + k \in DOMAIN F /\ F[Len(D) + k] = E[k]
         /\ \A k \in DOMAIN F : \/ k \in DOMAIN D
                                \/ /\ k \in Int /\ k > Len(D) /\ k - Len(D) \in DOMAIN E
                                   /\ F[k] = E[k - Len(D)]
         /\ Len(D) \in Int
BY DEF After

(* Answers of the reads a handler asks for, and of actions. *)
LEMMA AnsweredQueue ==
  ASSUME NEW D, NEW E, NEW F, After(D, E, F), NEW p, NEW s, Queue(D, p, s),
         \A k \in DOMAIN E :
            /\ E[k].kind = "reply"
            /\ Reads(E[k]) => /\ Announced(D, p, s) /\ E[k].answer.at = s.at
                              /\ E[k].call.slot = "report" \/ E[k].call.conn = p.conn
  PROVE  Queue(F, p, s) /\ (Announced(D, p, s) => Announced(F, p, s))
<1>1. /\ \A k \in DOMAIN D : k \in DOMAIN F /\ F[k] = D[k] /\ k \in Int /\ k <= Len(D)
      /\ \A k \in DOMAIN F : \/ k \in DOMAIN D
                             \/ /\ k \in Int /\ k > Len(D) /\ k - Len(D) \in DOMAIN E
                                /\ F[k] = E[k - Len(D)]
      /\ Len(D) \in Int BY AfterPlaces
<1>2. \A k \in DOMAIN F : k \notin DOMAIN D =>
         /\ k \in Int /\ k > Len(D) /\ ~Tells(F[k], p) /\ ~Ends(F[k], p) /\ F[k].kind # "event"
         /\ Reads(F[k]) => /\ Announced(D, p, s) /\ F[k].answer.at = s.at
                           /\ F[k].call.slot = "report" \/ F[k].call.conn = p.conn BY <1>1 DEF Tells, Ends
<1>3. s.at \in Nat /\ p.conn \in Nat BY DEF Queue, Clock
<1>4. Messages(F, p) BY <1>1, <1>2, <1>3 DEF Messages, Queue
<1>5. EventsOrdered(F, p, s) BY <1>1, <1>2 DEF Queue, EventsOrdered
<1>6. AnswersOrdered(F, p)
 <2> SUFFICES ASSUME NEW k \in DOMAIN F, Dated(F[k], p)
              PROVE  /\ \A j \in DOMAIN F : (j < k /\ Tells(F[j], p)) => F[j].data.at <= F[k].answer.at
                     /\ \/ Current(p) /\ p.data.at = F[k].answer.at
                        \/ \E j \in DOMAIN F : j < k /\ Tells(F[j], p) /\ F[j].data.at = F[k].answer.at
  BY DEF AnswersOrdered
 <2>1. CASE k \in DOMAIN D
  <3>1. \A j \in DOMAIN F : j < k => (j \in DOMAIN D \/ ~Tells(F[j], p)) BY <1>2
  <3>2. F[k] = D[k] /\ Dated(D[k], p) BY <1>1, <2>1
  <3>3. \A j \in DOMAIN F : (j < k /\ Tells(F[j], p)) => F[j].data.at <= F[k].answer.at
   BY <1>1, <2>1, <3>1, <3>2 DEF Queue, AnswersOrdered
  <3>4. \/ Current(p) /\ p.data.at = D[k].answer.at
        \/ \E j \in DOMAIN D : j < k /\ Tells(D[j], p) /\ D[j].data.at = D[k].answer.at
   BY <2>1, <3>2 DEF Queue, AnswersOrdered
  <3> QED BY <1>1, <3>2, <3>3, <3>4
 <2>2. CASE k \notin DOMAIN D
  <3>1. Announced(D, p, s) /\ F[k].answer.at = s.at /\ k \in Int /\ k > Len(D) BY <1>2, <2>2 DEF Dated
  <3>2. \A j \in DOMAIN F : (j < k /\ Tells(F[j], p)) => F[j].data.at <= F[k].answer.at
   BY <1>1, <1>2, <3>1 DEF Queue, EventsOrdered
  <3>3. \A j \in DOMAIN D : j < k BY <1>1, <3>1
  <3> QED BY <1>1, <3>1, <3>2, <3>3 DEF Announced
 <2> QED BY <2>1, <2>2
<1>7. Announced(D, p, s) => Announced(F, p, s) BY <1>1 DEF Announced
<1> QED BY <1>4, <1>5, <1>6, <1>7 DEF Queue

(* Evidence later than any on its way, perhaps after an end. *)
LEMMA ToldAfter ==
  ASSUME NEW D, NEW E, NEW F, After(D, E, F), NEW p, NEW s, Queue(D, p, s),
         NEW t, t.at \in Nat, s.at <= t.at, Current(p) => p.data.at < t.at,
         \A j \in DOMAIN D : Tells(D[j], p) => D[j].data.at < t.at,
         Len(E) \in {1, 2}, Tells(E[Len(E)], p), E[Len(E)].data.at = t.at,
         Len(E) = 2 => Ends(E[1], p) /\ E[1].data.at \in Nat
  PROVE  /\ Queue(F, p, t) /\ Announced(F, p, t)
         /\ \A k \in DOMAIN F : Tells(F[k], p) =>
              F[k].data.at = t.at \/ \E j \in DOMAIN D : F[k] = D[j]
         /\ \A k \in DOMAIN F : Reads(F[k]) => \E j \in DOMAIN D : F[k] = D[j]
<1>1. /\ \A k \in DOMAIN D : k \in DOMAIN F /\ F[k] = D[k] /\ k \in Int /\ k <= Len(D)
      /\ \A k \in DOMAIN E : Len(D) + k \in DOMAIN F /\ F[Len(D) + k] = E[k]
      /\ \A k \in DOMAIN F : \/ k \in DOMAIN D
                             \/ /\ k \in Int /\ k > Len(D) /\ k - Len(D) \in DOMAIN E
                                /\ F[k] = E[k - Len(D)]
      /\ Len(D) \in Int BY AfterPlaces
<1>2. DOMAIN E = 1..Len(E) /\ Len(E) \in Nat BY DEF After
<1> DEFINE last == Len(D) + Len(E)
<1>3. last \in DOMAIN F /\ F[last] = E[Len(E)] /\ last \in Int /\ Tells(F[last], p) /\ F[last].data.at = t.at
      /\ last > Len(D) BY <1>1, <1>2
<1>4. \A k \in DOMAIN F : k \notin DOMAIN D =>
         \/ k = last
         \/ k \in Int /\ k > Len(D) /\ Len(E) = 2 /\ k + 1 = last /\ F[k] = E[1]
 <2> SUFFICES ASSUME NEW k \in DOMAIN F, k \notin DOMAIN D, k # last
              PROVE  k \in Int /\ k > Len(D) /\ Len(E) = 2 /\ k + 1 = last /\ F[k] = E[1] OBVIOUS
 <2>1. k \in Int /\ k > Len(D) /\ k - Len(D) \in 1..Len(E) /\ F[k] = E[k - Len(D)] BY <1>1, <1>2
 <2>2. k - Len(D) = 1 /\ Len(E) = 2 BY <1>1, <1>2, <2>1
 <2> QED BY <1>1, <2>1, <2>2
<1> HIDE DEF last
<1>5. \A k \in DOMAIN F : (k \notin DOMAIN D /\ k # last) =>
         /\ Ends(F[k], p) /\ F[k].data.at \in Nat /\ k + 1 = last /\ k \in Int /\ k > Len(D)
         /\ ~Tells(F[k], p) /\ ~Reads(F[k]) BY <1>4 DEF Ends, Tells, Reads
<1>6. s.at \in Nat /\ p.conn \in Nat BY DEF Queue, Clock
<1>7. F[last].kind = "event" /\ F[last].conn = p.conn /\ ~Reads(F[last]) /\ ~Ends(F[last], p)
 BY <1>3 DEF Tells, Reads, Ends
<1>8. Messages(F, p)
 <2> SUFFICES ASSUME NEW k \in DOMAIN F
              PROVE  /\ F[k].kind = "event" => F[k].conn \in Nat /\ F[k].conn <= p.conn /\ F[k].data.at \in Nat
                     /\ Reads(F[k]) => /\ F[k].answer.at \in Nat
                                       /\ F[k].call.slot # "report" =>
                                            F[k].call.conn \in Nat /\ F[k].call.conn <= p.conn BY DEF Messages
 <2>1. CASE k \in DOMAIN D BY <1>1, <2>1 DEF Queue, Messages
 <2>2. CASE k = last BY <1>3, <1>6, <1>7, <2>2
 <2>3. CASE k \notin DOMAIN D /\ k # last BY <1>5, <1>6, <2>3 DEF Ends
 <2> QED BY <2>1, <2>2, <2>3
<1>9. EventsOrdered(F, p, t)
 <2>1. ASSUME NEW k \in DOMAIN F, Tells(F[k], p)
       PROVE  /\ F[k].data.at <= t.at /\ (Current(p) => p.data.at < F[k].data.at)
              /\ \A j \in DOMAIN F : (j < k /\ Tells(F[j], p)) => F[j].data.at < F[k].data.at
  <3>1. CASE k \in DOMAIN D
   <4>1. F[k] = D[k] /\ Tells(D[k], p) /\ D[k].data.at \in Nat BY <1>1, <2>1, <3>1 DEF Queue, Messages, Tells
   <4>2. \A j \in DOMAIN F : (j < k /\ Tells(F[j], p)) => j \in DOMAIN D BY <1>1, <1>3, <1>5, <3>1
   <4>3. D[k].data.at < t.at BY <3>1, <4>1
   <4>3a. F[k].data.at <= t.at BY <4>1, <4>3
   <4> QED BY <1>1, <3>1, <4>1, <4>2, <4>3a DEF Queue, EventsOrdered
  <3>2. CASE k = last
   <4>1. ASSUME NEW j \in DOMAIN F, j < k, Tells(F[j], p) PROVE F[j].data.at < t.at
    BY SMTT(30), <1>3, <1>5, <3>2, <4>1, <1>1
   <4> QED BY <1>3, <3>2, <4>1
  <3> QED BY <1>5, <2>1, <3>1, <3>2
 <2>2. ASSUME NEW k \in DOMAIN F, Ends(F[k], p)
       PROVE  k + 1 \in DOMAIN F /\ Tells(F[k + 1], p)
        BY Zenon, <1>1, <2>2, <1>3, <1>5, <1>7 DEF Queue, EventsOrdered
 <2> QED BY <2>1, <2>2 DEF EventsOrdered
<1>10. AnswersOrdered(F, p)
 <2> SUFFICES ASSUME NEW k \in DOMAIN F, Dated(F[k], p)
              PROVE  /\ \A j \in DOMAIN F : (j < k /\ Tells(F[j], p)) => F[j].data.at <= F[k].answer.at
                     /\ \/ Current(p) /\ p.data.at = F[k].answer.at
                        \/ \E j \in DOMAIN F : j < k /\ Tells(F[j], p) /\ F[j].data.at = F[k].answer.at
  BY DEF AnswersOrdered
 <2>1. k \in DOMAIN D BY <1>5, <1>7 DEF Dated
 <2>2. F[k] = D[k] /\ Dated(D[k], p) BY <1>1, <2>1
 <2>3. \A j \in DOMAIN F : (j < k /\ Tells(F[j], p)) => j \in DOMAIN D BY <1>1, <1>3, <1>5, <2>1
 <2>4. \A j \in DOMAIN F : (j < k /\ Tells(F[j], p)) => F[j].data.at <= F[k].answer.at
  BY <1>1, <2>1, <2>2, <2>3 DEF Queue, AnswersOrdered
 <2>5. \/ Current(p) /\ p.data.at = D[k].answer.at
       \/ \E j \in DOMAIN D : j < k /\ Tells(D[j], p) /\ D[j].data.at = D[k].answer.at
  BY <2>1, <2>2 DEF Queue, AnswersOrdered
 <2> QED BY <1>1, <2>2, <2>4, <2>5
<1>11. Clock(p, t) BY <1>6 DEF Queue, Clock
<1>12. Announced(F, p, t) BY <1>3 DEF Announced
<1>13. \A k \in DOMAIN F : Tells(F[k], p) => F[k].data.at = t.at \/ \E j \in DOMAIN D : F[k] = D[j]
 BY Zenon, <1>1, <1>3, <1>5
<1>14. \A k \in DOMAIN F : Reads(F[k]) => \E j \in DOMAIN D : F[k] = D[j] BY <1>1, <1>5, <1>7
<1> QED BY <1>8, <1>9, <1>10, <1>11, <1>12, <1>13, <1>14 DEF Queue

(* No message is of a connection of which the panel has heard nothing. *)
LEMMA UnheardQueue ==
  ASSUME NEW D, NEW p, NEW s, Queue(D, p, s), NEW q, q.conn = p.conn + 1, ~Current(q)
  PROVE  Queue(D, q, s) /\ \A j \in DOMAIN D : ~Tells(D[j], q)
<1>1. s.at \in Nat /\ p.conn \in Nat BY DEF Queue, Clock
<1>2. \A j \in DOMAIN D : ~Tells(D[j], q) /\ ~Ends(D[j], q) /\ ~Dated(D[j], q)
 BY <1>1 DEF Queue, Messages, Tells, Ends, Dated
<1>3. Messages(D, q) BY <1>1 DEF Queue, Messages
<1>4. Clock(q, s) /\ EventsOrdered(D, q, s) /\ AnswersOrdered(D, q)
 BY <1>1, <1>2 DEF Clock, EventsOrdered, AnswersOrdered
<1> QED BY <1>2, <1>3, <1>4 DEF Queue

(* Nothing on its way. *)
LEMMA EmptyQueue ==
  ASSUME NEW p, NEW s, Clock(p, s)
  PROVE  Queue(<<>>, p, s) /\ Calls(<<>>) = {}
BY NoneFacts DEF Queue, Messages, EventsOrdered, AnswersOrdered, Calls

(* No request has a number the panel has not given. *)
LEMMA BaseBounded ==
  ASSUME NEW p, NEW W, Base(p, W)
  PROVE  Bounded(p, W)
<1>1. \A call \in W : call \in Under(p, W) BY DEF Under
<1> QED BY <1>1 DEF Base, Bounded, SourceHolds, DetailHolds

(* The requests under way. *)
LEMMA CallsOf ==
  ASSUME NEW D
  PROVE  \A c : c \in Calls(D) <=> \E i \in DOMAIN D : Reads(D[i]) /\ D[i].call = c
BY DEF Calls, Range

(* The requests under way without that of a message taken, *)
LEMMA CallsRemoved ==
  ASSUME NEW D, NEW i, NEW R, Removed(D, i, R)
  PROVE  /\ Calls(R) \subseteq Calls(D)
         /\ Reads(D[i]) => Calls(D) = Calls(R) \cup {D[i].call}
         /\ ~Reads(D[i]) => Calls(D) = Calls(R)
<1>1. /\ i \in DOMAIN D
      /\ \A k \in DOMAIN R : Skip(i, k) \in DOMAIN D /\ Skip(i, k) # i /\ R[k] = D[Skip(i, k)]
      /\ \A j \in DOMAIN D : j # i => \E k \in DOMAIN R : Skip(i, k) = j BY RemovedPlaces
<1>2. Calls(R) \subseteq Calls(D)
 <2>1. ASSUME NEW c \in Calls(R) PROVE c \in Calls(D)
  <3>1. PICK k \in DOMAIN R : Reads(R[k]) /\ R[k].call = c BY CallsOf
  <3>2. Skip(i, k) \in DOMAIN D /\ Reads(D[Skip(i, k)]) /\ D[Skip(i, k)].call = c BY <1>1, <3>1
  <3> QED BY <3>2, CallsOf
 <2> QED BY <2>1
<1>3. ASSUME NEW c \in Calls(D)
      PROVE  c \in Calls(R) \/ (Reads(D[i]) /\ c = D[i].call)
 <2>1. PICK j \in DOMAIN D : Reads(D[j]) /\ D[j].call = c BY CallsOf
 <2>2. CASE j # i
  <3>1. PICK k \in DOMAIN R : Skip(i, k) = j BY <1>1, <2>2
  <3>2. Reads(R[k]) /\ R[k].call = c BY <1>1, <2>1, <3>1
  <3> QED BY <3>2, CallsOf
 <2> QED BY <2>1, <2>2
<1>4. Reads(D[i]) => D[i].call \in Calls(D) BY <1>1, CallsOf
<1> QED BY <1>2, <1>3, <1>4

(* and with those of the messages that follow. *)
LEMMA CallsAfter ==
  ASSUME NEW D, NEW E, NEW F, After(D, E, F)
  PROVE  Calls(F) = Calls(D) \cup Calls(E)
<1>1. /\ \A k \in DOMAIN D : k \in DOMAIN F /\ F[k] = D[k]
      /\ \A k \in DOMAIN E : Len(D) + k \in DOMAIN F /\ F[Len(D) + k] = E[k]
      /\ \A k \in DOMAIN F : \/ k \in DOMAIN D
                             \/ k - Len(D) \in DOMAIN E /\ F[k] = E[k - Len(D)] BY AfterPlaces
<1>2. ASSUME NEW c \in Calls(D) PROVE c \in Calls(F)
 <2>1. PICK k \in DOMAIN D : Reads(D[k]) /\ D[k].call = c BY CallsOf
 <2>2. k \in DOMAIN F /\ Reads(F[k]) /\ F[k].call = c BY <1>1, <2>1
 <2> QED BY <2>2, CallsOf
<1>3. ASSUME NEW c \in Calls(E) PROVE c \in Calls(F)
 <2>1. PICK k \in DOMAIN E : Reads(E[k]) /\ E[k].call = c BY CallsOf
 <2>2. Len(D) + k \in DOMAIN F /\ Reads(F[Len(D) + k]) /\ F[Len(D) + k].call = c BY <1>1, <2>1
 <2> QED BY <2>2, CallsOf
<1>4. ASSUME NEW c \in Calls(F) PROVE c \in Calls(D) \cup Calls(E)
 <2>1. PICK k \in DOMAIN F : Reads(F[k]) /\ F[k].call = c BY CallsOf
 <2>2. CASE k \in DOMAIN D BY <1>1, <2>1, <2>2, CallsOf
 <2>3. CASE k - Len(D) \in DOMAIN E /\ F[k] = E[k - Len(D)] BY <2>1, <2>3, CallsOf
 <2> QED BY <1>1, <2>2, <2>3
<1> QED BY <1>2, <1>3, <1>4

(* What is counted stays alone while the numbers grow, *)
LEMMA AloneMoves ==
  ASSUME NEW D, NEW p, Alone(D, p), Bounded(p, Calls(D)), NEW q,
         p.sourceSequence \in Nat, q.sourceSequence \in Nat, p.sourceSequence <= q.sourceSequence,
         p.detailSequence \in Nat, q.detailSequence \in Nat, p.detailSequence <= q.detailSequence
  PROVE  Alone(D, q) /\ \A i \in DOMAIN D : Counted(D[i], q) => Counted(D[i], p)
<1>1. ASSUME NEW i \in DOMAIN D, Reads(D[i])
      PROVE  /\ OfSource(D[i].call) => D[i].call.id \in Nat /\ D[i].call.id <= p.sourceSequence
             /\ D[i].call.slot = "detail" => D[i].call.id \in Nat /\ D[i].call.id <= p.detailSequence
 BY <1>1, CallsOf DEF Bounded
<1>2. \A i \in DOMAIN D : Counted(D[i], q) => Counted(D[i], p) BY <1>1 DEF Counted, Numbered
<1>3. \A i \in DOMAIN D : Answered(D[i], q) => Answered(D[i], p) BY <1>1 DEF Answered, Heard
<1> QED BY <1>2, <1>3 DEF Alone

(* when a message is taken, and is then the last of its number, *)
LEMMA AloneRemoved ==
  ASSUME NEW D, NEW i, NEW R, Removed(D, i, R), NEW p, Alone(D, p)
  PROVE  /\ Alone(R, p)
         /\ Reads(D[i]) => \A c \in Calls(R) : /\ Numbered(p, D[i].call) => ~Numbered(p, c)
                                               /\ Heard(p, D[i].call) => ~Heard(p, c)
<1>1. /\ i \in DOMAIN D
      /\ \A k \in DOMAIN R : /\ Skip(i, k) \in DOMAIN D /\ Skip(i, k) # i /\ R[k] = D[Skip(i, k)]
      /\ \A k, l \in DOMAIN R : Skip(i, k) = Skip(i, l) => k = l BY RemovedPlaces DEF Removed, Skip
<1>2. Alone(R, p) BY <1>1 DEF Alone
<1>3. ASSUME Reads(D[i]), NEW c \in Calls(R)
      PROVE  /\ Numbered(p, D[i].call) => ~Numbered(p, c)
             /\ Heard(p, D[i].call) => ~Heard(p, c)
 <2>1. PICK k \in DOMAIN R : Reads(R[k]) /\ R[k].call = c BY CallsOf
 <2>2. Skip(i, k) \in DOMAIN D /\ Skip(i, k) # i /\ Reads(D[Skip(i, k)]) /\ D[Skip(i, k)].call = c BY <1>1, <2>1
 <2> QED BY <1>1, <1>3, <2>2 DEF Alone, Counted, Answered
<1> QED BY <1>2, <1>3

(* and with the requests of a handler. *)
LEMMA AloneAfter ==
  ASSUME NEW D, NEW E, NEW F, After(D, E, F), NEW q, Alone(D, q),
         \A k \in DOMAIN E :
            /\ Counted(E[k], q) => /\ \A call \in Calls(D) : ~Numbered(q, call)
                                   /\ \A j \in DOMAIN E : Counted(E[j], q) => k = j
            /\ Answered(E[k], q) => /\ \A call \in Calls(D) : ~Heard(q, call)
                                    /\ \A j \in DOMAIN E : Answered(E[j], q) => k = j
  PROVE  Alone(F, q)
<1>1. /\ \A k \in DOMAIN F : \/ k \in DOMAIN D /\ F[k] = D[k]
                             \/ /\ k \in Int /\ k - Len(D) \in DOMAIN E
                                /\ F[k] = E[k - Len(D)]
      /\ Len(D) \in Int BY AfterPlaces
<1>2. \A k \in DOMAIN D : /\ Counted(D[k], q) => D[k].call \in Calls(D)
                          /\ Answered(D[k], q) => D[k].call \in Calls(D) BY CallsOf DEF Counted, Answered
<1>3. ASSUME NEW i \in DOMAIN F, NEW j \in DOMAIN F, Counted(F[i], q), Counted(F[j], q)
      PROVE  i = j BY <1>3, <1>1, <1>2 DEF Alone, Counted
<1>4. ASSUME NEW i \in DOMAIN F, NEW j \in DOMAIN F, Answered(F[i], q), Answered(F[j], q)
      PROVE  i = j BY <1>4, <1>1, <1>2 DEF Alone, Answered
<1> QED BY <1>3, <1>4 DEF Alone

(* A handler that costs no more than what happened allows. *)
LEMMA AffordsMoves ==
  ASSUME NEW D, NEW p, NEW V, Base(p, V), NEW n \in Nat, Affords(D, p, n), NEW s, Queue(D, p, s),
         NEW q, NEW F, NEW W, Base(q, W), Familiar(F, q, D, p),
         q.status = p.status, q.data = p.data, NEW c \in Nat, NEW m \in Nat,
         Weight(q) <= Weight(p) + c, c <= 2 * (m - n)
  PROVE  Affords(F, q, m)
<1>1. Weight(p) \in Nat /\ Weight(q) \in Nat /\ (Current(q) <=> Current(p))
 BY BaseNumbers, BaseOf DEF Base, Current
<1>2. CASE Current(p) BY <1>2, <1>1 DEF Base, Timely, Affords, Familiar
<1>3. CASE ~Current(p)
 <2>1. Weight(p) = p.sourceSequence /\ Weight(q) = q.sourceSequence BY <1>1, <1>3, NotCurrentFacts
 <2>2. ASSUME NEW k \in DOMAIN F, Tells(F[k], q)
       PROVE  q.sourceSequence + 2 <= 2 * (F[k].data.at + m)
  <3>1. PICK j \in DOMAIN D : F[k] = D[j] /\ Tells(D[j], p) BY <2>2 DEF Familiar
  <3>2. D[j].data.at \in Nat /\ p.sourceSequence + 2 <= 2 * (D[j].data.at + n)
   BY <1>3, <3>1 DEF Affords, Queue, Messages, Tells
  <3>3. q.sourceSequence + 2 <= 2 * (D[j].data.at + m) BY <1>1, <2>1, <3>2
  <3> QED BY <3>1, <3>3
 <2> QED BY <1>1, <1>3, <2>2 DEF Affords
<1> QED BY <1>2, <1>3

(* The answers to what a handler asks for follow. *)
LEMMA SentAfter ==
  ASSUME NEW R, Sequence(R), NEW q, Sequence(q.asks), NEW s
  PROVE  After(R, Answers(q, s), Sent(R, q, s, TRUE))
<1> DEFINE E == Answers(q, s)
           S == Range(R) \cup Range(E)
<1>1. Sequence(E) BY EachFacts DEF Answers
<1>2. Sent(R, q, s, TRUE) = R \o E BY DEF Sent
<1> HIDE DEF E
<1>3. R \in Seq(S) /\ E \in Seq(S)
 <2>1. Range(R) \subseteq S /\ Range(E) \subseteq S OBVIOUS
 <2> HIDE DEF S
 <2> QED BY <1>1, <2>1 DEF Sequence
<1> HIDE DEF S
<1>4. After(R, E, R \o E) BY <1>3, ConcatAfter
<1> QED BY Zenon, <1>2, <1>4 DEF E

(* The answers of reads alone. *)
LEMMA AnswersFacts ==
  ASSUME NEW q, NEW s, \A i \in DOMAIN q.asks : q.asks[i].slot \in ReadSlots
  PROVE  /\ DOMAIN Answers(q, s) = DOMAIN q.asks /\ Calls(Answers(q, s)) = Range(q.asks)
         /\ \A i \in DOMAIN q.asks :
              /\ Answers(q, s)[i].kind = "reply" /\ Answers(q, s)[i].call = q.asks[i]
              /\ Answers(q, s)[i].answer.at = s.at /\ Answers(q, s)[i].answer.ok = TRUE
              /\ Reads(Answers(q, s)[i])
<1> DEFINE E == Answers(q, s)
<1>1. DOMAIN E = DOMAIN q.asks /\ \A i \in DOMAIN q.asks : E[i] = Answer(s, q.asks[i], TRUE) BY Zenon DEF Answers
<1>2. \A c : /\ Answer(s, c, TRUE).kind = "reply" /\ Answer(s, c, TRUE).call = c
             /\ Answer(s, c, TRUE).answer.at = s.at /\ Answer(s, c, TRUE).answer.ok = TRUE BY DEF Answer
<1> HIDE DEF E
<1>3. ASSUME NEW i \in DOMAIN q.asks
      PROVE  /\ E[i].kind = "reply" /\ E[i].call = q.asks[i] /\ E[i].answer.at = s.at
             /\ E[i].answer.ok = TRUE /\ Reads(E[i])
 <2>1. E[i] = Answer(s, q.asks[i], TRUE) BY Zenon, <1>1
 <2>2. E[i].kind = "reply" /\ E[i].call = q.asks[i] /\ E[i].answer.at = s.at /\ E[i].answer.ok = TRUE
  BY Zenon, <1>2, <2>1
 <2> QED BY <2>2 DEF Reads
<1>4. ASSUME NEW c \in Calls(E) PROVE c \in Range(q.asks)
 <2>1. PICK i \in DOMAIN E : Reads(E[i]) /\ E[i].call = c BY CallsOf
 <2> QED BY Zenon, <1>1, <1>3, <2>1 DEF Range
<1>5. ASSUME NEW c \in Range(q.asks) PROVE c \in Calls(E)
 <2>1. PICK i \in DOMAIN q.asks : q.asks[i] = c BY DEF Range
 <2>2. i \in DOMAIN E /\ Reads(E[i]) /\ E[i].call = c BY Zenon, <1>1, <1>3, <2>1
 <2> QED BY <2>2, CallsOf
<1>6. Calls(E) = Range(q.asks) BY <1>4, <1>5
<1> QED BY Zenon, <1>1, <1>3, <1>6 DEF E

(* What a panel makes of the queue depends on its connection and evidence. *)
LEMMA QueueSame ==
  ASSUME NEW D, NEW p, NEW s, Queue(D, p, s), NEW q, q.conn = p.conn, q.status = p.status, q.data = p.data
  PROVE  Queue(D, q, s) /\ (Announced(D, p, s) => Announced(D, q, s))
<1>1. \A m : /\ Tells(m, q) <=> Tells(m, p)
             /\ Ends(m, q) <=> Ends(m, p)
             /\ Dated(m, q) <=> Dated(m, p) BY SameMessages
<1>2. Messages(D, q) /\ Clock(q, s) BY DEF Queue, Messages, Clock, Current
<1>3. EventsOrdered(D, q, s) BY <1>1 DEF Queue, EventsOrdered, Current
<1>4. AnswersOrdered(D, q) BY <1>1 DEF Queue, AnswersOrdered, Current
<1>5. Announced(D, p, s) => Announced(D, q, s) BY <1>1 DEF Announced, Current
<1> QED BY <1>2, <1>3, <1>4, <1>5 DEF Queue

(* The requests of a handler go out. *)
LEMMA AskedReads ==
  ASSUME NEW p, p.asks = <<>>, NEW q, Fits(q), NEW W, NEW c, Handles(p, q, W, c)
  PROVE  /\ Sequence(q.asks)
         /\ \A i \in DOMAIN q.asks : /\ q.asks[i].slot \in ReadSlots
                                     /\ q.asks[i].slot = "report" \/ q.asks[i].conn = p.conn
BY Places DEF Handles, Moves, Adds

(* A handler at a queue from which its message is gone. *)
LEMMA RunsHeld ==
  ASSUME NEW p, p.asks = <<>>, NEW R, Sequence(R), NEW s, Queue(R, p, s), Announced(R, p, s),
         Alone(R, p), Bounded(p, Calls(R)), NEW q, NEW c \in Nat, Handles(p, q, Calls(R), c)
  PROVE  /\ Held(Sent(R, q, s, TRUE), Rested(q), s, TRUE)
         /\ Familiar(Sent(R, q, s, TRUE), Rested(q), R, p)
         /\ Weight(Rested(q)) <= Weight(p) + c
         /\ Rested(q).status = p.status /\ Rested(q).data = p.data /\ Rested(q).conn = p.conn
         /\ Rested(q).asks = <<>>
<1> DEFINE E == Answers(q, s)
           F == Sent(R, q, s, TRUE)
           r == Rested(q)
           W == Calls(R)
<1>1. /\ Fits(q) /\ q.status = p.status /\ q.data = p.data /\ q.conn = p.conn
      /\ p.sourceSequence \in Nat /\ q.sourceSequence \in Nat /\ p.sourceSequence <= q.sourceSequence
      /\ p.detailSequence \in Nat /\ q.detailSequence \in Nat /\ p.detailSequence <= q.detailSequence
      /\ Weight(q) <= Weight(p) + c
      /\ Base(q, W) /\ Due(q) BY DEF Handles, Moves
<1>2. /\ r.asks = <<>> /\ r.status = q.status /\ r.data = q.data /\ r.conn = q.conn
      /\ r.sourceSequence = q.sourceSequence /\ r.detailSequence = q.detailSequence
      /\ SourceKept(q, r) BY <1>1, RestedFields DEF SourceKept, DetailKept
<1>3. Sequence(q.asks)
      /\ \A i \in DOMAIN q.asks : /\ q.asks[i].slot \in ReadSlots
                                  /\ q.asks[i].slot = "report" \/ q.asks[i].conn = p.conn BY <1>1, AskedReads
<1>4. After(R, E, F) BY Zenon, <1>3, SentAfter
<1>5. /\ DOMAIN E = DOMAIN q.asks /\ Calls(E) = Range(q.asks)
      /\ \A i \in DOMAIN q.asks :
           /\ E[i].kind = "reply" /\ E[i].call = q.asks[i]
           /\ E[i].answer.at = s.at /\ E[i].answer.ok = TRUE
           /\ Reads(E[i]) BY Zenon, <1>3, AnswersFacts
<1> HIDE DEF E, F
<1>6. Calls(F) = W \cup Range(q.asks) BY <1>4, <1>5, CallsAfter
<1>7. Base(r, Calls(F)) /\ Due(r) BY Zenon, <1>1, <1>6, SentHolds
<1> HIDE DEF r
<1>8. Queue(F, r, s) /\ Announced(F, r, s)
 <2>1. Queue(R, r, s) /\ Announced(R, r, s) BY <1>1, <1>2, QueueSame
 <2>2. \A k \in DOMAIN E :
           /\ E[k].kind = "reply"
           /\ Reads(E[k]) => /\ Announced(R, r, s) /\ E[k].answer.at = s.at
                             /\ E[k].call.slot = "report" \/ E[k].call.conn = r.conn
  BY <1>1, <1>2, <1>3, <1>5, <2>1
 <2> QED BY <1>4, <2>1, <2>2, AnsweredQueue
<1>9. Alone(R, r) /\ \A i \in DOMAIN R : Counted(R[i], r) => Counted(R[i], p) BY <1>1, <1>2, AloneMoves
<1>10. \A call : (Numbered(r, call) <=> Numbered(q, call)) /\ (Heard(r, call) <=> Heard(q, call))
 BY <1>2 DEF Numbered, Heard
<1>11. Alone(F, r)
 BY <1>1, <1>5, <1>10, <1>4, <1>9, AloneAfter DEF Counted, Base, SourceHolds, Answered, DetailHolds
<1>12. Familiar(F, r, R, p)
 <2>1. ASSUME NEW k \in DOMAIN F
       PROVE  \/ k \in DOMAIN R /\ F[k] = R[k]
              \/ ~Tells(F[k], r) /\ F[k].answer.ok = TRUE
  <3>1. CASE k \in DOMAIN R /\ F[k] = R[k] BY <3>1
  <3>2. CASE k - Len(R) \in DOMAIN E /\ F[k] = E[k - Len(R)] BY <1>5, <3>2 DEF Tells
  <3>3. \/ k \in DOMAIN R
        \/ k - Len(R) \in DOMAIN E /\ F[k] = E[k - Len(R)] BY <1>4, AfterPlaces
  <3>4. k \in DOMAIN R => F[k] = R[k] BY <1>4, AfterPlaces
  <3> QED BY Zenon, <3>1, <3>2, <3>3, <3>4
 <2>2. \A m : Tells(m, r) => Tells(m, p) BY <1>1, <1>2, SameMessages
 <2>3. ASSUME NEW k \in DOMAIN F, Tells(F[k], r)
       PROVE  \E j \in DOMAIN R : F[k] = R[j] /\ Tells(R[j], p) BY Zenon, <2>1, <2>2, <2>3
 <2>4. ASSUME NEW k \in DOMAIN F, Counted(F[k], r), ~F[k].answer.ok
       PROVE  \E j \in DOMAIN R : F[k] = R[j] /\ Counted(R[j], p) /\ ~R[j].answer.ok BY Zenon, <1>9, <2>1, <2>4
 <2> QED BY <2>3, <2>4 DEF Familiar
<1>13. Weight(r) = Weight(q) BY <1>2 DEF Weight, SourceKept
<1>14. Held(F, r, s, TRUE) BY <1>7, <1>8, <1>11 DEF Held
<1> QED BY Zenon, <1>1, <1>2, <1>12, <1>13, <1>14 DEF r, F

(* A handler while there is no connection: its requests are lost. *)
LEMMA RunsLost ==
  ASSUME NEW p, p.asks = <<>>, NEW s, Queue(<<>>, p, s), ~Current(p), Unread(p), NEW W,
         NEW q, NEW c \in Nat, Handles(p, q, W, c)
  PROVE  /\ Held(<<>>, Rested(q), s, FALSE) /\ Weight(Rested(q)) <= Weight(p) + c
         /\ Rested(q).status = p.status /\ Rested(q).data = p.data /\ Rested(q).conn = p.conn
         /\ Rested(q).asks = <<>>
<1> DEFINE r == Rested(q)
<1>1. /\ Fits(q) /\ q.status = p.status /\ q.data = p.data /\ q.conn = p.conn
      /\ Weight(q) <= Weight(p) + c /\ Base(q, W) /\ Unread(q) BY DEF Handles, Moves, Unread
<1>2. /\ r.asks = <<>> /\ SourceKept(q, r) /\ DetailKept(q, r) /\ ReportKept(q, r)
      /\ r.source = q.source /\ r.readings = q.readings BY <1>1, RestedFields
<1> HIDE DEF r
<1>3. ~Current(q) /\ ~Current(r) /\ Unread(r) /\ r.reportSequence = q.reportSequence
      /\ r.status = p.status /\ r.data = p.data /\ r.conn = p.conn
 BY <1>1, <1>2 DEF Current, Unread, SourceKept, ReportKept
<1>4. {} \subseteq Under(q, W) OBVIOUS
<1>5. Base(r, {}) /\ Due(r) /\ Weight(r) = Weight(q) BY Zenon, <1>1, <1>2, <1>3, <1>4, LostHolds
<1>6. Queue(<<>>, r, s) /\ Calls(<<>>) = {} BY Zenon, <1>3, EmptyQueue DEF Queue, Clock
<1>7. Alone(<<>>, r) BY DEF Alone
<1>8. Held(<<>>, r, s, FALSE) BY Zenon, <1>3, <1>5, <1>6, <1>7 DEF Held
<1> QED BY Zenon, <1>1, <1>2, <1>3, <1>5, <1>8 DEF r

(* What the next publication pays for. *)
LEMMA Budget ==
  ASSUME NEW D, NEW p, NEW s, NEW n \in Nat, Tracked(D, p, s, n)
  PROVE  p.sourceSequence + 1 <= 2 * (s.at + n) /\ p.sourceSequence \in Nat /\ s.at \in Nat
<1>1. Base(p, Calls(D)) /\ Queue(D, p, s) /\ Announced(D, p, s) /\ Affords(D, p, n) BY DEF Tracked, Held
<1>2. PaneHolds(p) /\ s.at \in Nat BY <1>1, BaseOf DEF Queue, Clock
<1>3. Weight(p) \in Nat /\ p.sourceSequence \in Nat /\ p.sourceSequence <= Weight(p) BY <1>2, WeightType
<1>4. CASE Current(p) BY <1>1, <1>4, <1>2, <1>3 DEF Queue, Clock, Affords
<1>5. CASE ~Current(p)
 <2>1. PICK j \in DOMAIN D : Tells(D[j], p) /\ D[j].data.at = s.at BY <1>1, <1>5 DEF Announced
 <2>2. p.sourceSequence + 2 <= 2 * (D[j].data.at + n) BY <1>1, <1>5, <2>1 DEF Affords
 <2>3. p.sourceSequence + 2 <= 2 * (s.at + n) BY <2>1, <2>2
 <2> QED BY <1>2, <1>3, <2>3
<1> QED BY <1>4, <1>5

(* Another publication. *)
LEMMA EventTracked ==
  ASSUME NEW D, NEW E, NEW F, After(D, E, F), NEW p, p.asks = <<>>, NEW s, NEW n \in Nat, Tracked(D, p, s, n),
         NEW t, t.at = s.at + 1,
         Len(E) \in {1, 2}, Tells(E[Len(E)], p), E[Len(E)].data.at = t.at,
         Len(E) = 2 => Ends(E[1], p) /\ E[1].data.at \in Nat
  PROVE  Tracked(F, p, t, n)
<1>1. /\ Base(p, Calls(D)) /\ Due(p) /\ Queue(D, p, s) /\ Alone(D, p) /\ Announced(D, p, s)
      /\ Affords(D, p, n) BY DEF Tracked, Held
<1>2. p.sourceSequence + 1 <= 2 * (s.at + n) /\ p.sourceSequence \in Nat /\ s.at \in Nat BY Budget
<1>3. t.at \in Nat /\ s.at <= t.at /\ (Current(p) => p.data.at < t.at) BY <1>1, <1>2 DEF Queue, Clock
<1>4. \A j \in DOMAIN D : Tells(D[j], p) => D[j].data.at < t.at
 BY <1>1, <1>2 DEF Queue, EventsOrdered, Messages, Tells
<1>5. /\ Queue(F, p, t) /\ Announced(F, p, t)
      /\ \A k \in DOMAIN F : Tells(F[k], p) =>
           F[k].data.at = t.at \/ \E j \in DOMAIN D : F[k] = D[j]
      /\ \A k \in DOMAIN F : Reads(F[k]) => \E j \in DOMAIN D : F[k] = D[j] BY <1>1, <1>3, <1>4, ToldAfter
<1>6. \A k \in DOMAIN E : ~Reads(E[k])
 <2>1. DOMAIN E = 1..Len(E) BY DEF After
 <2>2. \A k \in DOMAIN E : k = Len(E) \/ (Len(E) = 2 /\ k = 1) BY <2>1
 <2> QED BY <2>2 DEF Tells, Ends, Reads
<1>7. Calls(F) = Calls(D)
 <2>1. Calls(E) = {} BY <1>6, CallsOf
 <2>2. Calls(F) = Calls(D) \cup Calls(E) BY CallsAfter
 <2> QED BY <2>1, <2>2
<1>8. Alone(F, p) BY <1>1, <1>6, AloneAfter DEF Counted, Answered
<1>9. Held(F, p, t, TRUE) BY <1>1, <1>5, <1>7, <1>8 DEF Held
<1>10. Affords(F, p, n)
 <2>1. ASSUME Current(p), \E k \in DOMAIN F : Counted(F[k], p) /\ ~F[k].answer.ok
       PROVE  \E j \in DOMAIN D : Counted(D[j], p) /\ ~D[j].answer.ok BY <1>5, <2>1 DEF Counted
 <2>2. ASSUME ~Current(p), NEW k \in DOMAIN F, Tells(F[k], p)
       PROVE  p.sourceSequence + 2 <= 2 * (F[k].data.at + n)
  <3>1. CASE F[k].data.at = t.at BY SMTT(30), <1>2, <3>1
  <3>2. CASE \E j \in DOMAIN D : F[k] = D[j] BY <1>1, <2>2, <3>2 DEF Affords
  <3> QED BY <1>5, <2>2, <3>1, <3>2
 <2> QED BY <1>1, <2>1, <2>2 DEF Affords
<1> QED BY Zenon, <1>9, <1>10 DEF Tracked

(* The answer of an action. *)
LEMMA AnswerTracked ==
  ASSUME NEW D, NEW E, NEW F, After(D, E, F), NEW p, p.asks = <<>>, NEW s, NEW n \in Nat, Tracked(D, p, s, n),
         \A k \in DOMAIN E : E[k].kind = "reply" /\ ~Reads(E[k])
  PROVE  Tracked(F, p, s, n)
<1>1. /\ Base(p, Calls(D)) /\ Due(p) /\ Queue(D, p, s) /\ Alone(D, p) /\ Announced(D, p, s)
      /\ Affords(D, p, n) BY DEF Tracked, Held
<1>2. Queue(F, p, s) /\ Announced(F, p, s) BY <1>1, AnsweredQueue
<1>3. Calls(F) = Calls(D)
 <2>1. Calls(E) = {} BY CallsOf
 <2> QED BY Zenon, <2>1, CallsAfter
<1>4. Alone(F, p) BY <1>1, AloneAfter DEF Counted, Answered
<1>5. Held(F, p, s, TRUE) BY <1>1, <1>2, <1>3, <1>4 DEF Held
<1>6. Affords(F, p, n)
 <2>1. ASSUME NEW k \in DOMAIN F
       PROVE  (k \in DOMAIN D /\ F[k] = D[k]) \/ (~Tells(F[k], p) /\ ~Reads(F[k]))
  <3>1. \/ k \in DOMAIN D
        \/ k - Len(D) \in DOMAIN E /\ F[k] = E[k - Len(D)] BY AfterPlaces
  <3>2. k \in DOMAIN D => F[k] = D[k] BY AfterPlaces
  <3>3. CASE k - Len(D) \in DOMAIN E /\ F[k] = E[k - Len(D)] BY <3>3 DEF Tells
  <3> QED BY <3>1, <3>2, <3>3
 <2> QED BY <1>1, <2>1 DEF Affords, Counted
<1> QED BY Zenon, <1>5, <1>6 DEF Tracked

(* A later count. *)
LEMMA TrackedMore ==
  ASSUME NEW D, NEW p, NEW s, NEW n \in Nat, NEW m \in Nat, n <= m, Tracked(D, p, s, n)
  PROVE  Tracked(D, p, s, m)
<1>1. Base(p, Calls(D)) /\ Queue(D, p, s) /\ Affords(D, p, n) BY DEF Tracked, Held
<1>2. Familiar(D, p, D, p) BY DEF Familiar
<1>3. Weight(p) \in Nat BY <1>1, BaseNumbers, BaseOf DEF Base
<1>4. Affords(D, p, m) BY <1>3, <1>1, <1>2, AffordsMoves
<1> QED BY Zenon, <1>4 DEF Tracked

(* What is used up is counted. *)
LEMMA UsedType == Spends => Used \in Nat
BY DEF Spends, Used

(* The queue as a handler finds it. *)
LEMMA DownFound ==
  ASSUME Inv, ReadInv
  PROVE  Found(down)
BY DEF Inv, Mails, ReadInv, Held, Found

(* A handler that costs no more than what it spends. *)
LEMMA HandlerReads ==
  ASSUME Inv, ReadInv, NEW R, Found(R), NEW q, NEW c \in Nat, Handles(panel, q, Calls(R), c),
         Runs(q, R), server' = server, up' = up, Spends', Used' \in Nat, Used \in Nat,
         c <= 2 * (Used' - Used)
  PROVE  ReadInv'
<1> DEFINE F == Sent(R, q, server, up)
           r == Rested(q)
<1>1. panel' = r /\ down' = F BY DEF Runs, Sent, Answers, Rested
<1>2. /\ panel.asks = <<>> /\ Sequence(R) /\ Base(panel, Calls(R)) /\ Due(panel)
      /\ Queue(R, panel, server) /\ Alone(R, panel) /\ Affords(R, panel, Used)
      /\ up \in BOOLEAN BY DEF Inv, Found, ReadInv
<1>3. Bounded(panel, Calls(R)) BY <1>2, BaseBounded
<1>4. CASE up
 <2>1. Announced(R, panel, server) /\ up = TRUE BY <1>2, <1>4 DEF Found
 <2>2. /\ Held(F, r, server, TRUE) /\ Familiar(F, r, R, panel)
       /\ Weight(r) <= Weight(panel) + c
       /\ r.status = panel.status /\ r.data = panel.data BY Zenon, <1>2, <1>3, <2>1, RunsHeld
 <2> HIDE DEF F, r
 <2>3. Base(r, Calls(F)) BY <2>2 DEF Held
 <2>4. Affords(F, r, Used') BY <1>2, <2>2, <2>3, AffordsMoves
 <2> QED BY Zenon, <1>1, <1>4, <2>1, <2>2, <2>4 DEF ReadInv
<1>5. CASE ~up
 <2>1. R = <<>> /\ ~Current(panel) /\ Unread(panel) /\ up = FALSE /\ F = <<>> BY <1>2, <1>5 DEF Found, Sent
 <2>2. Queue(<<>>, panel, server) BY <1>2, <2>1
 <2>3. /\ Held(<<>>, r, server, FALSE) /\ Weight(r) <= Weight(panel) + c
       /\ r.status = panel.status BY Zenon, <1>2, <2>1, <2>2, RunsLost
 <2> HIDE DEF F, r
 <2>4. ~Current(r) /\ Base(r, Calls(<<>>)) BY <2>1, <2>3 DEF Current, Held
 <2>5. Weight(r) = r.sourceSequence /\ Weight(panel) = panel.sourceSequence BY <1>2, <2>1, <2>4, NotCurrentFacts
 <2>6. r.sourceSequence \in Nat /\ panel.sourceSequence \in Nat /\ server.at \in Nat
  BY <1>2, <2>4, BaseNumbers, BaseOf DEF Base, Queue, Clock
 <2>7. panel.sourceSequence + 2 <= 2 * (server.at + Used) BY <1>5 DEF ReadInv
 <2>8. r.sourceSequence + 2 <= 2 * (server.at + Used')
  <3>1. r.sourceSequence <= panel.sourceSequence + c BY <2>3, <2>5
  <3>2. \A a, b, d, m, n \in Nat : (a <= b + c /\ b + 2 <= 2 * (d + n) /\ c <= 2 * (m - n))
          => a + 2 <= 2 * (d + m) OBVIOUS
  <3> QED BY Zenon, <2>6, <2>7, <3>1, <3>2
 <2>9. Affords(<<>>, r, Used') BY <2>4 DEF Affords
 <2> QED BY Zenon, <1>1, <1>2, <2>1, <2>3, <2>8, <2>9 DEF ReadInv
<1> QED BY <1>4, <1>5

(* A click, and what follows one. *)
LEMMA TurnReads ==
  ASSUME Spends, Turn
  PROVE  Spends' /\ Used' = Used + 1 /\ Used \in Nat /\ Used' \in Nat
BY DEF Spends, Used, Turn, Spend

(* A fault is counted for the reads, *)
LEMMA FaultyReads ==
  ASSUME Spends, Faulty
  PROVE  Spends' /\ Used' = Used + 1 /\ Used \in Nat /\ Used' \in Nat
BY DEF Spends, Used, Faulty, Spend

(* a publication and a press are not. *)
LEMMA PublishedReads ==
  ASSUME Spends, Published \/ Pressed \/ UNCHANGED spent
  PROVE  Spends' /\ Used' = Used /\ Used \in Nat /\ Used' \in Nat
BY DEF Spends, Used, Published, Pressed, Spend

(* A click is a handler of the panel, *)
LEMMA ClickReads ==
  ASSUME Inv, ReadInv, NEW q, NEW c \in {0, 1}, Handles(panel, q, Calls(down), c), Click(q)
  PROVE  ReadInv'
BY TurnReads, DownFound, HandlerReads DEF Click, ReadInv

(* or follows a link. *)
LEMMA FollowsReads ==
  ASSUME Inv, ReadInv, NEW q, Handles(panel, q, Calls(down), 0), Follows(q)
  PROVE  ReadInv'
BY PublishedReads, DownFound, HandlerReads DEF Follows, ReadInv

(* What the invariants say of the panel. *)
LEMMA PanelHeld ==
  ASSUME Inv, ReadInv
  PROVE  Fits(panel) /\ panel.asks = <<>> /\ Base(panel, Calls(down)) /\ Due(panel)
BY DEF Inv, ReadInv, Held

(* Clicks. *)
LEMMA OpenPageReads ==
  ASSUME Inv, ReadInv, NEW page, OpenPage(page)
  PROVE  ReadInv'
BY Zenon, PanelHeld, PageHandles, ClickReads DEF OpenPage

(* openLink. *)
LEMMA OpenLinkReads ==
  ASSUME Inv, ReadInv, NEW x, OpenLink(x)
  PROVE  ReadInv'
<1> DEFINE a == Arrives(panel, PageOf(x))
           q == LoadSource(IF Current(a) THEN OpenDetail(a, x.kind, x.id)
                           ELSE [a EXCEPT !.pending = x], FALSE)
<1>1. Handles(panel, q, Calls(down), 1) BY Zenon, PanelHeld, LinkHandles
<1>2. Click(q) BY Zenon DEF OpenLink
<1> HIDE DEF q
<1> QED BY <1>1, <1>2, ClickReads

(* openReport, which reads the report. *)
LEMMA OpenReportReads ==
  ASSUME Inv, ReadInv, NEW e, OpenReport(e)
  PROVE  ReadInv'
<1> DEFINE q == LoadReport([Arrives(panel, "problems") EXCEPT !.report = Report, !.reportStatus = "loading",
                                          !.members = {}, !.reportEpisode = e])
<1>1. Handles(panel, q, Calls(down), 0) BY Zenon, PanelHeld, ReportLinkHandles
<1>2. Click(q) BY DEF OpenReport
<1> HIDE DEF q
<1> QED BY <1>1, <1>2, ClickReads

(* The report is read again. *)
LEMMA RetryReportReads ==
  ASSUME Inv, ReadInv, RetryReport
  PROVE  ReadInv'
BY PanelHeld, RetryHandles, ClickReads DEF RetryReport

(* Another source is selected. *)
LEMMA SelectSourceReads ==
  ASSUME Inv, ReadInv, NEW node \in Nodes, SelectSource(node)
  PROVE  ReadInv'
<1> DEFINE q == [panel EXCEPT !.source = node]
<1>1. \E x \in Nodes : q = [panel EXCEPT !.source = x] OBVIOUS
<1>2. Click(LoadSource(q, FALSE)) BY Zenon DEF SelectSource
<1> HIDE DEF q
<1>3. Handles(panel, LoadSource(q, FALSE), Calls(down), 1) BY Zenon, <1>1, PanelHeld, LookingHandles
<1> QED BY Zenon, <1>2, <1>3, ClickReads

(* The readings of the source are shown or hidden. *)
LEMMA ReadingsReads ==
  ASSUME Inv, ReadInv, Readings
  PROVE  ReadInv'
<1> DEFINE q == [panel EXCEPT !.readings = 1 - @]
<1>1. q = [panel EXCEPT !.readings = 1 - @] OBVIOUS
<1>2. Click(LoadSource(q, FALSE)) BY Zenon DEF Readings
<1> HIDE DEF q
<1>3. Handles(panel, LoadSource(q, FALSE), Calls(down), 1) BY Zenon, <1>1, PanelHeld, LookingHandles
<1> QED BY Zenon, <1>2, <1>3, ClickReads

(* loadSourceMore, as it is clicked. *)
LEMMA MoreEvidenceReads ==
  ASSUME Inv, ReadInv, MoreEvidence
  PROVE  ReadInv'
BY PanelHeld, MoreHandles, ClickReads DEF MoreEvidence

(* A dialog is opened, *)
LEMMA OpenReads ==
  ASSUME Inv, ReadInv, NEW kind, NEW id, Open(kind, id)
  PROVE  ReadInv'
BY PanelHeld, PanelAssumption, OpenHandles, ClickReads DEF Open, OnPage, Fits, ReportFits

(* and closed. *)
LEMMA CloseReads ==
  ASSUME Inv, ReadInv, Close
  PROVE  ReadInv'
BY PanelHeld, CloseHandles, FollowsReads DEF Close

(* What neither tells nor answers a read is taken. *)
LEMMA FoundWithout ==
  ASSUME Inv, ReadInv, NEW i \in DOMAIN down, ~Tells(down[i], panel), ~Reads(down[i])
  PROVE  Found(RemoveAt(down, i))
<1> DEFINE R == RemoveAt(down, i)
<1>1. Sequence(down) /\ Found(down) BY DownFound DEF Inv, Mails
<1>2. Removed(down, i, R) /\ Sequence(R) BY <1>1, RemovedAt, RemoveFacts
<1> HIDE DEF R
<1>3. Calls(R) = Calls(down) BY <1>2, CallsRemoved
<1>4. Queue(R, panel, server) /\ (Announced(down, panel, server) => Announced(R, panel, server))
 BY <1>1, <1>2, RemovedQueue DEF Found
<1>5. Alone(R, panel) BY <1>1, <1>2, AloneRemoved DEF Found
<1>6. \A k \in DOMAIN R : \E j \in DOMAIN down : R[k] = down[j] BY <1>2, RemovedPlaces
<1>7. Affords(R, panel, Used) BY <1>1, <1>6 DEF Found, Affords
<1>8. up BY <1>1 DEF Found
<1> QED BY <1>1, <1>2, <1>3, <1>4, <1>5, <1>7, <1>8 DEF Found, R

(* The message that comes first. *)
LEMMA ReadyPlaces ==
  ASSUME Inv, ReadInv, NEW i \in Ready
  PROVE  /\ i \in DOMAIN down /\ Foremost(down, i) /\ up = TRUE
         /\ Removed(down, i, RemoveAt(down, i)) /\ Sequence(RemoveAt(down, i))
         /\ Calls(RemoveAt(down, i)) \subseteq Calls(down)
         /\ Alone(RemoveAt(down, i), panel) /\ Bounded(panel, Calls(RemoveAt(down, i)))
<1> DEFINE R == RemoveAt(down, i)
<1>1. Sequence(down) /\ Found(down) /\ up \in BOOLEAN BY DownFound DEF Inv, Mails, ReadInv
<1>2. i \in DOMAIN down /\ \A j \in 1..(i - 1) : Action(down[j]) BY DEF Ready
<1>3. DOMAIN down = 1..Len(down) /\ Len(down) \in Nat BY <1>1, Places
<1>4. Foremost(down, i) BY <1>2, <1>3 DEF Foremost
<1>5. Removed(down, i, R) /\ Sequence(R) BY <1>1, <1>2, RemovedAt, RemoveFacts
<1> HIDE DEF R
<1>6. Calls(R) \subseteq Calls(down) /\ Alone(R, panel) BY <1>1, <1>5, CallsRemoved, AloneRemoved DEF Found
<1>7. Bounded(panel, Calls(R)) BY <1>1, <1>6, BaseBounded DEF Found, Bounded
<1>8. up = TRUE BY <1>2, <1>1 DEF Found
<1> QED BY <1>2, <1>4, <1>5, <1>6, <1>7, <1>8 DEF R

(* A handler of what is taken from the queue. *)
LEMMA TakenHeld ==
  ASSUME up = TRUE, NEW p, p.asks = <<>>, NEW R, Sequence(R), Queue(R, p, server), Announced(R, p, server),
         Alone(R, p), Bounded(p, Calls(R)), NEW q, NEW c \in Nat, Handles(p, q, Calls(R), c),
         Runs(q, R), server' = server, up' = up
  PROVE  /\ Held(down', panel', server', up') /\ Familiar(down', panel', R, p)
         /\ Weight(panel') <= Weight(p) + c
         /\ panel'.status = p.status /\ panel'.data = p.data
<1> DEFINE F == Sent(R, q, server, TRUE)
           r == Rested(q)
<1>1. panel' = r /\ down' = F /\ server' = server /\ up' = TRUE BY Zenon DEF Runs, Sent, Answers, Rested
<1>2. /\ Held(F, r, server, TRUE) /\ Familiar(F, r, R, p)
      /\ Weight(r) <= Weight(p) + c
      /\ r.status = p.status /\ r.data = p.data BY Zenon, RunsHeld
<1> HIDE DEF F, r
<1> QED BY Zenon, <1>1, <1>2

(* What is bounded by other numbers. *)
LEMMA BoundedMore ==
  ASSUME NEW p, NEW q, NEW W, Bounded(p, W), p.sourceSequence \in Nat, p.detailSequence \in Nat,
         q.sourceSequence \in {p.sourceSequence, p.sourceSequence + 1},
         q.detailSequence \in {p.detailSequence, p.detailSequence + 1}
  PROVE  Bounded(q, W)
BY DEF Bounded

(* Current evidence. *)
LEMMA TellReads ==
  ASSUME Inv, ReadInv, NEW i \in Ready, Tells(down[i], panel), down[i].data.open \subseteq Episodes,
         Runs(Listener(panel, "current", down[i].data), RemoveAt(down, i)),
         UNCHANGED <<server, up, spent>>
  PROVE  ReadInv'
<1> DEFINE R == RemoveAt(down, i)
           data == down[i].data
           p == Informed(panel, data)
           q == Listener(panel, "current", data)
           W == Calls(R)
<1>1. /\ i \in DOMAIN down /\ Foremost(down, i) /\ up = TRUE
      /\ Removed(down, i, R) /\ Sequence(R) /\ Calls(R) \subseteq Calls(down)
      /\ Alone(R, panel) /\ Bounded(panel, W) BY Zenon, ReadyPlaces
<1>2. Fits(panel) /\ panel.asks = <<>> /\ Base(panel, Calls(down)) /\ Due(panel) BY PanelHeld
<1>3. Queue(down, panel, server) /\ Announced(down, panel, server) /\ Affords(down, panel, Used) /\ Spends
 BY <1>1 DEF ReadInv, Held
<1>4. data.at \in Nat /\ (Current(panel) => panel.data.at \in Nat /\ panel.data.at < data.at)
 BY <1>1, <1>3 DEF Queue, EventsOrdered, Messages, Clock, Tells
<1>5. Runs(q, R) /\ server' = server /\ up' = up /\ spent' = spent OBVIOUS
<1> HIDE DEF R, q
<1>6. ~Reads(down[i]) BY DEF Tells, Reads
<1>7. W = Calls(down) BY <1>1, <1>6, CallsRemoved
<1>8. /\ Base(p, W) /\ Weight(p) = Weight(panel) /\ Handles(p, q, W, 1) BY <1>2, <1>4, <1>7, ListenerTells DEF q
<1>9. /\ p.data = data /\ Current(p) /\ p.asks = <<>> /\ p.conn = panel.conn
      /\ p.sourceSequence = panel.sourceSequence /\ p.detailSequence = panel.detailSequence
 BY <1>2, InformedFields DEF Retained, Current
<1> HIDE DEF p
<1>10. Queue(R, p, server) /\ Announced(R, p, server) BY <1>1, <1>3, <1>9, ToldQueue
<1>11. Alone(R, p) BY <1>1, <1>9 DEF Alone, Counted, Answered, Numbered, Heard
<1>12. Bounded(p, W) BY <1>1, <1>9 DEF Bounded
<1>13. /\ Held(down', panel', server', up') /\ Familiar(down', panel', R, p)
       /\ Weight(panel') <= Weight(p) + 1
       /\ panel'.status = p.status /\ panel'.data = p.data
 BY Zenon, <1>1, <1>5, <1>8, <1>9, <1>10, <1>11, <1>12, TakenHeld
<1>14. Weight(panel) \in Nat /\ Weight(panel') \in Nat /\ Used \in Nat /\ Used' = Used /\ Spends'
 <2>1. Base(panel', Calls(down')) BY <1>13 DEF Held
 <2>2. Weight(panel) \in Nat /\ Weight(panel') \in Nat BY <1>2, <2>1, BaseNumbers, BaseOf DEF Base
 <2> QED BY <1>3, <1>5, <2>2, PublishedReads
<1>15. Current(panel') /\ panel'.data.at = data.at /\ Weight(panel') <= Weight(panel) + 1
 BY <1>8, <1>9, <1>13 DEF Current
<1>16. CASE Current(panel)
 <2>1. Weight(panel) + 1 <= 2 * (panel.data.at + Used) BY <1>3, <1>16 DEF Affords
 <2>2. Weight(panel') + 2 <= 2 * (data.at + Used) BY <1>4, <1>14, <1>15, <1>16, <2>1
 <2>3. Weight(panel') + 1 <= 2 * (data.at + Used) BY <1>4, <1>14, <2>2
 <2>4. Affords(down', panel', Used') BY <1>14, <1>15, <2>2, <2>3 DEF Affords
 <2> QED BY <1>1, <1>5, <1>13, <1>14, <2>4 DEF ReadInv
<1>17. CASE ~Current(panel)
 <2>1. Weight(panel) = panel.sourceSequence /\ panel.sourceRequest = None
  BY Zenon, <1>2, <1>17, NotCurrentFacts DEF Idling
 <2>2. panel.sourceSequence + 2 <= 2 * (data.at + Used) BY <1>1, <1>3, <1>17 DEF Affords
 <2>3. Weight(panel') + 1 <= 2 * (data.at + Used) BY <1>4, <1>14, <1>15, <2>1, <2>2
 <2>4. \A call \in W : ~Numbered(panel, call)
  <3>1. \A call \in Calls(down) : call \in Under(panel, Calls(down)) BY DEF Under
  <3> QED BY <1>2, <1>7, <2>1, <3>1 DEF Base, SourceHolds, Awaited, Own
 <2>5. \A j \in DOMAIN R : ~Counted(R[j], p) BY <1>9, <2>4, CallsOf DEF Counted, Numbered
 <2>6. ~\E k \in DOMAIN down' : Counted(down'[k], panel') /\ ~down'[k].answer.ok BY <1>13, <2>5 DEF Familiar
 <2>7. Affords(down', panel', Used') BY <1>14, <1>15, <2>3, <2>6 DEF Affords
 <2> QED BY <1>1, <1>5, <1>13, <1>14, <2>7 DEF ReadInv
<1> QED BY <1>16, <1>17

(* The end of the evidence. *)
LEMMA EndReads ==
  ASSUME Inv, ReadInv, NEW i \in Ready, Ends(down[i], panel),
         Runs(Listener(panel, down[i].status, down[i].data), RemoveAt(down, i)),
         UNCHANGED <<server, up, spent>>
  PROVE  ReadInv'
<1> DEFINE R == RemoveAt(down, i)
           status == down[i].status
           p == Away(panel, status)
           q == Listener(panel, status, down[i].data)
           W == Calls(R)
<1>1. /\ i \in DOMAIN down /\ Foremost(down, i) /\ up = TRUE
      /\ Removed(down, i, R) /\ Sequence(R) /\ Calls(R) \subseteq Calls(down)
      /\ Alone(R, panel) /\ Bounded(panel, W) BY Zenon, ReadyPlaces
<1>2. Fits(panel) /\ panel.asks = <<>> /\ Base(panel, Calls(down)) /\ Due(panel) BY PanelHeld
<1>3. Queue(down, panel, server) /\ Announced(down, panel, server) /\ Affords(down, panel, Used) /\ Spends
 BY <1>1 DEF ReadInv, Held
<1>4. status # "current" BY DEF Ends
<1>5. Runs(q, R) /\ server' = server /\ up' = up /\ spent' = spent OBVIOUS
<1> HIDE DEF R, q
<1>6. ~Reads(down[i]) BY DEF Ends, Reads
<1>7. W = Calls(down) BY <1>1, <1>6, CallsRemoved
<1>8. Handles(p, q, W, 0) BY <1>2, <1>4, <1>7, ListenerAway DEF q
<1>9. Base(p, W) /\ Weight(p) = p.sourceSequence BY <1>2, <1>4, <1>7, AwayHolds
<1>10. /\ p.asks = <<>> /\ p.conn = panel.conn /\ p.status = status
       /\ p.sourceSequence = (IF Current(panel) THEN panel.sourceSequence + 1 ELSE panel.sourceSequence)
       /\ p.detailSequence = (IF Current(panel) THEN panel.detailSequence + 1 ELSE panel.detailSequence)
 BY <1>2, <1>4, AwayFields
<1> HIDE DEF p
<1>11. ~Current(p) BY <1>4, <1>10 DEF Current
<1>12. /\ Queue(R, p, server) /\ Announced(R, p, server)
       /\ \A k \in DOMAIN R : (Tells(R[k], p) /\ Current(panel)) => panel.data.at < R[k].data.at
 BY <1>1, <1>3, <1>10, <1>11, EndedQueue
<1>13. panel.sourceSequence \in Nat /\ panel.detailSequence \in Nat /\ Weight(panel) \in Nat
       /\ panel.sourceSequence <= Weight(panel) BY <1>2, BaseNumbers, BaseOf, WeightType DEF Base
<1>14. Bounded(p, W) BY <1>1, <1>10, <1>13, BoundedMore
<1>15. Alone(R, p) BY <1>1, <1>10, <1>13, AloneMoves
<1>16. /\ Held(down', panel', server', up') /\ Familiar(down', panel', R, p)
       /\ Weight(panel') <= Weight(p) + 0
       /\ panel'.status = p.status /\ panel'.data = p.data
 BY Zenon, <1>1, <1>5, <1>8, <1>10, <1>12, <1>14, <1>15, TakenHeld
<1>17. ~Current(panel') /\ Base(panel', Calls(down')) BY <1>11, <1>16 DEF Current, Held
<1>18. panel'.sourceSequence <= p.sourceSequence /\ panel'.sourceSequence \in Nat
       /\ p.sourceSequence \in Nat
 <2>1. Weight(panel') = panel'.sourceSequence /\ panel'.sourceSequence \in Nat
  BY <1>17, NotCurrentFacts, BaseNumbers, BaseOf DEF Base
 <2>2. p.sourceSequence \in Nat BY <1>10, <1>13
 <2> QED BY <1>9, <1>16, <2>1, <2>2
<1>19. Used \in Nat /\ Used' = Used /\ Spends' BY <1>3, <1>5, PublishedReads
<1>20. ASSUME NEW k \in DOMAIN down', Tells(down'[k], panel')
       PROVE  panel'.sourceSequence + 2 <= 2 * (down'[k].data.at + Used)
 <2>1. PICK j \in DOMAIN R : down'[k] = R[j] /\ Tells(R[j], p) BY <1>16, <1>20 DEF Familiar
 <2>2. Skip(i, j) \in DOMAIN down /\ R[j] = down[Skip(i, j)] /\ Tells(R[j], panel)
  BY <1>1, <1>10, <2>1, RemovedPlaces, SameMessages
 <2>3. R[j].data.at \in Nat BY <2>2, <1>3 DEF Queue, Messages, Tells
 <2>4. CASE Current(panel)
  <3>1. panel.data.at \in Nat /\ panel.data.at < R[j].data.at BY <1>3, <1>12, <2>1, <2>4 DEF Queue, Clock
  <3>2. Weight(panel) + 1 <= 2 * (panel.data.at + Used) BY <1>3, <2>4 DEF Affords
  <3>3. p.sourceSequence <= Weight(panel) + 1 /\ p.sourceSequence \in Nat BY <1>10, <1>13, <2>4
  <3>4. \A a, b, c, d, n \in Nat : (a <= b + 1 /\ c < d /\ b + 1 <= 2 * (c + n)) => a + 2 <= 2 * (d + n) OBVIOUS
  <3>5. p.sourceSequence + 2 <= 2 * (R[j].data.at + Used) BY <1>13, <1>19, <2>3, <3>1, <3>2, <3>3, <3>4
  <3> QED BY <1>18, <1>19, <2>1, <2>3, <3>5
 <2>5. CASE ~Current(panel)
  <3>1. panel.sourceSequence + 2 <= 2 * (R[j].data.at + Used) BY <1>3, <2>2, <2>5 DEF Affords
  <3> QED BY SMTT(30), <1>10, <1>18, <1>19, <2>1, <2>3, <2>5, <3>1
 <2> QED BY <2>4, <2>5
<1>21. Affords(down', panel', Used') BY <1>17, <1>19, <1>20 DEF Affords
<1> QED BY <1>1, <1>5, <1>16, <1>19, <1>21 DEF ReadInv

(* Evidence of another connection, which nothing is done of. *)
LEMMA ForeignReads ==
  ASSUME Inv, ReadInv, NEW i \in Ready, down[i].kind = "event", down[i].conn # panel.conn,
         Runs(panel, RemoveAt(down, i)), UNCHANGED <<server, up, spent>>
  PROVE  ReadInv'
<1> DEFINE R == RemoveAt(down, i)
<1>1. i \in DOMAIN down BY Zenon, ReadyPlaces
<1>2. Found(R) BY <1>1, FoundWithout DEF Tells, Reads
<1> HIDE DEF R
<1>3. Fits(panel) /\ Base(panel, Calls(R)) /\ Due(panel) BY <1>2, PanelHeld DEF Found
<1>4. Handles(panel, panel, Calls(R), 0) BY <1>3, NothingHandles
<1>5. Spends' /\ Used' = Used /\ Used \in Nat /\ Used' \in Nat /\ 0 <= 2 * (Used' - Used)
 BY PublishedReads DEF ReadInv
<1>6. server' = server /\ up' = up /\ Runs(panel, R) BY DEF R
<1> QED BY <1>2, <1>4, <1>5, <1>6, HandlerReads

(* What comes of the stream. *)
LEMMA DeliverEventReads ==
  ASSUME Inv, ReadInv, NEW i \in Ready, DeliverEvent(i)
  PROVE  ReadInv'
BY Zenon, ReadyFacts, ForeignReads, TellReads, EndReads DEF DeliverEvent, Mail, EventFits, ReplyFits,
  CallFits, Tells, Ends

(* The answer of a read. *)
LEMMA DeliverReadReads ==
  ASSUME Inv, ReadInv, NEW i \in Ready, DeliverRead(i)
  PROVE  ReadInv'
<1> DEFINE R == RemoveAt(down, i)
           call == down[i].call
           answer == down[i].answer
           q == Replied(panel, call, answer)
           W == Calls(R)
           c == Charge(panel, call, answer)
<1>1. /\ i \in DOMAIN down /\ Foremost(down, i) /\ up = TRUE
      /\ Removed(down, i, R) /\ Sequence(R) /\ Alone(R, panel) /\ Bounded(panel, W) BY Zenon, ReadyPlaces
<1>2. Fits(panel) /\ panel.asks = <<>> /\ Base(panel, Calls(down)) /\ Due(panel) BY PanelHeld
<1>3. Queue(down, panel, server) /\ Announced(down, panel, server) /\ Affords(down, panel, Used) /\ Spends
      /\ Alone(down, panel) BY <1>1 DEF ReadInv, Held
<1>4. Runs(q, R) /\ server' = server /\ up' = up /\ UNCHANGED spent /\ Reads(down[i])
 BY DEF DeliverRead, Action, Reads
<1>5. ReadFits(call) /\ call.slot \in ReadSlots
 BY Zenon, <1>4, ReadyFacts DEF Mail, EventFits, ReplyFits, CallFits, Reads, ReadSlots
<1> HIDE DEF R, q
<1>6. Calls(down) = W \cup {call} BY <1>1, <1>4, CallsRemoved
<1>7. Final(panel, call, W) /\ FinalRead(panel, call, W)
 BY <1>1, <1>2, <1>3, <1>4, AloneRemoved DEF Final, FinalRead
<1>8. ASSUME call.slot # "report" PROVE Prompt(panel, call, answer)
 <2>1. answer.at \in Nat BY <1>1, <1>3, <1>4 DEF Queue, Messages
 <2>2. ASSUME call.conn = panel.conn PROVE Current(panel) /\ answer.at = panel.data.at
  <3>1. Dated(down[i], panel) BY <1>4, <1>8, <2>2 DEF Dated
  <3>2. \A j \in DOMAIN down : j < i => ~Tells(down[j], panel) BY <1>1, ForemostFirst
  <3> QED BY <1>1, <1>3, <3>1, <3>2 DEF Queue, AnswersOrdered
 <2> QED BY <2>1, <2>2 DEF Prompt
<1>9. Handles(panel, q, W, c) BY <1>2, <1>5, <1>6, <1>7, <1>8, ReplyHandles DEF q
<1>10. Queue(R, panel, server) /\ Announced(R, panel, server) BY <1>1, <1>3, <1>4, RemovedQueue DEF Tells, Reads
<1>11. c \in Nat BY DEF Charge
<1>12. /\ Held(down', panel', server', up') /\ Familiar(down', panel', R, panel)
       /\ Weight(panel') <= Weight(panel) + c
       /\ panel'.status = panel.status /\ panel'.data = panel.data
 BY Zenon, <1>1, <1>2, <1>4, <1>9, <1>10, <1>11, TakenHeld
<1>13. Base(panel', Calls(down')) BY <1>12 DEF Held
<1>14. Weight(panel) \in Nat /\ Weight(panel') \in Nat /\ Used \in Nat /\ Used' = Used /\ Spends'
 <2>1. Weight(panel) \in Nat /\ Weight(panel') \in Nat BY <1>2, <1>13, BaseNumbers, BaseOf DEF Base
 <2> QED BY <1>3, <1>4, <2>1, PublishedReads
<1>15. Familiar(R, panel, down, panel)
 <2>1. \A k \in DOMAIN R : Skip(i, k) \in DOMAIN down /\ R[k] = down[Skip(i, k)] BY <1>1, RemovedPlaces
 <2> QED BY <2>1 DEF Familiar
<1>16. CASE c = 0
 <2>1. Familiar(down', panel', down, panel) BY <1>12, <1>15 DEF Familiar
 <2>2. Weight(panel') <= Weight(panel) + 0 /\ 0 <= 2 * (Used' - Used) BY <1>12, <1>14, <1>16
 <2>3. Affords(down', panel', Used') BY <1>2, <1>3, <1>12, <1>13, <1>14, <2>1, <2>2, AffordsMoves
 <2> QED BY <1>1, <1>4, <1>12, <1>14, <2>3 DEF ReadInv
<1>17. CASE c # 0
 <2>1. Numbered(panel, call) /\ ~answer.ok /\ c = 1 BY <1>17 DEF Charge
 <2>2. Current(panel) BY Zenon, <1>2, <1>6, <2>1, AwaitedFacts DEF Base
 <2>3. Weight(panel) + 2 <= 2 * (panel.data.at + Used) /\ panel.data.at \in Nat
  BY <1>1, <1>2, <1>3, <1>4, <2>1, <2>2 DEF Affords, Counted, Base, Timely
 <2>4. \A k \in DOMAIN R : ~Counted(R[k], panel) BY <1>7, <2>1, CallsOf DEF Final, Counted
 <2>5. ~\E k \in DOMAIN down' : Counted(down'[k], panel') /\ ~down'[k].answer.ok BY <1>12, <2>4 DEF Familiar
 <2>6. Current(panel') /\ panel'.data.at = panel.data.at BY <1>12, <2>2 DEF Current
 <2>7. Weight(panel') + 1 <= 2 * (panel.data.at + Used) BY <1>12, <1>14, <2>1, <2>3
 <2>8. Affords(down', panel', Used') BY <1>14, <2>5, <2>6, <2>7 DEF Affords
 <2> QED BY <1>1, <1>4, <1>12, <1>14, <2>8 DEF ReadInv
<1> QED BY <1>16, <1>17

(* The invariant while there is a connection. *)
LEMMA TrackedReads ==
  ASSUME up' = TRUE, Spends', Tracked(down', panel', server', Used')
  PROVE  ReadInv'
BY Zenon DEF Tracked, ReadInv

(* Sequences after one another. *)
LEMMA SequenceAfter ==
  ASSUME NEW a, NEW b, Sequence(a), Sequence(b)
  PROVE  After(a, b, a \o b) /\ Sequence(a \o b)
<1> DEFINE S == Range(a) \cup Range(b)
<1>1. Range(a) \subseteq S /\ Range(b) \subseteq S OBVIOUS
<1> HIDE DEF S
<1>2. a \in Seq(S) /\ b \in Seq(S) BY <1>1 DEF Sequence
<1> QED BY <1>2, ConcatAfter, ConcatFacts

(* Evidence of a publication. *)
LEMMA EventTells ==
  ASSUME NEW s, NEW p
  PROVE  /\ Sequence(Event(s, p.conn)) /\ Len(Event(s, p.conn)) = 1
         /\ Tells(Event(s, p.conn)[1], p) /\ Event(s, p.conn)[1].data.at = s.at
<1> DEFINE m == [kind |-> "event", conn |-> p.conn, status |-> "current", data |-> Data(s)]
<1>1. Event(s, p.conn) = <<m>> BY DEF Event
<1>2. Tells(m, p) /\ m.data.at = s.at BY DEF Tells, Data
<1> HIDE DEF m
<1>3. Sequence(<<m>>) /\ Len(<<m>>) = 1 /\ <<m>>[1] = m BY OneFacts
<1> QED BY <1>1, <1>2, <1>3

(* A panel that a handler left without requests is tracked as before. *)
LEMMA CalmlyTracked ==
  ASSUME NEW p, p.asks = <<>>, NEW R, NEW s, NEW n \in Nat, Tracked(R, p, s, n), NEW q, Calmly(p, q, Calls(R))
  PROVE  Tracked(R, q, s, n) /\ q.conn = p.conn
<1>1. /\ Base(p, Calls(R)) /\ Queue(R, p, s) /\ Alone(R, p) /\ Announced(R, p, s) /\ Affords(R, p, n)
 BY DEF Tracked, Held
<1>2. /\ Moves(p, q, 0) /\ Base(q, Calls(R)) /\ Due(q)
      /\ q.status = p.status /\ q.data = p.data /\ q.conn = p.conn BY DEF Calmly, Handles, Moves
<1>3. Queue(R, q, s) /\ Announced(R, q, s) BY <1>1, <1>2, QueueSame
<1>4. Alone(R, q) /\ \A i \in DOMAIN R : Counted(R[i], q) => Counted(R[i], p)
 BY <1>1, <1>2, BaseBounded, AloneMoves DEF Moves
<1>5. Familiar(R, q, R, p) BY <1>2, <1>4, SameMessages DEF Familiar
<1>6. Weight(q) <= Weight(p) + 0 /\ 0 <= 2 * (n - n) BY <1>2 DEF Moves
<1>7. Affords(R, q, n) BY <1>1, <1>2, <1>5, <1>6, AffordsMoves
<1> QED BY <1>1, <1>2, <1>3, <1>4, <1>7 DEF Tracked, Held

(* An action is asked for, and answered after what it publishes. *)
LEMMA ServedReads ==
  ASSUME Inv, NEW R, Sequence(R), NEW q, q.asks = <<>>, NEW n \in Nat, Tracked(R, q, server, n), Fits(q),
         NEW call, call.slot \notin ReadSlots, call.kind \in Kinds, Acts(Ask(q, call), R)
  PROVE  Tracked(down', panel', server', n)
<1> DEFINE yes == Accepts(server, call)
           m == Answer(server', call, yes)
           E == Event(server', q.conn)
           F == R \o E
<1>1. panel' = q /\ server' = (IF yes THEN Served(server, call) ELSE server)
      /\ down' = (R \o (IF yes THEN E ELSE <<>>)) \o <<m>> BY AskedFacts
<1>2. m.kind = "reply" /\ ~Reads(m) BY DEF Answer, Reads
<1> HIDE DEF m, E, yes
<1>3. ASSUME NEW D, Sequence(D), Tracked(D, q, server', n)
      PROVE  Tracked(D \o <<m>>, q, server', n)
 <2>1. After(D, <<m>>, D \o <<m>>) BY <1>3, OneFacts, SequenceAfter
 <2>2. \A k \in DOMAIN <<m>> : <<m>>[k].kind = "reply" /\ ~Reads(<<m>>[k]) BY <1>2
 <2> QED BY <1>3, <2>1, <2>2, AnswerTracked
<1>4. CASE yes
 <2>1. server' = Served(server, call) /\ down' = F \o <<m>> BY <1>1, <1>4
 <2>2. server'.at = server.at + 1 BY <2>1 DEF Inv, ServerFits, Served, Kinds
 <2>3. Sequence(E) /\ Len(E) = 1 /\ Tells(E[1], q) /\ E[1].data.at = server'.at BY Zenon, EventTells DEF E
 <2>4. After(R, E, F) /\ Sequence(F) BY <2>3, SequenceAfter
 <2> HIDE DEF F
 <2>5. Tracked(F, q, server', n) BY <2>2, <2>3, <2>4, EventTracked
 <2> QED BY Zenon, <1>1, <1>3, <2>1, <2>4, <2>5
<1>5. CASE ~yes BY <1>1, <1>5, <1>3 DEF Sequence
<1> QED BY <1>4, <1>5

(* A handler that may ask for one action. *)
LEMMA PerformsReads ==
  ASSUME Inv, ReadInv, NEW R, Found(R), Performs(panel, R, Calls(R)),
         up' = up, Spends', Used' = Used
  PROVE  ReadInv'
<1>1. panel.asks = <<>> /\ Used \in Nat /\ up \in BOOLEAN /\ Sequence(R) BY UsedType DEF Inv, ReadInv, Found
<1>2. PICK q : /\ Calmly(panel, q, Calls(R))
               /\ \/ Acts(q, R)
                  \/ Current(q) /\ \E call : call.slot \notin ReadSlots /\ call.kind \in Kinds /\ Acts(Ask(q, call), R)
 BY DEF Performs
<1>3. Fits(q) /\ Handles(panel, q, Calls(R), 0) /\ q.asks = <<>> BY <1>2 DEF Calmly
<1>4. CASE Acts(q, R) BY <1>3, <1>4, <1>1, HandlerReads DEF Acts
<1>5. ASSUME Current(q), NEW call, call.slot \notin ReadSlots, call.kind \in Kinds, Acts(Ask(q, call), R)
      PROVE  ReadInv'
 <2>1. Current(panel) BY <1>3, <1>5 DEF Handles, Moves, Current
 <2>2. up = TRUE /\ Tracked(R, panel, server, Used) BY <1>1, <2>1 DEF Found, Tracked, Held
 <2>3. Tracked(R, q, server, Used) BY <1>1, <1>2, <2>2, CalmlyTracked
 <2>4. Tracked(down', panel', server', Used) BY <1>1, <1>3, <1>5, <2>3, ServedReads
 <2> QED BY <2>2, <2>4, TrackedReads
<1> QED BY <1>2, <1>4, <1>5

(* The dialog of one issue, and the response to a device. *)
LEMMA ActionReads ==
  ASSUME Inv, Inv', ReadInv, \/ \E kind : OpenTool(kind)
                             \/ CloseTool \/ Submit \/ \E e \in Episodes : Choose(e)
                             \/ Acknowledge \/ Pause \/ ApplyPause \/ CancelPause
  PROVE  ReadInv'
<1>1. Base(panel, Calls(down)) /\ Due(panel) /\ Found(down) BY PanelHeld, DownFound
<1>2. Performs(panel, down, Calls(down))
 BY <1>1, OpenToolPerforms, CloseToolPerforms, SubmitPerforms, ChoosePerforms, AcknowledgePerforms,
  PausePerforms, ApplyPausePerforms, CancelPausePerforms
<1>3. up' = up /\ (Pressed \/ UNCHANGED spent)
 BY Zenon DEF OpenTool, CloseTool, Follows, Submit, Choose, Acknowledge, Pause, ApplyPause, CancelPause, Press
<1>4. Spends' /\ Used' = Used BY <1>3, PublishedReads DEF ReadInv
<1> QED BY <1>1, <1>2, <1>3, <1>4, PerformsReads

(* The answer to an action. *)
LEMMA DeliverActionReads ==
  ASSUME Inv, Inv', ReadInv, NEW i \in Ready, DeliverAction(i)
  PROVE  ReadInv'
<1> DEFINE R == RemoveAt(down, i)
           call == down[i].call
           answer == down[i].answer
<1>1. i \in DOMAIN down /\ Mail(panel, server, down[i]) BY ReadyFacts
<1>2. /\ down[i].kind = "reply" /\ call.slot \notin ReadSlots /\ up' = up /\ UNCHANGED spent
      /\ \/ call.slot = "tool" /\ Acts(ToolReply(panel, call, answer), R)
         \/ call.slot = "response" /\ Acts(ResponseReply(panel, call, answer), R) BY DEF DeliverAction, Action
<1>3. Found(R) BY <1>1, <1>2, FoundWithout DEF Tells, Reads
<1> HIDE DEF R
<1>4. Fits(panel) /\ panel.asks = <<>> /\ Base(panel, Calls(R)) /\ Due(panel) BY <1>3, PanelHeld DEF Found
<1>5. Performs(panel, R, Calls(R))
 BY <1>4, ToolReplyPerforms, <1>1, <1>2, ResponseReplyPerforms DEF Mail, EventFits
<1>6. Spends' /\ Used' = Used BY <1>2, PublishedReads DEF ReadInv
<1> QED BY <1>2, <1>3, <1>5, <1>6, PerformsReads

(* The connection there is, and what its queue is bound to. *)
LEMMA UpFacts ==
  ASSUME Inv, ReadInv, up
  PROVE  Tracked(down, panel, server, Used) /\ Used \in Nat /\ panel.asks = <<>> /\ Sequence(down) /\ up = TRUE
BY UsedType DEF Inv, Mails, ReadInv, Held, Tracked

(* and the connection there is not. *)
LEMMA DownFacts ==
  ASSUME Inv, ReadInv, ~up
  PROVE  /\ down = <<>> /\ ~Current(panel) /\ Unread(panel) /\ Base(panel, Calls(<<>>)) /\ Due(panel)
         /\ Queue(<<>>, panel, server) /\ Calls(<<>>) = {} /\ panel.sourceSequence \in Nat
         /\ panel.sourceSequence + 2 <= 2 * (server.at + Used) /\ server.at \in Nat /\ Used \in Nat
BY BaseNumbers, BaseOf, EmptyQueue, UsedType DEF ReadInv, Held, Queue, Base, Clock

(* Nothing is heard while there is no connection. *)
LEMMA SilentReads ==
  ASSUME Inv, ReadInv, ~up, up' = up, panel' = panel, down' = down, Spends', Used' = Used,
         server'.at \in {server.at, server.at + 1}
  PROVE  ReadInv'
<1>1. /\ down = <<>> /\ ~Current(panel) /\ Unread(panel) /\ Base(panel, Calls(<<>>)) /\ Due(panel)
      /\ Queue(<<>>, panel, server) /\ panel.sourceSequence \in Nat
      /\ panel.sourceSequence + 2 <= 2 * (server.at + Used) /\ server.at \in Nat /\ Used \in Nat BY DownFacts
<1>2. Queue(<<>>, panel, server') BY <1>1, EmptyQueue DEF Queue, Clock
<1>3. Alone(<<>>, panel) /\ Affords(<<>>, panel, Used) BY <1>1 DEF Alone, Affords
<1>4. panel.sourceSequence + 2 <= 2 * (server'.at + Used) BY SMTT(30), <1>1
<1>5. Held(<<>>, panel, server', FALSE) BY <1>1, <1>2, <1>3 DEF Held
<1>6. up = FALSE BY DEF ReadInv
<1> QED BY Zenon, <1>1, <1>3, <1>4, <1>5, <1>6 DEF ReadInv

(* A publication. *)
LEMMA PublishReads ==
  ASSUME Inv, ReadInv, NEW s, s.at = server.at, "at" \in DOMAIN s, Publish(s), Published, panel' = panel, up' = up
  PROVE  ReadInv'
<1>1. Spends' /\ Used' = Used BY PublishedReads DEF ReadInv
<1>2. server'.at = server.at + 1 /\ down' = (IF up THEN down \o Event(server', panel.conn) ELSE down)
 BY DEF Publish
<1>3. CASE up
 <2> DEFINE E == Event(server', panel.conn)
 <2> HIDE DEF E
 <2>1. Tracked(down, panel, server, Used) /\ Used \in Nat /\ panel.asks = <<>> /\ Sequence(down) /\ up = TRUE
  BY <1>3, UpFacts
 <2>2. Sequence(E) /\ Len(E) = 1 /\ Tells(E[1], panel) /\ E[1].data.at = server'.at BY Zenon, EventTells DEF E
 <2>3. down' = down \o E BY <1>2, <1>3 DEF E
 <2>4. After(down, E, down') BY <2>1, <2>2, <2>3, SequenceAfter
 <2>5. Tells(E[Len(E)], panel) /\ E[Len(E)].data.at = server'.at /\ Len(E) \in {1, 2} /\ Len(E) # 2 BY <2>2
 <2>6. Tracked(down', panel, server', Used) BY <1>2, <2>1, <2>4, <2>5, EventTracked
 <2> QED BY <1>1, <1>2, <2>1, <2>6, TrackedReads
<1>4. CASE ~up BY <1>1, <1>2, <1>4, SilentReads
<1> QED BY <1>3, <1>4

(* An issue opens or ends. *)
LEMMA IssueReads ==
  ASSUME Inv, ReadInv, NEW e, IssueOpens(e) \/ \E kept \in BOOLEAN : IssueEnds(e, kept)
  PROVE  ReadInv'
<1>1. server = [x \in DOMAIN server |-> server[x]] /\ DOMAIN server = {"at", "open", "kept", "acked", "paused", "expired"}
 BY DEF Inv, ServerFits
<1>2. CASE IssueOpens(e)
 <2> DEFINE s == [server EXCEPT !.open = @ \cup {e}]
 <2>1. s.at = server.at /\ "at" \in DOMAIN s BY <1>1
 <2>2. Publish(s) /\ Published /\ panel' = panel /\ up' = up BY <1>2 DEF IssueOpens
 <2> HIDE DEF s
 <2> QED BY <2>1, <2>2, PublishReads
<1>3. ASSUME NEW kept \in BOOLEAN, IssueEnds(e, kept) PROVE ReadInv'
 <2> DEFINE s == [server EXCEPT !.open = @ \ {e}, !.kept = IF kept THEN @ \cup {e} ELSE @]
 <2>1. s.at = server.at /\ "at" \in DOMAIN s BY <1>1
 <2>2. Publish(s) /\ Published /\ panel' = panel /\ up' = up BY Zenon, <1>3 DEF IssueEnds
 <2> HIDE DEF s
 <2> QED BY <2>1, <2>2, PublishReads
<1> QED BY <1>2, <1>3

(* The queue depends on the server by its publication alone. *)
LEMMA ServerSame ==
  ASSUME NEW D, NEW p, NEW s, NEW n, NEW t, t.at = s.at, Tracked(D, p, s, n)
  PROVE  Tracked(D, p, t, n)
BY DEF Tracked, Held, Queue, Clock, EventsOrdered, Announced

(* A report expires. *)
LEMMA ExpireReads ==
  ASSUME Inv, ReadInv, Expire
  PROVE  ReadInv'
BY Zenon, PublishedReads, UpFacts, ServerSame, TrackedReads, SilentReads DEF ReadInv, Expire, Inv,
  ServerFits

(* Two messages more. *)
LEMMA TwoAfter ==
  ASSUME NEW D, Sequence(D), NEW a, NEW b
  PROVE  After(D, <<a, b>>, D \o <<a>> \o <<b>>)
<1> DEFINE F == D \o <<a>>
           G == F \o <<b>>
<1>1. Sequence(<<a>>) /\ Sequence(<<b>>) BY OneFacts
<1>2. After(D, <<a>>, F) /\ Sequence(F) BY <1>1, SequenceAfter
<1> HIDE DEF F
<1>3. After(F, <<b>>, G) BY <1>1, <1>2, SequenceAfter
<1> HIDE DEF G
<1>4. Len(<<a>>) = 1 /\ Len(<<b>>) = 1 /\ <<a>>[1] = a /\ <<b>>[1] = b /\ 1 \in 1..1 OBVIOUS
<1>5. /\ Len(D) \in Nat /\ DOMAIN D = 1..Len(D) /\ Len(F) \in Nat
      /\ DOMAIN F = 1..(Len(D) + 1) /\ DOMAIN F = 1..Len(F) /\ DOMAIN G = 1..(Len(F) + 1)
      /\ (\A k \in 1..Len(D) : F[k] = D[k]) /\ F[Len(D) + 1] = a
      /\ (\A k \in 1..Len(F) : G[k] = F[k]) /\ G[Len(F) + 1] = b BY Zenon, <1>2, <1>3, <1>4 DEF After
<1>6. Len(F) = Len(D) + 1 BY <1>5
<1>7. /\ DOMAIN G = 1..(Len(D) + 2) /\ (\A k \in 1..Len(D) : G[k] = D[k])
      /\ G[Len(D) + 1] = a /\ G[Len(D) + 2] = b BY <1>5, <1>6
<1> DEFINE E == <<a, b>>
<1>8. Len(E) = 2 /\ DOMAIN E = 1..2 /\ E[1] = a /\ E[2] = b OBVIOUS
<1> HIDE DEF E
<1>9. \A k \in 1..2 : k = 1 \/ k = 2 OBVIOUS
<1>10. After(D, E, G) BY <1>5, <1>7, <1>8, <1>9 DEF After
<1> QED BY <1>10 DEF E, G, F

(* The end of the evidence, which comes again at once. *)
LEMMA ReloadsReads ==
  ASSUME Inv, ReadInv, Reloads
  PROVE  ReadInv'
<1> DEFINE m == Event(server, panel.conn)[1]
           a == [m EXCEPT !.status = "unavailable"]
           b == [kind |-> "event", conn |-> panel.conn, status |-> "current", data |-> Data(server')]
           E == <<a, b>>
<1>1. Tracked(down, panel, server, Used) /\ Used \in Nat /\ panel.asks = <<>> /\ Sequence(down) /\ up = TRUE
 BY UpFacts DEF Reloads
<1>2. Spends' /\ Used' = Used + 1 BY FaultyReads DEF Reloads, ReadInv
<1>3. server'.at = server.at + 1 /\ panel' = panel /\ up' = up /\ server.at \in Nat
 BY <1>1, Budget DEF Reloads, Inv, ServerFits
<1>4. down' = down \o <<a>> \o <<b>> BY DEF Reloads, Event
<1>5. Ends(a, panel) /\ a.data.at = server.at BY DEF Ends, Event, Data
<1>6. Tells(b, panel) /\ b.data.at = server'.at BY DEF Tells, Data
<1> HIDE DEF a, b
<1>7. After(down, E, down') BY Zenon, <1>1, <1>4, TwoAfter
<1>8. /\ Len(E) \in {1, 2} /\ Tells(E[Len(E)], panel) /\ E[Len(E)].data.at = server'.at
      /\ (Len(E) = 2 => Ends(E[1], panel) /\ E[1].data.at \in Nat) BY <1>3, <1>5, <1>6
<1> HIDE DEF E
<1>9. Tracked(down', panel, server', Used) BY <1>1, <1>3, <1>7, <1>8, EventTracked
<1>10. Tracked(down', panel, server', Used + 1) BY <1>1, <1>9, TrackedMore
<1> QED BY <1>1, <1>2, <1>3, <1>10, TrackedReads

(* Evidence is all there is to hear. *)
LEMMA ToldAnew ==
  ASSUME NEW D, NEW E, NEW F, After(D, E, F), NEW p, p.asks = <<>>, ~Current(p), NEW s, NEW n \in Nat,
         Base(p, Calls(D)), Due(p), Queue(D, p, s), Alone(D, p), \A j \in DOMAIN D : ~Tells(D[j], p),
         Len(E) \in {1, 2}, Len(E) # 2, Tells(E[Len(E)], p), E[Len(E)].data.at = s.at, p.sourceSequence + 2 <= 2 * (s.at + n)
  PROVE  Tracked(F, p, s, n)
<1>1. s.at \in Nat BY DEF Queue, Clock
<1>2. /\ Queue(F, p, s) /\ Announced(F, p, s)
      /\ \A k \in DOMAIN F : Tells(F[k], p) =>
           F[k].data.at = s.at \/ \E j \in DOMAIN D : F[k] = D[j] BY <1>1, ToldAfter
<1>3. \A k \in DOMAIN E : ~Reads(E[k])
 <2>1. \A k \in DOMAIN E : k = Len(E) BY DEF After
 <2> QED BY <2>1 DEF Tells, Reads
<1>4. Calls(F) = Calls(D)
 <2>1. Calls(E) = {} BY <1>3, CallsOf
 <2>2. Calls(F) = Calls(D) \cup Calls(E) BY CallsAfter
 <2> QED BY <2>1, <2>2
<1>5. Alone(F, p) BY <1>3, AloneAfter DEF Counted, Answered
<1>6. Affords(F, p, n) BY <1>2 DEF Affords
<1> QED BY <1>2, <1>4, <1>5, <1>6 DEF Tracked, Held

(* The connection comes back. *)
LEMMA ReconnectReads ==
  ASSUME Inv, ReadInv, Reconnect
  PROVE  ReadInv'
<1> DEFINE E == Event(server, panel.conn)
<1> HIDE DEF E
<1>1. /\ ~Current(panel) /\ Base(panel, Calls(<<>>)) /\ Due(panel) /\ Queue(<<>>, panel, server)
      /\ panel.sourceSequence + 2 <= 2 * (server.at + Used) /\ Used \in Nat BY DownFacts DEF Reconnect
<1>2. panel.asks = <<>> /\ Spends' /\ Used' = Used /\ up' = TRUE /\ panel' = panel /\ server' = server
 BY PublishedReads DEF Inv, ReadInv, Reconnect
<1>3. Sequence(E) /\ Len(E) = 1 /\ Tells(E[1], panel) /\ E[1].data.at = server.at BY EventTells DEF E
<1>4. Len(E) \in {1, 2} /\ Len(E) # 2 /\ Tells(E[Len(E)], panel) /\ E[Len(E)].data.at = server.at BY <1>3
<1>5. down' = <<>> \o E BY <1>3 DEF Sequence, Reconnect, E
<1>6. After(<<>>, E, down') BY Zenon, <1>3, <1>5, NoneFacts, SequenceAfter
<1>7. Alone(<<>>, panel) BY DEF Alone
<1>8. Tracked(down', panel, server, Used) BY <1>1, <1>2, <1>6, <1>7, <1>4, ToldAnew
<1> QED BY <1>2, <1>8, TrackedReads

(* A failure that counts for one more. *)
LEMMA OutcomeTracked ==
  ASSUME NEW D, NEW F, NEW i \in DOMAIN D, D[i].kind = "reply", DOMAIN F = DOMAIN D,
         \A k \in DOMAIN D : k # i => F[k] = D[k],
         F[i].kind = "reply", F[i].call = D[i].call, F[i].answer.at = D[i].answer.at,
         NEW p, NEW s, NEW n \in Nat, Tracked(D, p, s, n)
  PROVE  Tracked(F, p, s, n + 1)
<1>1. /\ Base(p, Calls(D)) /\ Due(p) /\ Queue(D, p, s) /\ Alone(D, p) /\ Announced(D, p, s)
      /\ Affords(D, p, n) BY DEF Tracked, Held
<1>2. \A k \in DOMAIN D : Reads(F[k]) <=> Reads(D[k]) BY DEF Reads
<1>3. \A k \in DOMAIN D : Reads(D[k]) => F[k].call = D[k].call /\ F[k].answer.at = D[k].answer.at OBVIOUS
<1>4. \A k \in DOMAIN D : F[k].kind = D[k].kind /\ (D[k].kind = "event" => F[k] = D[k]) OBVIOUS
<1>5. \A k \in DOMAIN D : /\ Tells(F[k], p) <=> Tells(D[k], p)
                          /\ Tells(D[k], p) => F[k] = D[k]
                          /\ Ends(F[k], p) <=> Ends(D[k], p)
                          /\ Dated(F[k], p) <=> Dated(D[k], p)
                          /\ Dated(D[k], p) => F[k].answer.at = D[k].answer.at
 BY <1>2, <1>3, <1>4 DEF Tells, Ends, Dated
<1>6. Messages(F, p) BY <1>1, <1>2, <1>3, <1>4 DEF Queue, Messages
<1>7. EventsOrdered(F, p, s) BY <1>1, <1>5 DEF Queue, EventsOrdered
<1>8. AnswersOrdered(F, p) BY <1>1, <1>5 DEF Queue, AnswersOrdered
<1>9. Queue(F, p, s) /\ Announced(F, p, s) BY <1>1, <1>5, <1>6, <1>7, <1>8 DEF Queue, Announced
<1>10. Calls(F) = Calls(D)
 <2>1. \A c : c \in Calls(F) <=> c \in Calls(D) BY <1>2, <1>3, CallsOf
 <2> QED BY Zenon, <2>1
<1>11. Alone(F, p) BY <1>1, <1>2, <1>3 DEF Alone, Counted, Answered
<1>12. Affords(F, p, n + 1) BY <1>1, BaseNumbers, BaseOf, <1>5, <1>6 DEF Base, Timely, Affords, Messages, Tells
<1> QED BY <1>1, <1>9, <1>10, <1>11, <1>12 DEF Tracked, Held

(* A request fails. *)
LEMMA FailsReads ==
  ASSUME Inv, ReadInv, NEW i \in DOMAIN down, Fails(i)
  PROVE  ReadInv'
<1>1. up BY DownFacts
<1>2. Tracked(down, panel, server, Used) /\ Used \in Nat /\ Sequence(down) /\ up = TRUE BY <1>1, UpFacts
<1>3. Spends' /\ Used' = Used + 1 BY FaultyReads DEF Fails, ReadInv
<1>4. server' = server /\ panel' = panel /\ up' = up /\ down[i].kind = "reply"
      /\ down' = [down EXCEPT ![i].answer.ok = FALSE] BY DEF Fails
<1>5. Mail(panel, server, down[i]) BY DEF Inv, Mails, Range
<1>6. ReplyFits(down[i]) BY <1>4, <1>5 DEF Mail, EventFits
<1>7. /\ DOMAIN down' = DOMAIN down /\ (\A k \in DOMAIN down : k # i => down'[k] = down[k])
      /\ down'[i] = [down[i] EXCEPT !.answer.ok = FALSE] BY <1>2, <1>4 DEF Sequence
<1>8. down'[i].kind = "reply" /\ down'[i].call = down[i].call /\ down'[i].answer.at = down[i].answer.at
 <2> DEFINE m == down[i]
            a == [m.answer EXCEPT !.ok = FALSE]
 <2>1. a.at = m.answer.at BY <1>6 DEF ReplyFits
 <2>2. down'[i] = [m EXCEPT !.answer = a] BY <1>7
 <2> HIDE DEF a, m
 <2>3. m.kind = "reply" /\ DOMAIN m = {"kind", "call", "answer"} BY <1>6 DEF ReplyFits, m
 <2>4. down'[i].kind = "reply" /\ down'[i].call = m.call /\ down'[i].answer = a BY <2>2, <2>3
 <2> QED BY <2>1, <2>4 DEF m
<1>9. Tracked(down', panel, server, Used + 1) BY Zenon, <1>2, <1>4, <1>7, <1>8, OutcomeTracked
<1> QED BY <1>2, <1>3, <1>4, <1>9, TrackedReads

(* What the connection takes with it. *)
LEMMA RejectedFields ==
  ASSUME NEW p, Fits(p)
  PROVE  LET q == Rejected(Rested(p))
         IN /\ SourceKept(p, q) /\ DetailKept(p, q) /\ Unread(q) /\ q.asks = <<>>
            /\ q.source = p.source /\ q.readings = p.readings /\ q.reportSequence = p.reportSequence
<1> DEFINE r == Rested(p)
           q == Rejected(r)
<1>1. /\ SourceKept(p, r) /\ DetailKept(p, r) /\ r.asks = <<>> /\ Whole(r)
      /\ r.source = p.source /\ r.readings = p.readings /\ r.reportSequence = p.reportSequence
 BY RestedFields DEF Rested, Fits, Fields, Whole, ReportKept
<1> HIDE DEF r
<1>2. /\ q.asks = r.asks /\ q.reportRequest = None /\ q.reportSequence = r.reportSequence
      /\ q.source = r.source /\ q.readings = r.readings
      /\ q.status = r.status /\ q.data = r.data /\ q.conn = r.conn /\ q.pane = r.pane
      /\ q.sourceSequence = r.sourceSequence /\ q.sourceRequest = r.sourceRequest
      /\ q.sourceRefreshPending = r.sourceRefreshPending
      /\ q.detail = r.detail /\ q.selections = r.selections /\ q.body = r.body
      /\ q.detailSequence = r.detailSequence /\ q.detailRequest = r.detailRequest
      /\ q.detailRefreshPending = r.detailRefreshPending
      /\ q.context = r.context /\ q.unread = r.unread BY <1>1 DEF Rejected, Whole, Fields
<1> HIDE DEF q
<1>3. SourceKept(p, q) /\ DetailKept(p, q) /\ Unread(q) BY <1>1, <1>2 DEF SourceKept, DetailKept, Unread
<1> QED BY <1>1, <1>2, <1>3 DEF q, r

(* The connection drops. *)
LEMMA DisconnectReads ==
  ASSUME Inv, ReadInv, Disconnect
  PROVE  ReadInv'
<1> DEFINE W == Calls(down)
           p == Away(panel, "disconnected")
           l == Listener(panel, "disconnected", None)
           q == Rejected(Rested(l))
<1>1. /\ Tracked(down, panel, server, Used) /\ Used \in Nat /\ Fits(panel) /\ Base(panel, W)
      /\ panel.asks = <<>> BY UpFacts, PanelHeld DEF Disconnect
<1>2. Spends' /\ Used' = Used + 1 BY FaultyReads DEF Disconnect, ReadInv
<1>3. panel' = q /\ down' = <<>> /\ server' = server /\ up' = FALSE BY DEF Disconnect, Rested
<1>4. Handles(p, l, W, 0) /\ Base(p, W) /\ Weight(p) = p.sourceSequence BY <1>1, ListenerAway, AwayHolds
<1>5. /\ p.status = "disconnected" /\ p.conn = panel.conn
      /\ p.sourceSequence = (IF Current(panel) THEN panel.sourceSequence + 1 ELSE panel.sourceSequence)
 BY <1>1, AwayFields
<1> HIDE DEF p, l
<1>6. /\ Fits(l) /\ Base(l, W) /\ Weight(l) <= Weight(p) + 0 /\ l.status = "disconnected" /\ l.conn = panel.conn
 BY <1>4, <1>5 DEF Handles, Moves
<1>7. /\ SourceKept(l, q) /\ DetailKept(l, q) /\ Unread(q) /\ q.asks = <<>>
      /\ q.source = l.source /\ q.readings = l.readings /\ q.reportSequence = l.reportSequence
 BY <1>6, RejectedFields
<1> HIDE DEF q
<1>8. ~Current(l) /\ ~Current(q) /\ q.conn = panel.conn BY <1>6, <1>7 DEF Current, SourceKept
<1>9. Base(q, {}) /\ Due(q) /\ Weight(q) = Weight(l) BY <1>6, <1>7, <1>8, LostHolds
<1>10. Queue(<<>>, q, server) /\ Calls(<<>>) = {} BY Zenon, <1>1, <1>8, EmptyQueue DEF Tracked, Held, Queue, Clock
<1>11. Alone(<<>>, q) /\ Affords(<<>>, q, Used + 1) BY <1>8 DEF Alone, Affords
<1>12. Held(<<>>, q, server, FALSE) BY Zenon, <1>7, <1>8, <1>9, <1>10, <1>11 DEF Held
<1>13. q.sourceSequence + 2 <= 2 * (server.at + (Used + 1))
 <2>1. Weight(q) = q.sourceSequence /\ q.sourceSequence \in Nat
  BY <1>8, <1>9, NotCurrentFacts, BaseNumbers, BaseOf DEF Base
 <2>2. panel.sourceSequence + 1 <= 2 * (server.at + Used) /\ panel.sourceSequence \in Nat /\ server.at \in Nat
  BY <1>1, Budget
 <2>3. p.sourceSequence \in Nat /\ p.sourceSequence <= panel.sourceSequence + 1 BY <1>5, <2>2
 <2>4. q.sourceSequence <= p.sourceSequence BY <1>4, <1>6, <1>9, <2>1, <2>3
 <2> QED BY SMTT(30), <1>1, <2>1, <2>2, <2>3, <2>4
<1> QED BY Zenon, <1>2, <1>3, <1>11, <1>12, <1>13 DEF ReadInv

(* The panel that was released for another connection. *)
LEMMA ReleasedFields ==
  ASSUME NEW p, Fits(p), NEW n
  PROVE  LET q == Released(p, n)
         IN /\ Idling(q) /\ q.asks = p.asks /\ q.conn = n /\ q.source = p.source /\ q.readings = p.readings
            /\ q.sourceSequence = p.sourceSequence + 1 /\ q.detailSequence = p.detailSequence + 1
            /\ q.detail = None /\ q.report = p.report
            /\ q.reportSequence = p.reportSequence /\ q.reportRequest = p.reportRequest
<1> DEFINE s == Shut(p)
           r == Release(p)
           q == [r EXCEPT !.conn = n]
<1>1. /\ Whole(s) /\ s.asks = p.asks /\ s.source = p.source /\ s.readings = p.readings
      /\ s.sourceSequence = p.sourceSequence /\ s.detailSequence = p.detailSequence + 1
      /\ s.detail = None /\ s.report = p.report
      /\ s.reportSequence = p.reportSequence /\ s.reportRequest = p.reportRequest
 BY Zenon DEF Shut, Fits, Fields, Whole
<1>2. r = [s EXCEPT
     !.sourceSequence = @ + 1, !.pane = None, !.sourceRequest = None,
     !.sourceRefreshPending = FALSE, !.detailRequest = None, !.detailRefreshPending = FALSE,
     !.tool = None, !.status = "loading", !.data = None] BY DEF Release
<1> HIDE DEF s, r
<1>3. /\ Whole(r) /\ r.asks = s.asks /\ r.source = s.source /\ r.readings = s.readings
      /\ r.sourceSequence = s.sourceSequence + 1 /\ r.detailSequence = s.detailSequence
      /\ r.detail = s.detail /\ r.report = s.report /\ r.status = "loading"
      /\ r.reportSequence = s.reportSequence /\ r.reportRequest = s.reportRequest
      /\ r.sourceRequest = None /\ r.detailRequest = None /\ r.pane = None
       BY ZenonT(40), <1>1, <1>2 DEF Whole, Fields
<1>4. r.sourceRefreshPending = FALSE /\ r.detailRefreshPending = FALSE BY <1>1, <1>2 DEF Whole, Fields
<1>5. /\ q.asks = r.asks /\ q.source = r.source /\ q.readings = r.readings /\ q.conn = n
      /\ q.sourceSequence = r.sourceSequence /\ q.detailSequence = r.detailSequence
      /\ q.detail = r.detail /\ q.report = r.report /\ q.status = r.status
      /\ q.reportSequence = r.reportSequence /\ q.reportRequest = r.reportRequest
      /\ q.sourceRequest = r.sourceRequest /\ q.detailRequest = r.detailRequest /\ q.pane = r.pane
 BY <1>3 DEF Whole, Fields
<1>6. q.sourceRefreshPending = r.sourceRefreshPending /\ q.detailRefreshPending = r.detailRefreshPending
 BY <1>3 DEF Whole, Fields
<1> HIDE DEF q
<1>7. Idling(q) BY <1>3, <1>4, <1>5, <1>6 DEF Idling, Current
<1> QED BY <1>1, <1>3, <1>5, <1>7 DEF Released, q, r

(* Another user: the panel listens to another store. *)
LEMMA OtherUserReads ==
  ASSUME Inv, ReadInv, OtherUser
  PROVE  ReadInv'
<1> DEFINE W == Calls(down)
           q == Released(panel, panel.conn + 1)
           E == Event(server, q.conn)
<1>1. /\ Tracked(down, panel, server, Used) /\ Used \in Nat /\ Fits(panel) /\ Base(panel, W)
      /\ panel.asks = <<>> /\ Sequence(down) /\ up = TRUE BY UpFacts, PanelHeld DEF OtherUser
<1>2. Spends' /\ Used' = Used + 1 BY TurnReads DEF OtherUser, ReadInv
<1>3. /\ Idling(q) /\ q.asks = panel.asks /\ q.conn = panel.conn + 1
      /\ q.source = panel.source /\ q.readings = panel.readings
      /\ q.sourceSequence = panel.sourceSequence + 1 /\ q.detailSequence = panel.detailSequence + 1
      /\ q.detail = None /\ q.report = panel.report
      /\ q.reportSequence = panel.reportSequence /\ q.reportRequest = panel.reportRequest
 BY <1>1, ReleasedFields
<1>4. panel' = q /\ server' = server /\ up' = up /\ down' = down \o E
 BY <1>1, <1>3 DEF Fits, Fields, Release, Shut, OtherUser, Released
<1> HIDE DEF q
<1>5. panel.sourceSequence \in Nat /\ panel.detailSequence \in Nat BY <1>1, BaseNumbers, BaseOf DEF Base
<1>6. ReportHolds(q, W) BY <1>1, <1>3 DEF Base, ReportHolds, Under, OfReport
<1>7. Base(q, W) /\ Due(q) BY SMTT(30), <1>1, <1>3, <1>5, <1>6, IdlingHolds DEF Base, Timely
<1>8. ~Current(q) BY <1>3 DEF Idling
<1>9. Queue(down, q, server) /\ \A j \in DOMAIN down : ~Tells(down[j], q)
 BY <1>1, <1>3, <1>8, UnheardQueue DEF Tracked, Held
<1>10. Alone(down, q) BY <1>1, BaseBounded, <1>3, <1>5, AloneMoves DEF Tracked, Held
<1>11. q.sourceSequence + 2 <= 2 * (server.at + (Used + 1)) BY SMTT(30), <1>1, Budget, <1>3, <1>5
<1>12. Sequence(E) /\ Len(E) = 1 /\ Tells(E[1], q) /\ E[1].data.at = server.at BY EventTells
<1> HIDE DEF E
<1>13. Len(E) \in {1, 2} /\ Len(E) # 2 /\ Tells(E[Len(E)], q) /\ E[Len(E)].data.at = server.at BY <1>12
<1>14. After(down, E, down') BY <1>1, <1>4, <1>12, SequenceAfter
<1>15. q.asks = <<>> /\ Used + 1 \in Nat BY <1>1, <1>3
<1>16. Tracked(down', q, server, Used + 1) BY <1>7, <1>8, <1>9, <1>10, <1>11, <1>13, <1>14, <1>15, ToldAnew
<1> QED BY <1>1, <1>2, <1>4, <1>16, TrackedReads

(* Every read keeps the invariant. *)
LEMMA ReadNextReads ==
  ASSUME Inv, ReadInv, ReadNext
  PROVE  ReadInv'
<1>1. CASE \E page \in {"problems", "sources"} : OpenPage(page) BY <1>1, OpenPageReads
<1>2. CASE \E x \in Links : OpenLink(x) BY <1>2, OpenLinkReads
<1>3. CASE \E e \in {None} \cup {x.id : x \in {y \in Links : y.kind = "episode"}} : OpenReport(e)
 BY <1>3, OpenReportReads
<1>4. CASE RetryReport \/ MoreEvidence \/ Readings BY <1>4, RetryReportReads, MoreEvidenceReads, ReadingsReads
<1>5. CASE \E n \in Nodes : SelectSource(n) BY <1>5, SelectSourceReads
<1>6. CASE (\E e \in Episodes : Open("episode", e)) \/ (\E n \in Nodes : Open("node", n)) \/ Open("device", Device)
 BY <1>6, OpenReads
<1>7. CASE Close \/ OtherUser BY <1>7, CloseReads, OtherUserReads
<1>8. CASE \E e \in Episodes, kept \in BOOLEAN : IssueEnds(e, kept) BY <1>8, IssueReads
<1>9. CASE \E e \in Episodes : IssueOpens(e) BY <1>9, IssueReads
<1>10. CASE Expire \/ Reloads \/ Disconnect \/ Reconnect
 BY <1>10, ExpireReads, ReloadsReads, DisconnectReads, ReconnectReads
<1>11. CASE \E i \in DOMAIN down : Fails(i) BY <1>11, FailsReads
<1>12. CASE (\E i \in Ready : DeliverEvent(i)) \/ (\E i \in Ready : DeliverRead(i))
 BY <1>12, DeliverEventReads, DeliverReadReads
<1> QED BY <1>1, <1>2, <1>3, <1>4, <1>5, <1>6, <1>7, <1>8, <1>9, <1>10, <1>11, <1>12 DEF ReadNext

(* So does every step. *)
LEMMA NextReads ==
  ASSUME Inv, Inv', ReadInv, Next
  PROVE  ReadInv'
BY ReadNextReads, ActionReads, DeliverActionReads DEF Next

(* The panel as it is opened. *)
LEMMA InitReads == ReadInit => ReadInv
<1> SUFFICES ASSUME ReadInit PROVE ReadInv OBVIOUS
<1> PICK pending : panel = Fresh(pending) BY DEF ReadInit
<1> DEFINE E == Event(server, panel.conn)
<1>1. Inv BY InitInv
<1>2. /\ panel.status = "loading" /\ panel.conn = 1 /\ panel.readings = 0 /\ panel.pane = None
      /\ panel.source = (CHOOSE n \in Nodes : TRUE)
      /\ panel.sourceSequence = 0 /\ panel.sourceRequest = None
      /\ panel.detail = None /\ panel.detailSequence = 0 /\ panel.detailRequest = None
      /\ panel.reportSequence = 0 /\ panel.reportRequest = None /\ panel.asks = <<>> BY DEF Fresh
<1>3. panel.sourceRefreshPending = FALSE /\ panel.detailRefreshPending = FALSE BY DEF Fresh
<1>31. panel.sourceSequence \in Nat /\ panel.detailSequence \in Nat BY <1>2
<1>4. panel.source \in Nodes BY <1>2, PanelAssumption
<1>5. Idling(panel) BY <1>2, <1>3 DEF Idling, Current
<1> HIDE DEF E
<1>6. Under(panel, {}) = {} /\ DOMAIN panel.asks = {} BY <1>2, UnderNone
<1>7. SourceHolds(panel, {}) /\ DetailHolds(panel, {}) /\ ReportHolds(panel, {}) /\ Timely(panel)
 BY Zenon, <1>5, <1>2, <1>31, <1>4, <1>6 DEF PaneHolds, Idling, Honest, DialogHolds, SourceHolds,
  DetailHolds, ReportHolds, Timely
<1>8. Base(panel, {}) /\ Due(panel) BY <1>5, <1>7 DEF Base, Due, Caught, Shown, ReportAsked, Idling
<1>9. server.at = 1 /\ up = TRUE /\ Spends /\ Used = 0 BY DEF ReadInit, Spends, Used
<1>10. Queue(<<>>, panel, server) /\ Calls(<<>>) = {} BY <1>2, <1>5, <1>9, EmptyQueue DEF Clock, Idling
<1>11. Sequence(E) /\ Len(E) = 1 /\ Tells(E[1], panel) /\ E[1].data.at = server.at BY Zenon, EventTells DEF E
<1>12. Len(E) \in {1, 2} /\ Len(E) # 2 /\ Tells(E[Len(E)], panel) /\ E[Len(E)].data.at = server.at BY <1>11
<1>13. down = <<>> \o E BY <1>11, <1>2 DEF Sequence, ReadInit, E
<1>14. After(<<>>, E, down) BY Zenon, <1>11, <1>13, NoneFacts, SequenceAfter
<1>15. Alone(<<>>, panel) /\ ~Current(panel) /\ panel.asks = <<>> BY <1>2, <1>5 DEF Alone, Idling
<1>16. panel.sourceSequence + 2 <= 2 * (server.at + Used) /\ Used \in Nat BY <1>2, <1>9
<1>17. Base(panel, Calls(<<>>)) BY Zenon, <1>8, <1>10
<1>18. \A j \in DOMAIN <<>> : ~Tells(<<>>[j], panel) OBVIOUS
<1>19. Tracked(down, panel, server, Used) BY <1>8, <1>10, <1>12, <1>14, <1>15, <1>16, <1>17, <1>18, ToldAnew
<1> QED BY Zenon, <1>9, <1>15, <1>19 DEF ReadInv, Tracked

(* Reads that overlap end, and end up to date: what the panel shows when   *)
(* nothing is under way is the evidence it has, and refreshes are as few   *)
(* as what happened calls for.                                             *)
LEMMA ReadInvSettles == Inv /\ ReadInv => ReadsSettle
<1> SUFFICES ASSUME Inv, ReadInv PROVE ReadsSettle OBVIOUS
<1>1. Base(panel, Calls(down)) /\ Due(panel) /\ Used \in Nat /\ panel.asks = <<>>
 BY PanelHeld, UsedType DEF ReadInv
<1>2. ReadsBounded
 <2>1. CASE up BY SMTT(30), <2>1, UpFacts, Budget, <1>1 DEF Used, ReadInv, Spends, ReadsBounded
 <2>2. CASE ~up BY <2>2, DownFacts, <1>1 DEF Used, ReadInv, Spends, ReadsBounded
 <2> QED BY <2>1, <2>2
<1>3. ASSUME up, down = <<>>, Current(panel)
      PROVE  /\ panel.detail # None => /\ panel.body # None
                                       /\ panel.data.at \in {panel.body.at, panel.unread}
             /\ panel.page = "sources" => PaneCaughtUp(panel)
             /\ panel.report # None => panel.reportStatus # "loading"
 <2>1. Calls(down) = {} BY <1>3, EmptyQueue, UpFacts DEF Tracked, Held, Queue
 <2>2. Under(panel, Calls(down)) = {} BY <1>1, <2>1, UnderNone
 <2>3. panel.sourceRequest = None /\ panel.detailRequest = None /\ panel.reportRequest = None
  BY <1>1, <2>2 DEF Base, SourceHolds, DetailHolds, ReportHolds
 <2>4. panel.detail # None => panel.body # None /\ panel.data.at \in {panel.body.at, panel.unread}
  BY <1>1, <1>3, <2>3 DEF Due, Shown, Told
 <2>5. panel.page = "sources" => PaneCaughtUp(panel)
  <3> SUFFICES ASSUME panel.page = "sources" PROVE PaneCaughtUp(panel) OBVIOUS
  <3>1. /\ panel.pane # None /\ panel.pane.node = panel.source /\ panel.pane.stamp = Stamp(panel)
   BY <1>1, <1>3, <2>3 DEF Due, Caught
  <3>2. /\ PaneHolds(panel) /\ Timely(panel) BY <1>1, BaseOf
  <3>3. ~panel.pane.loading /\ ~panel.pane.more /\ panel.pane \in Panes /\ Honest(panel, panel.pane)
   BY <2>3, <3>1, <3>2 DEF PaneHolds
  <3>4. Stamp(panel) # <<>> /\ Stamp(panel)[1] = panel.data.at BY <1>3, <3>2, StampType
  <3>5. panel.pane.failed \/ panel.pane.pages = {panel.data.at} BY <3>1, <3>3, <3>4 DEF Honest
  <3>6. panel.pane.failed \/ panel.pane.stamp[2] = panel.readings BY <3>1, <3>5 DEF Loaded, Previous, Stamp
  <3> QED BY <3>1, <3>3, <3>5, <3>6 DEF PaneCaughtUp
 <2>6. panel.report # None => panel.reportStatus # "loading" BY <1>1, <1>3, <2>3 DEF Due, ReportAsked
 <2> QED BY <2>4, <2>5, <2>6
<1>4. NothingLost BY <1>3 DEF NothingLost
<1> QED BY <1>2, <1>4 DEF ReadsSettle

(* Overlapping reads end, and end up to date: when nothing is under way,   *)
(* the dialog, the source and the report show the latest evidence the      *)
(* panel has, and no more reads of a source were made than the             *)
(* publications, faults and clicks account for.                            *)
THEOREM ReadsAreSettled == Spec => []ReadsSettle
<1>1. ReadInit => ReadInv BY InitReads
<1>2. Inv /\ Inv' /\ ReadInv /\ [Next]_vars => ReadInv'
 <2>1. CASE UNCHANGED vars
  BY <2>1 DEF vars, ReadInv, Used, Spends, Held, Base, Due, Queue, Announced, Alone, Affords
 <2> QED BY <2>1, NextReads
<1>3. Inv /\ ReadInv => ReadsSettle BY ReadInvSettles
<1> QED BY <1>1, <1>2, <1>3, PanelInv, PTL DEF Spec
=============================================================================
