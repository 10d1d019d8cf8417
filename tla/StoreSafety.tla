----------------------------- MODULE StoreSafety -----------------------------
(***************************************************************************)
(* Proofs about DashboardStore for any cards, catalogs, page sizes and     *)
(* bounds: what the panel shows is one publication of the server, however  *)
(* reads, deltas, subscriptions and faults overlap, and only faults are    *)
(* reported.  The predicates take the server, what it published, the       *)
(* subscriptions, the store and the messages under way as parameters: what *)
(* an operator of the store keeps is then a statement about one store and  *)
(* one queue.                                                              *)
(***************************************************************************)
EXTENDS DashboardStore, FiniteSetTheorems, WellFoundedInduction, TLAPS

-----------------------------------------------------------------------------
(* Types *)

Statuses == {"loading", "current", "disconnected", "unavailable", "error"}
Codes == {"fault", "lost", "not_ready", "stale_catalog"}

Id == IdsOf(AllRows)

Difference == [upsert: SUBSET AllRows, remove: SUBSET Id]
Delta == [from: Nat, changes: [Sections -> Difference]]

Server ==
  [available: BOOLEAN, revision: 0 .. MaxRevision, content: [Sections -> Seq(AllRows)],
   indexed: BOOLEAN, delta: Delta \cup {None}, evidence: Evidence]

Summaries ==
  [available: BOOLEAN, revision: 0 .. MaxRevision, delta: Delta \cup {None},
   totals: [Sections -> Nat], evidence: Evidence, context: [Sections -> SUBSET AllRows]]

Key == [section: Sections, offset: Nat]

Read ==
  [id: Nat \ {0}, token: Nat, revision: Nat, pages: Seq(Key), next: Nat \ {0},
   asked: SUBSET Nat, settled: BOOLEAN, got: [Sections -> SUBSET AllRows]]

Answer == [ok: {TRUE}, revision: Nat, items: SUBSET AllRows] \cup [ok: {FALSE}, code: Codes]

Settled == [task: Nat, page: Nat, answer: Answer]

PageMessage == [kind: {"page"}, task: Nat, page: Nat, answer: Answer]

Message ==
  [kind: {"event"}, generation: Nat, summary: Summaries]
    \cup [kind: {"result", "refused"}, generation: Nat]
    \cup [kind: {"invalid"}, generation: Nat, version: BOOLEAN]
    \cup PageMessage

Asked == [task: Read, page: Nat]

Store ==
  [active: BOOLEAN, generation: Nat, catalog: Nat, status: Statuses,
   data: Views \cup {None, Unavailable}, baseline: Views \cup {None},
   error: {None, "fault"}, wanted: BOOLEAN, task: Nat, reads: SUBSET Read,
   unsubscribe: Nat \cup {None}, micro: Seq(Settled), out: Seq(Asked)]

Subscription == [generation: Nat, stage: {"sent", "live"}]

-----------------------------------------------------------------------------
(* The server: a revision stands for one catalog while the server runs.    *)

Revisions == 0 .. MaxRevision

DeltaFits(pub, d, r) ==
  /\ d.from \in Revisions /\ pub[d.from] \in Contents /\ pub[r] \in Contents
  /\ Representable(pub[d.from], pub[r])
  /\ d.changes = Changes(pub[d.from], pub[r])

ServerFits(sv, pub) ==
  /\ sv \in Server
  /\ pub \in [Revisions -> Contents \cup {None}]
  /\ sv.indexed = sv.available
  /\ sv.available => sv.content \in Contents /\ pub[sv.revision] = sv.content
  /\ \A r \in Revisions : r > sv.revision => pub[r] = None
  /\ sv.delta # None => DeltaFits(pub, sv.delta, sv.revision)

-----------------------------------------------------------------------------
(* The view *)

Lengths(pub, r) == [s \in Sections |-> Len(pub[r][s])]

Whole(pub, b) == \A s \in Sections : b.rows[s] = RowsOf(pub[b.revision][s])

Older(pub, b) ==
  \E r \in 0 .. b.revision :
    /\ pub[r] # None
    /\ \A s \in Sections : IdsOf(RowsOf(pub[r][s])) \subseteq IdsOf(b.rows[s])

ViewFits(sv, pub, b) ==
  /\ b \in Views
  /\ b.revision <= sv.revision /\ pub[b.revision] \in Contents
  /\ b.totals = Lengths(pub, b.revision)
  /\ b.stale => b.loaded /\ Older(pub, b)
  /\ b.loaded /\ ~b.stale => Whole(pub, b)

(* A current store shows its baseline; any other has none, so that its     *)
(* next event is news.                                                     *)
ShownFits(sv, pub, st) ==
  IF st.status = "current"
  THEN st.active /\ ViewFits(sv, pub, st.baseline) /\ st.data = st.baseline
  ELSE st.baseline = None

-----------------------------------------------------------------------------
(* Subscriptions: the store of a view is subscribed, what it hears comes   *)
(* from a live subscription, and a live one is owned or its result is on   *)
(* its way.                                                                *)

LiveIn(ss, g) == \E s \in ss : s.stage = "live" /\ s.generation = g

SubsFit(ss, st, q) ==
  /\ IsFiniteSet(ss) /\ ss \subseteq Subscription
  /\ \A s, u \in ss : s.generation = u.generation => s = u
  /\ \A s \in ss : s.generation <= st.generation /\ (s.generation = st.generation => st.active)
  /\ st.unsubscribe # None => st.active /\ st.unsubscribe = st.generation
  /\ st.status = "current" => LiveIn(ss, st.generation)
  /\ \A i \in DOMAIN q : q[i].kind # "page" => q[i].generation <= st.generation
  /\ \A i \in DOMAIN q : q[i].kind \notin {"page", "refused"} /\ q[i].generation = st.generation =>
       LiveIn(ss, st.generation)
  /\ \A i \in DOMAIN q : q[i].kind = "refused" =>
       \A s \in ss : s.generation # q[i].generation
  /\ \A s \in ss : s.stage = "live" =>
       \/ s.generation = st.generation /\ st.unsubscribe = s.generation
       \/ \E i \in DOMAIN q : q[i].kind = "result" /\ q[i].generation = s.generation

-----------------------------------------------------------------------------
(* Events: in the order of the revisions, and the last one for the store   *)
(* tells what the server publishes now.                                    *)

SummaryFits(sv, pub, p) ==
  /\ p.revision <= sv.revision
  /\ p.available => /\ pub[p.revision] \in Contents
                    /\ p.totals = Lengths(pub, p.revision)
                    /\ p.delta # None => DeltaFits(pub, p.delta, p.revision)

IsNews(m, g) == m.kind = "event" /\ m.generation = g

Tells(sv, m, g) ==
  /\ IsNews(m, g)
  /\ m.summary.available = sv.available /\ m.summary.revision = sv.revision

EventsFit(sv, pub, st, q) ==
  /\ \A i \in DOMAIN q : q[i].kind = "event" => SummaryFits(sv, pub, q[i].summary)
  /\ \A i, j \in DOMAIN q : i < j /\ q[i].kind = "event" /\ q[j].kind = "event" =>
       q[i].summary.revision <= q[j].summary.revision
  /\ st.status = "current" =>
       \A i \in DOMAIN q : q[i].kind = "event" => st.baseline.revision <= q[i].summary.revision
  /\ st.status = "current" =>
       \/ sv.available /\ sv.revision = st.baseline.revision
       \/ \E j \in DOMAIN q : Tells(sv, q[j], st.generation)
  /\ \A i \in DOMAIN q : IsNews(q[i], st.generation) =>
       \E j \in DOMAIN q : i <= j /\ Tells(sv, q[j], st.generation)

-----------------------------------------------------------------------------
(* Reads: the pages a current read asked for and no longer waits for are   *)
(* in what it got, and nothing else is.                                    *)

Items(pub, t, k) == PageItems(t.pages[k], pub[t.revision][t.pages[k].section])

AnswerFits(pub, t, k, a) ==
  IF a.ok THEN a.revision = t.revision /\ a.items = Items(pub, t, k) ELSE a.code = "fault"

Holds(st, id, k) == \E i \in DOMAIN st.micro : st.micro[i].task = id /\ st.micro[i].page = k

Waits(st, id) == \E i \in DOMAIN st.micro : st.micro[i].task = id

Collected(pub, st, t) ==
  /\ \A k \in 1 .. t.next - 1 : k \notin t.asked /\ ~Holds(st, t.id, k) =>
       Items(pub, t, k) \subseteq t.got[t.pages[k].section]
  /\ \A s \in Sections : t.got[s] \subseteq RowsOf(pub[t.revision][s])
  /\ t.asked = {} /\ ~Waits(st, t.id) => t.next = Len(t.pages) + 1

Going(pub, st, t) ==
  /\ t.revision = st.baseline.revision
  /\ t.pages = PagesOf(Lengths(pub, t.revision))
  /\ ~t.settled => Collected(pub, st, t)

ReadFits(pub, st, t) ==
  /\ t.token <= st.catalog
  /\ t.next <= Len(t.pages) + 1 /\ t.asked \subseteq 1 .. t.next - 1
  /\ Current(st, t) => Going(pub, st, t)

MicroFits(pub, st, m) ==
  \E t \in st.reads :
    /\ t.id = m.task /\ m.page \in 1 .. t.next - 1
    /\ Current(st, t) => AnswerFits(pub, t, m.page, m.answer)

ReadsFit(pub, st) ==
  /\ IsFiniteSet(st.reads)
  /\ \A t, u \in st.reads : t.id = u.id => t = u
  /\ \A t \in st.reads : ReadFits(pub, st, t)
  /\ \A i \in DOMAIN st.micro : MicroFits(pub, st, st.micro[i])

TaskFits(st) == st.task # NoTask => \E t \in st.reads : t.id = st.task /\ ~t.settled

-----------------------------------------------------------------------------
(* Pages under way: each answers a request of its own, as of the revision  *)
(* of the read, or comes after an event that makes the read obsolete.      *)

Moves(st, m) ==
  /\ IsNews(m, st.generation)
  /\ ~m.summary.available \/ m.summary.revision # st.baseline.revision

MailFits(pub, st, q) ==
  /\ \A i \in DOMAIN q : q[i].kind = "page" => \E t \in st.reads :
       /\ t.id = q[i].task /\ q[i].page \in t.asked
       /\ Current(st, t) => \/ AnswerFits(pub, t, q[i].page, q[i].answer)
                            \/ \E j \in DOMAIN q : j < i /\ Moves(st, q[j])
  /\ \A i, j \in DOMAIN q :
       /\ q[i].kind = "page" /\ q[j].kind = "page"
       /\ q[i].task = q[j].task /\ q[i].page = q[j].page
       => i = j

Fits(sv, pub, ss, st, q) ==
  /\ st \in Store /\ q \in Seq(Message)
  /\ ShownFits(sv, pub, st)
  /\ SubsFit(ss, st, q)
  /\ EventsFit(sv, pub, st, q)
  /\ ReadsFit(pub, st)
  /\ MailFits(pub, st, q)

CardsFit(c) ==
  /\ c \in [listening: SUBSET Cards, viewing: SUBSET Cards, check: BOOLEAN]
  /\ c.viewing \subseteq c.listening

(* Between two steps nothing is left to send. *)
StoreFits ==
  /\ Fits(server, published, subs, store, down)
  /\ TaskFits(store) /\ store.out = <<>>

(* The inductive invariant. *)
IInv ==
  /\ CardsFit(cards)
  /\ ServerFits(server, published)
  /\ StoreFits

-----------------------------------------------------------------------------
(* Sequences and numbers *)

(* A finite set as a sequence: nothing else, and every element.            *)
LEMMA SetToSeqFacts ==
  ASSUME NEW S, IsFiniteSet(S)
  PROVE  SetToSeq(S) \in Seq(S) /\ \A x \in S : \E i \in DOMAIN SetToSeq(S) : SetToSeq(S)[i] = x
<1> DEFINE D == 1 .. Cardinality(S)
           q == SetToSeq(S)
<1>1. Cardinality(S) \in Nat /\ ExistsBijection(D, S) BY FS_CardinalityType
<1>2. PICK f : f \in Bijection(D, S) BY <1>1 DEF ExistsBijection
<1>3. f \in [D -> S] /\ IsInjective(f) BY <1>2 DEF Bijection, Injection, IsInjective
<1>4. q \in [D -> S] /\ IsInjective(q) BY <1>3 DEF SetToSeq
<1> HIDE DEF q
<1>5. q \in Seq(S) BY <1>1, <1>4
<1>6. IsFiniteSet(D) /\ Cardinality(D) = Cardinality(S) BY <1>1, FS_Interval
<1>7. q \in Injection(D, S) BY <1>4 DEF IsInjective, Injection
<1>8. q \in Surjection(D, S) BY <1>6, <1>7, FS_Injection
<1> QED BY <1>4, <1>5, <1>8 DEF Surjection, q

(* The order of the numbers, as a relation.                                *)
Less == OpToRel(<, Nat)

(* A nonempty set of numbers has a least one.                              *)
LEMMA LeastNumber ==
  ASSUME NEW T, T \subseteq Nat, T # {}
  PROVE  \E x \in T : \A y \in T : x <= y
<1>1. IsWellFoundedOn(Less, Nat) BY NatLessThanWellFounded DEF Less
<1>2. PICK x \in T : \A y \in T : ~ (<<y, x>> \in Less) BY <1>1, WFMin
<1>3. \A y \in T : ~ (y < x) BY <1>2 DEF Less, OpToRel
<1> QED BY <1>3

(* The elements of two sequences after one another, and of one without its *)
(* first.                                                                  *)
LEMMA ConcatFacts ==
  ASSUME NEW R, NEW a \in Seq(R), NEW b \in Seq(R)
  PROVE  /\ a \o b \in Seq(R)
         /\ Len(a \o b) = Len(a) + Len(b)
         /\ \A i \in 1 .. Len(a) : (a \o b)[i] = a[i]
         /\ \A i \in Len(a) + 1 .. Len(a) + Len(b) : (a \o b)[i] = b[i - Len(a)]
  OBVIOUS

(* A sequence without its first element.                                   *)
LEMMA TailFacts ==
  ASSUME NEW R, NEW q \in Seq(R), q # <<>>
  PROVE  /\ Tail(q) \in Seq(R) /\ Len(Tail(q)) = Len(q) - 1 /\ Len(q) \in Nat \ {0}
         /\ Head(q) = q[1] /\ q[1] \in R
         /\ \A i \in DOMAIN Tail(q) : i + 1 \in DOMAIN q /\ Tail(q)[i] = q[i + 1]
         /\ \A j \in DOMAIN q : j = 1 \/ (j - 1 \in DOMAIN Tail(q) /\ Tail(q)[j - 1] = q[j])
  OBVIOUS

-----------------------------------------------------------------------------
(* Rows and pages *)

(* What the assumption says of one catalog.                                *)
LEMMA CatalogFacts ==
  ASSUME NEW c \in Contents, NEW s \in Sections
  PROVE  /\ c[s] \in Seq(AllRows) /\ RowsOf(c[s]) \subseteq AllRows
         /\ \A x, y \in RowsOf(c[s]) : x.id = y.id => x = y
<1>1. c[s] \in Seq(AllRows) /\ \A i, j \in DOMAIN c[s] : c[s][i].id = c[s][j].id => i = j
  BY CatalogAssumption
<1> QED BY <1>1 DEF RowsOf

(* A page has rows of its section only.                                    *)
LEMMA PageWithin ==
  ASSUME NEW R, NEW rows \in Seq(R), NEW k, k.offset \in Nat
  PROVE  PageItems(k, rows) \subseteq RowsOf(rows)
<1> DEFINE o == k.offset
           m == IF o + PageRows < Len(rows) THEN o + PageRows ELSE Len(rows)
           part == SubSeq(rows, o + 1, m)
<1>1. PageRows \in Nat \ {0} /\ o \in Nat /\ Len(rows) \in Nat BY CatalogAssumption
<1>2. m \in Nat /\ m <= Len(rows) BY <1>1
<1>3. PageItems(k, rows) = RowsOf(part) BY DEF PageItems
<1> HIDE DEF o, m
<1>4. \A i \in DOMAIN part : o + i \in DOMAIN rows /\ part[i] = rows[o + i] BY <1>1, <1>2
<1> QED BY <1>3, <1>4 DEF RowsOf

(* And all those of its range.                                             *)
LEMMA PageHas ==
  ASSUME NEW R, NEW rows \in Seq(R), NEW k, k.offset \in Nat,
         NEW i \in 1 .. Len(rows), k.offset < i, i <= k.offset + PageRows
  PROVE  rows[i] \in PageItems(k, rows)
<1> DEFINE o == k.offset
           m == IF o + PageRows < Len(rows) THEN o + PageRows ELSE Len(rows)
           part == SubSeq(rows, o + 1, m)
<1>1. PageRows \in Nat \ {0} /\ o \in Nat /\ Len(rows) \in Nat BY CatalogAssumption
<1>2. m \in Nat /\ m <= Len(rows) /\ i <= m /\ o < i BY <1>1
<1>3. PageItems(k, rows) = RowsOf(part) BY DEF PageItems
<1> HIDE DEF o, m
<1>4. i - o \in DOMAIN part /\ part[i - o] = rows[i] BY <1>1, <1>2
<1> QED BY <1>3, <1>4 DEF RowsOf

(* Every number up to a length falls into one page that starts before it.  *)
LEMMA PageOf ==
  ASSUME NEW n \in Nat, NEW i \in 1 .. n
  PROVE  \E j \in 0 .. n : j * PageRows \in Nat /\ j * PageRows < n
                           /\ j * PageRows < i /\ i <= j * PageRows + PageRows
<1> DEFINE T == {j \in Nat : i <= j * PageRows + PageRows}
<1>1. PageRows \in Nat /\ 1 <= PageRows BY CatalogAssumption
<1>2. \A j \in Nat : j * PageRows \in Nat /\ j <= j * PageRows
                     /\ (j + 1) * PageRows = j * PageRows + PageRows
  BY <1>1
<1>3. i \in T BY <1>1, <1>2
<1>4. PICK j \in T : \A y \in T : j <= y BY <1>3, LeastNumber
<1>5. j * PageRows < i
 <2>1. CASE j = 0 BY <1>1, <2>1
 <2>2. CASE j # 0
  <3>1. j - 1 \in Nat /\ (j - 1) + 1 = j BY <2>2
  <3>2. ~ (i <= (j - 1) * PageRows + PageRows) BY <1>4, <3>1
  <3>3. j * PageRows = (j - 1) * PageRows + PageRows /\ (j - 1) * PageRows \in Nat BY <1>2, <3>1
  <3> QED BY <1>1, <3>2, <3>3
 <2> QED BY <2>1, <2>2
<1>6. j <= i /\ j * PageRows \in Nat BY <1>2, <1>5
<1> QED BY <1>4, <1>5, <1>6

(* The pages of a read: as many as its list, each of a section, and every  *)
(* row of every section on one of them.                                    *)
LEMMA PagesFacts ==
  ASSUME NEW totals \in [Sections -> Nat]
  PROVE  /\ PagesOf(totals) \in Seq(Key)
         /\ \A s \in Sections : \A i \in 1 .. totals[s] :
              \E k \in DOMAIN PagesOf(totals) :
                /\ PagesOf(totals)[k].section = s
                /\ PagesOf(totals)[k].offset \in Nat
                /\ PagesOf(totals)[k].offset < i
                /\ i <= PagesOf(totals)[k].offset + PageRows
<1> DEFINE N(s) == {j \in 0 .. totals[s] : j * PageRows < totals[s]}
           P(s) == {[section |-> s, offset |-> i * PageRows] : i \in N(s)}
           F == {P(s) : s \in Sections}
           S == UNION F
<1>1. PageRows \in Nat /\ \A j \in Nat : j * PageRows \in Nat BY CatalogAssumption
<1>2. ASSUME NEW s \in Sections PROVE IsFiniteSet(P(s)) /\ P(s) \subseteq Key
 <2>1. IsFiniteSet(0 .. totals[s]) BY FS_Interval
 <2>2. IsFiniteSet(N(s)) BY <2>1, FS_Subset
 <2> DEFINE page(i) == [section |-> s, offset |-> i * PageRows]
            f == [i \in N(s) |-> page(i)]
 <2>3. f \in Surjection(N(s), P(s)) BY DEF Surjection
 <2>4. IsFiniteSet(P(s)) BY <2>2, <2>3, FS_Surjection
 <2>5. P(s) \subseteq Key BY <1>1 DEF Key
 <2> QED BY <2>4, <2>5
<1>3. IsFiniteSet(F)
 <2> HIDE DEF P
 <2> DEFINE f == [s \in Sections |-> P(s)]
 <2>1. f \in Surjection(Sections, F) BY DEF Surjection
 <2> QED BY <2>1, FS_Surjection, CatalogAssumption
<1>4. IsFiniteSet(S) BY <1>2, <1>3, FS_UNION
<1>5. S \subseteq Key BY <1>2
<1>6. PagesOf(totals) = SetToSeq(S) BY DEF PagesOf
<1> HIDE DEF S
<1>7. SetToSeq(S) \in Seq(S) /\ \A x \in S : \E k \in DOMAIN SetToSeq(S) : SetToSeq(S)[k] = x
  BY <1>4, SetToSeqFacts
<1>8. PagesOf(totals) \in Seq(Key) BY <1>5, <1>6, <1>7
<1>9. ASSUME NEW s \in Sections, NEW i \in 1 .. totals[s]
      PROVE  \E k \in DOMAIN PagesOf(totals) :
                /\ PagesOf(totals)[k].section = s
                /\ PagesOf(totals)[k].offset \in Nat
                /\ PagesOf(totals)[k].offset < i
                /\ i <= PagesOf(totals)[k].offset + PageRows
 <2>1. totals[s] \in Nat OBVIOUS
 <2>2. PICK j \in 0 .. totals[s] :
         j * PageRows \in Nat /\ j * PageRows < totals[s]
         /\ j * PageRows < i /\ i <= j * PageRows + PageRows
   BY <2>1, PageOf
 <2>3. [section |-> s, offset |-> j * PageRows] \in S BY <2>2 DEF S
 <2>4. PICK k \in DOMAIN SetToSeq(S) :
         SetToSeq(S)[k] = [section |-> s, offset |-> j * PageRows]
   BY <1>7, <2>3
 <2> QED BY <1>6, <2>2, <2>4
<1> QED BY <1>8, <1>9

(* All pages together are the section.                                     *)
LEMMA PagesCover ==
  ASSUME NEW c \in Contents, NEW s \in Sections, NEW pages,
         pages = PagesOf([x \in Sections |-> Len(c[x])])
  PROVE  \A r \in RowsOf(c[s]) : \E k \in DOMAIN pages :
           pages[k].section = s /\ r \in PageItems(pages[k], c[s])
<1> DEFINE totals == [x \in Sections |-> Len(c[x])]
<1>1. totals \in [Sections -> Nat] /\ c[s] \in Seq(AllRows) /\ totals[s] = Len(c[s]) BY CatalogFacts
<1> HIDE DEF totals
<1>2. pages = PagesOf(totals) BY DEF totals
<1> SUFFICES ASSUME NEW r \in RowsOf(c[s])
             PROVE  \E k \in DOMAIN pages :
                      pages[k].section = s /\ r \in PageItems(pages[k], c[s])
  OBVIOUS
<1>3. PICK i \in 1 .. Len(c[s]) : r = c[s][i] BY <1>1 DEF RowsOf
<1>4. PICK k \in DOMAIN pages :
        /\ pages[k].section = s /\ pages[k].offset \in Nat
        /\ pages[k].offset < i /\ i <= pages[k].offset + PageRows
 <2>1. i \in 1 .. totals[s] BY <1>1
 <2> HIDE <1>3
 <2>2. \E k \in DOMAIN PagesOf(totals) :
         /\ PagesOf(totals)[k].section = s /\ PagesOf(totals)[k].offset \in Nat
         /\ PagesOf(totals)[k].offset < i /\ i <= PagesOf(totals)[k].offset + PageRows
   BY <1>1, <2>1, PagesFacts
 <2> QED BY <1>2, <2>2
<1>5. r \in PageItems(pages[k], c[s]) BY <1>1, <1>3, <1>4, PageHas
<1> QED BY <1>4, <1>5

-----------------------------------------------------------------------------
(* Deltas and overlays *)

(* A change laid over the rows it starts from gives the rows it leads to.  *)
LEMMA PatchGives ==
  ASSUME NEW a \in Contents, NEW b \in Contents, Representable(a, b), NEW s \in Sections
  PROVE  PatchRows(RowsOf(a[s]), Changes(a, b)[s]) = RowsOf(b[s])
<1> DEFINE A == RowsOf(a[s])
           B == RowsOf(b[s])
           c == Change(s, a[s], b[s])
<1>1. Changes(a, b)[s] = c BY DEF Changes
<1>2. /\ \A x, y \in A : x.id = y.id => x = y
      /\ \A x, y \in B : x.id = y.id => x = y
  BY CatalogFacts
<1>3. c.upsert = B \ A BY DEF Change
<1>4. CASE s = History
 <2>1. c.remove = {} BY <1>4 DEF Change
 <2>2. A \subseteq B
  <3>1. IsPrefix(a[s], b[s]) BY <1>4 DEF Representable
  <3>2. a[s] \in Seq(AllRows) /\ b[s] \in Seq(AllRows) BY CatalogFacts
  <3>3. Len(a[s]) <= Len(b[s]) /\ SubSeq(a[s], 1, Len(a[s])) = SubSeq(b[s], 1, Len(a[s]))
    BY <3>1 DEF IsPrefix
  <3>4. \A i \in 1 .. Len(a[s]) : a[s][i] = b[s][i] /\ i \in 1 .. Len(b[s])
   <4> TAKE i \in 1 .. Len(a[s])
   <4>1. SubSeq(a[s], 1, Len(a[s]))[i] = a[s][i] /\ SubSeq(b[s], 1, Len(a[s]))[i] = b[s][i]
     BY <3>2, <3>3
   <4> QED BY <3>2, <3>3, <4>1
  <3> QED BY <3>2, <3>4 DEF RowsOf
 <2>3. PatchRows(A, c) = B BY <1>2, <1>3, <2>1, <2>2 DEF PatchRows, IdsOf
 <2> QED BY <1>1, <2>3
<1>5. CASE s # History
 <2>1. c.remove = IdsOf(A) \ IdsOf(B) BY <1>5 DEF Change
 <2>2. PatchRows(A, c) = B
  <3>1. ASSUME NEW r \in PatchRows(A, c) PROVE r \in B
    BY <1>2, <1>3, <2>1, <3>1 DEF PatchRows, IdsOf
  <3>2. ASSUME NEW r \in B PROVE r \in PatchRows(A, c)
    BY <1>2, <1>3, <2>1, <3>2 DEF PatchRows, IdsOf
  <3> QED BY <3>1, <3>2
 <2> QED BY <1>1, <2>2
<1> QED BY <1>4, <1>5

(* An overlay keeps every entry.                                           *)
LEMMA OverlayKeeps ==
  ASSUME NEW saved, NEW now
  PROVE  IdsOf(saved) \subseteq IdsOf(Overlay(saved, now))
  BY DEF IdsOf, Overlay

(* Changes between catalogs are what deltas are made of.                   *)
LEMMA ChangesType ==
  ASSUME NEW a \in [Sections -> Seq(AllRows)], NEW b \in [Sections -> Seq(AllRows)]
  PROVE  Changes(a, b) \in [Sections -> Difference]
<1>1. ASSUME NEW s \in Sections PROVE Change(s, a[s], b[s]) \in Difference
 <2>1. RowsOf(a[s]) \subseteq AllRows /\ RowsOf(b[s]) \subseteq AllRows
  <3>1. a[s] \in Seq(AllRows) /\ b[s] \in Seq(AllRows) OBVIOUS
  <3> QED BY <3>1 DEF RowsOf
 <2>2. IdsOf(RowsOf(a[s])) \subseteq Id BY <2>1 DEF Id, IdsOf
 <2> QED BY <2>1, <2>2 DEF Change, Difference
<1> QED BY <1>1 DEF Changes

(* The entry of a summary is a view.                                       *)
LEMMA EntryType ==
  ASSUME NEW p, p.revision \in Nat, p.totals \in [Sections -> Nat], p.evidence \in Evidence,
         NEW loaded \in BOOLEAN, NEW stale \in BOOLEAN, NEW rows \in [Sections -> SUBSET AllRows]
  PROVE  Entry(p, loaded, stale, rows) \in Views
  BY DEF Entry, Views

(* What the entry of a summary holds.                                      *)
LEMMA EntryIs ==
  ASSUME NEW p, NEW loaded, NEW stale, NEW rows
  PROVE  LET b == Entry(p, loaded, stale, rows)
         IN /\ b.available = TRUE /\ b.loaded = loaded /\ b.stale = stale /\ b.rows = rows
            /\ b.revision = p.revision /\ b.totals = p.totals /\ b.evidence = p.evidence
  BY DEF Entry

(* What a view holds, and that it is one.                                  *)
LEMMA ViewIs ==
  ASSUME NEW b \in Views
  PROVE  /\ b # None /\ b.available = TRUE /\ b.loaded \in BOOLEAN /\ b.stale \in BOOLEAN
         /\ b.revision \in Nat /\ b.rows \in [Sections -> SUBSET AllRows]
         /\ b.totals \in [Sections -> Nat] /\ b.evidence \in Evidence
  BY CatalogAssumption DEF Views

-----------------------------------------------------------------------------
(* What the parts of the invariant depend on *)

(* Only the reads, their tasks and their requests may differ.              *)
Alike(st, u) ==
  /\ u.active = st.active /\ u.generation = st.generation /\ u.catalog = st.catalog
  /\ u.status = st.status /\ u.data = st.data /\ u.baseline = st.baseline
  /\ u.unsubscribe = st.unsubscribe

(* View, subscriptions and events depend on nothing of the reads.          *)
LEMMA AlikeKeeps ==
  ASSUME NEW sv, NEW pub, NEW ss, NEW q, NEW st, NEW u, Alike(st, u)
  PROVE  /\ ShownFits(sv, pub, st) => ShownFits(sv, pub, u)
         /\ SubsFit(ss, st, q) => SubsFit(ss, u, q)
         /\ EventsFit(sv, pub, st, q) => EventsFit(sv, pub, u, q)
         /\ \A t : Current(u, t) = Current(st, t)
         /\ \A m : Moves(u, m) = Moves(st, m)
<1>1. ShownFits(sv, pub, st) => ShownFits(sv, pub, u) BY DEF Alike, ShownFits
<1>2. SubsFit(ss, st, q) => SubsFit(ss, u, q) BY DEF Alike, SubsFit
<1>3. EventsFit(sv, pub, st, q) => EventsFit(sv, pub, u, q) BY DEF Alike, EventsFit
<1>4. (\A t : Current(u, t) = Current(st, t)) /\ (\A m : Moves(u, m) = Moves(st, m))
  BY DEF Alike, Current, Moves
<1> QED BY <1>1, <1>2, <1>3, <1>4

(* What stands at a place of a queue followed by pages.                    *)
LEMMA MorePages ==
  ASSUME NEW q \in Seq(Message), NEW more \in Seq(PageMessage)
  PROVE  /\ q \o more \in Seq(Message)
         /\ DOMAIN q \subseteq DOMAIN (q \o more)
         /\ \A i \in DOMAIN q : (q \o more)[i] = q[i]
         /\ \A i \in DOMAIN (q \o more) :
              \/ i \in DOMAIN q
              \/ /\ \A j \in DOMAIN q : j < i
                 /\ i - Len(q) \in DOMAIN more /\ (q \o more)[i] = more[i - Len(q)]
                 /\ (q \o more)[i].kind = "page"
         /\ \A i \in DOMAIN (q \o more) : (q \o more)[i].kind # "page" => i \in DOMAIN q
<1>1. more \in Seq(Message) BY DEF Message
<1>2. \A i \in DOMAIN more : more[i].kind = "page"
 <2> TAKE i \in DOMAIN more
 <2>1. more[i] \in PageMessage OBVIOUS
 <2> QED BY <2>1 DEF PageMessage
<1> QED BY <1>1, <1>2, ConcatFacts

(* Pages say nothing of subscriptions and events.                          *)
LEMMA PagesAreNoNews ==
  ASSUME NEW sv, NEW pub, NEW ss, NEW st, NEW q \in Seq(Message), NEW more \in Seq(PageMessage)
  PROVE  /\ SubsFit(ss, st, q) => SubsFit(ss, st, q \o more)
         /\ EventsFit(sv, pub, st, q) => EventsFit(sv, pub, st, q \o more)
<1> DEFINE z == q \o more
<1>1. /\ DOMAIN q \subseteq DOMAIN z
      /\ \A i \in DOMAIN q : z[i] = q[i]
      /\ \A i \in DOMAIN z : z[i].kind # "page" => i \in DOMAIN q
  BY MorePages
<1> HIDE DEF z
<1>2. SubsFit(ss, st, q) => SubsFit(ss, st, z)
 <2> SUFFICES ASSUME SubsFit(ss, st, q) PROVE SubsFit(ss, st, z) OBVIOUS
 <2>1. \A i \in DOMAIN z : z[i].kind # "page" => z[i].generation <= st.generation
   BY <1>1 DEF SubsFit
 <2>2. \A i \in DOMAIN z : z[i].kind \notin {"page", "refused"} /\ z[i].generation = st.generation =>
         LiveIn(ss, st.generation)
   BY <1>1 DEF SubsFit
 <2>3. \A i \in DOMAIN z : z[i].kind = "refused" => \A s \in ss : s.generation # z[i].generation
   BY <1>1 DEF SubsFit
 <2>4. \A s \in ss : s.stage = "live" =>
         \/ s.generation = st.generation /\ st.unsubscribe = s.generation
         \/ \E i \in DOMAIN z : z[i].kind = "result" /\ z[i].generation = s.generation
   BY <1>1 DEF SubsFit
 <2> QED BY <2>1, <2>2, <2>3, <2>4 DEF SubsFit
<1>3. EventsFit(sv, pub, st, q) => EventsFit(sv, pub, st, z)
 <2> SUFFICES ASSUME EventsFit(sv, pub, st, q) PROVE EventsFit(sv, pub, st, z) OBVIOUS
 <2>1. \A i \in DOMAIN z : z[i].kind = "event" => SummaryFits(sv, pub, z[i].summary)
   BY <1>1 DEF EventsFit
 <2>2. \A i, j \in DOMAIN z : i < j /\ z[i].kind = "event" /\ z[j].kind = "event" =>
         z[i].summary.revision <= z[j].summary.revision
   BY <1>1 DEF EventsFit
 <2>3. st.status = "current" =>
         \A i \in DOMAIN z : z[i].kind = "event" => st.baseline.revision <= z[i].summary.revision
   BY <1>1 DEF EventsFit
 <2>4. st.status = "current" =>
         \/ sv.available /\ sv.revision = st.baseline.revision
         \/ \E j \in DOMAIN z : Tells(sv, z[j], st.generation)
   BY <1>1 DEF EventsFit
 <2>5. \A i \in DOMAIN z : IsNews(z[i], st.generation) =>
         \E j \in DOMAIN z : i <= j /\ Tells(sv, z[j], st.generation)
  <3> TAKE i \in DOMAIN z
  <3> HAVE IsNews(z[i], st.generation)
  <3>1. i \in DOMAIN q /\ IsNews(q[i], st.generation) BY <1>1 DEF IsNews
  <3>2. PICK j \in DOMAIN q : i <= j /\ Tells(sv, q[j], st.generation) BY <3>1 DEF EventsFit
  <3> QED BY <1>1, <3>2
 <2> QED BY <2>1, <2>2, <2>3, <2>4, <2>5 DEF EventsFit
<1> QED BY <1>2, <1>3 DEF z

(* More pages under way, each for a request nothing under way answers.     *)
LEMMA SendPages ==
  ASSUME NEW pub, NEW st, NEW q \in Seq(Message), NEW more \in Seq(PageMessage),
         MailFits(pub, st, q),
         \A i \in DOMAIN more : \E t \in st.reads :
           /\ t.id = more[i].task /\ more[i].page \in t.asked
           /\ Current(st, t) => \/ AnswerFits(pub, t, more[i].page, more[i].answer)
                                \/ \E j \in DOMAIN q : Moves(st, q[j]),
         \A i, j \in DOMAIN more :
           more[i].task = more[j].task /\ more[i].page = more[j].page => i = j,
         \A i \in DOMAIN more, j \in DOMAIN q :
           ~ (q[j].kind = "page" /\ more[i].task = q[j].task /\ more[i].page = q[j].page)
  PROVE  MailFits(pub, st, q \o more)
<1> DEFINE z == q \o more
<1>1. /\ DOMAIN q \subseteq DOMAIN z
      /\ \A i \in DOMAIN q : z[i] = q[i]
      /\ \A i \in DOMAIN z : \/ i \in DOMAIN q
                             \/ /\ \A j \in DOMAIN q : j < i
                                /\ i - Len(q) \in DOMAIN more /\ z[i] = more[i - Len(q)]
  BY MorePages
<1>2. DOMAIN z \subseteq Nat /\ Len(q) \in Nat BY MorePages
<1> HIDE DEF z
<1>3. ASSUME NEW i \in DOMAIN z, z[i].kind = "page"
      PROVE  \E t \in st.reads :
               /\ t.id = z[i].task /\ z[i].page \in t.asked
               /\ Current(st, t) => \/ AnswerFits(pub, t, z[i].page, z[i].answer)
                                    \/ \E j \in DOMAIN z : j < i /\ Moves(st, z[j])
 <2>1. CASE i \in DOMAIN q BY <1>1, <1>3, <2>1 DEF MailFits
 <2>2. CASE i \notin DOMAIN q
  <3>1. /\ \A j \in DOMAIN q : j < i
        /\ i - Len(q) \in DOMAIN more /\ z[i] = more[i - Len(q)]
    BY <1>1, <2>2
  <3>2. PICK t \in st.reads :
          /\ t.id = z[i].task /\ z[i].page \in t.asked
          /\ Current(st, t) => \/ AnswerFits(pub, t, z[i].page, z[i].answer)
                               \/ \E j \in DOMAIN q : Moves(st, q[j])
    BY <3>1
  <3>3. (\E j \in DOMAIN q : Moves(st, q[j])) => \E j \in DOMAIN z : j < i /\ Moves(st, z[j])
    BY <1>1, <3>1
  <3> QED BY <3>2, <3>3
 <2> QED BY <2>1, <2>2
<1>4. ASSUME NEW i \in DOMAIN z, NEW j \in DOMAIN z, z[i].kind = "page", z[j].kind = "page",
             z[i].task = z[j].task, z[i].page = z[j].page
      PROVE  i = j
 <2>1. CASE i \in DOMAIN q /\ j \in DOMAIN q BY <1>1, <1>4, <2>1 DEF MailFits
 <2>2. CASE i \in DOMAIN q /\ j \notin DOMAIN q BY <1>1, <1>4, <2>2
 <2>3. CASE i \notin DOMAIN q /\ j \in DOMAIN q BY <1>1, <1>4, <2>3
 <2>4. CASE i \notin DOMAIN q /\ j \notin DOMAIN q
  <3>1. /\ i - Len(q) \in DOMAIN more /\ z[i] = more[i - Len(q)]
        /\ j - Len(q) \in DOMAIN more /\ z[j] = more[j - Len(q)]
    BY <1>1, <2>4
  <3>2. i - Len(q) = j - Len(q) BY <1>4, <3>1
  <3> QED BY <1>2, <3>2
 <2> QED BY <2>1, <2>2, <2>3, <2>4
<1> QED BY <1>3, <1>4 DEF MailFits, z

(* What the server answers to a request of a current read.                 *)
LEMMA ReplyFits ==
  ASSUME NEW st, NEW q, ServerFits(server, published), EventsFit(server, published, st, q),
         st.status = "current", st.baseline.revision \in Nat,
         NEW t \in Read, t.revision = st.baseline.revision, t.revision <= server.revision,
         NEW k \in DOMAIN t.pages
  PROVE  LET r == Reply([task |-> t, page |-> k])
         IN /\ r \in PageMessage /\ r.task = t.id /\ r.page = k
            /\ \/ AnswerFits(published, t, k, r.answer)
               \/ \E j \in DOMAIN q : Moves(st, q[j])
<1> DEFINE r == Reply([task |-> t, page |-> k])
           a == CatalogReply([task |-> t, page |-> k])
           section == t.pages[k].section
<1>1. k \in Nat /\ t.id \in Nat /\ section \in Sections /\ t.pages[k].offset \in Nat
      /\ t.revision \in Nat
 <2>1. t.pages \in Seq(Key) /\ t.id \in Nat /\ t.revision \in Nat BY DEF Read
 <2>2. t.pages[k] \in Key /\ k \in Nat BY <2>1
 <2> QED BY <2>1, <2>2 DEF Key
<1>2. server \in Server BY DEF ServerFits
<1>3. r = [kind |-> "page", task |-> t.id, page |-> k, answer |-> a] BY DEF Reply
<1>4. CASE ~server.available
 <2>1. a = [ok |-> FALSE, code |-> "not_ready"] BY <1>4 DEF CatalogReply, Failure
 <2>2. \E j \in DOMAIN q : Moves(st, q[j]) BY <1>4 DEF EventsFit, Tells, Moves
 <2> HIDE DEF a, r
 <2>3. a \in Answer BY <2>1 DEF Answer, Codes
 <2>4. r \in PageMessage /\ r.task = t.id /\ r.page = k BY <1>1, <1>3, <2>3 DEF PageMessage
 <2> QED BY <2>2, <2>4 DEF r
<1>5. CASE server.available /\ server.revision # t.revision
 <2>1. a = [ok |-> FALSE, code |-> "stale_catalog"] BY <1>5 DEF CatalogReply, Failure
 <2>2. \E j \in DOMAIN q : Moves(st, q[j]) BY <1>5 DEF EventsFit, Tells, Moves
 <2> HIDE DEF a, r
 <2>3. a \in Answer BY <2>1 DEF Answer, Codes
 <2>4. r \in PageMessage /\ r.task = t.id /\ r.page = k BY <1>1, <1>3, <2>3 DEF PageMessage
 <2> QED BY <2>2, <2>4 DEF r
<1>6. CASE server.available /\ server.revision = t.revision
 <2>1. a = Page(server.revision, PageItems(t.pages[k], server.content[section]))
   BY <1>6 DEF CatalogReply
 <2>2. server.content \in Contents /\ published[t.revision] = server.content BY <1>6 DEF ServerFits
 <2>3. Items(published, t, k) \subseteq AllRows
  <3>1. server.content[section] \in Seq(AllRows) /\ RowsOf(server.content[section]) \subseteq AllRows
    BY <1>1, <2>2, CatalogFacts
  <3>2. PageItems(t.pages[k], server.content[section]) \subseteq AllRows BY <1>1, <3>1, PageWithin
  <3> QED BY <2>2, <3>2 DEF Items
 <2>4. a = [ok |-> TRUE, revision |-> t.revision, items |-> Items(published, t, k)]
   BY <1>6, <2>1, <2>2 DEF Page, Items
 <2> HIDE DEF a, r
 <2>5. a \in Answer BY <1>1, <2>3, <2>4 DEF Answer
 <2>6. AnswerFits(published, t, k, a) BY <2>4 DEF AnswerFits
 <2>7. r \in PageMessage /\ r.task = t.id /\ r.page = k /\ r.answer = a
   BY <1>1, <1>3, <2>5 DEF PageMessage
 <2> QED BY <2>6, <2>7 DEF r
<1> QED BY <1>4, <1>5, <1>6

-----------------------------------------------------------------------------
(* Reads that go on, end and begin *)

(* A read goes on: it may have asked for more or got an answer, and keeps  *)
(* what is under way; the other reads are not concerned.                   *)
Resumed(st, u, t, now) ==
  /\ Alike(st, u) /\ t \in st.reads /\ u.reads = (st.reads \ {t}) \cup {now}
  /\ now.id = t.id /\ now.token = t.token /\ now.revision = t.revision /\ now.pages = t.pages
  /\ t.next <= now.next /\ t.next \in Nat /\ now.next \in Nat

(* What a read asked for and is under way it still waits for.              *)
StillAsked(q, t, now) ==
  \A i \in DOMAIN q : q[i].kind = "page" /\ q[i].task = t.id /\ q[i].page \in t.asked
                     => q[i].page \in now.asked

(* Of the answers that wait for a microtask, only the read's own differ.   *)
OwnAnswers(pub, st, u, t) ==
  /\ \A i \in DOMAIN u.micro :
       \/ \E j \in DOMAIN st.micro : u.micro[i] = st.micro[j]
       \/ u.micro[i].task = t.id /\ MicroFits(pub, u, u.micro[i])
  /\ \A j \in DOMAIN st.micro : st.micro[j].task # t.id =>
       \E i \in DOMAIN u.micro : u.micro[i] = st.micro[j]

(* The other reads and their answers are not concerned.                    *)
LEMMA GoesOn ==
  ASSUME NEW pub, NEW st, NEW u, NEW q, NEW t, NEW now,
         ReadsFit(pub, st), MailFits(pub, st, q), Resumed(st, u, t, now),
         StillAsked(q, t, now), OwnAnswers(pub, st, u, t), ReadFits(pub, u, now)
  PROVE  ReadsFit(pub, u) /\ MailFits(pub, u, q)
<1> USE DEF Resumed, StillAsked, OwnAnswers
<1>1. /\ \A x : Current(u, x) = Current(st, x)
      /\ \A m : Moves(u, m) = Moves(st, m)
  BY AlikeKeeps
<1>2. Current(st, now) = Current(st, t) BY DEF Current
<1>3. IsFiniteSet(u.reads)
 <2>1. IsFiniteSet(st.reads \ {t}) BY FS_RemoveElement DEF ReadsFit
 <2>2. IsFiniteSet((st.reads \ {t}) \cup {now}) BY <2>1, FS_AddElement
 <2> QED BY <2>2
<1>4. \A x, y \in u.reads : x.id = y.id => x = y BY DEF ReadsFit
<1>5. ASSUME NEW x \in u.reads PROVE ReadFits(pub, u, x)
 <2>1. CASE x = now BY <2>1
 <2>2. CASE x # now
  <3>1. x \in st.reads /\ x.id # t.id /\ ReadFits(pub, st, x) BY <2>2 DEF ReadsFit
  <3>2. \A k : Holds(u, x.id, k) <=> Holds(st, x.id, k) BY <3>1 DEF Holds
  <3>3. Waits(u, x.id) <=> Waits(st, x.id) BY <3>1 DEF Waits
  <3>4. Collected(pub, st, x) => Collected(pub, u, x) BY <3>2, <3>3 DEF Collected
  <3>5. Going(pub, st, x) => Going(pub, u, x) BY <3>4 DEF Going, Alike
  <3> QED BY <1>1, <3>1, <3>5 DEF ReadFits, Alike
 <2> QED BY <2>1, <2>2
<1>6. ASSUME NEW m, MicroFits(pub, st, m) PROVE MicroFits(pub, u, m)
 <2>1. PICK x \in st.reads : /\ x.id = m.task /\ m.page \in 1 .. x.next - 1
                             /\ Current(st, x) => AnswerFits(pub, x, m.page, m.answer)
   BY <1>6 DEF MicroFits
 <2>2. CASE x = t
  <3>1. AnswerFits(pub, now, m.page, m.answer) = AnswerFits(pub, t, m.page, m.answer)
    BY DEF AnswerFits, Items
  <3>2. m.page \in 1 .. now.next - 1 BY <2>1, <2>2
  <3> QED BY <1>1, <1>2, <2>1, <2>2, <3>1, <3>2 DEF MicroFits
 <2>3. CASE x # t BY <1>1, <2>1, <2>3 DEF MicroFits
 <2> QED BY <2>2, <2>3
<1>7. \A i \in DOMAIN u.micro : MicroFits(pub, u, u.micro[i]) BY <1>6 DEF ReadsFit
<1>8. ASSUME NEW i \in DOMAIN q, q[i].kind = "page"
      PROVE  \E x \in u.reads :
               /\ x.id = q[i].task /\ q[i].page \in x.asked
               /\ Current(u, x) => \/ AnswerFits(pub, x, q[i].page, q[i].answer)
                                   \/ \E j \in DOMAIN q : j < i /\ Moves(u, q[j])
 <2>1. PICK x \in st.reads :
              /\ x.id = q[i].task /\ q[i].page \in x.asked
              /\ Current(st, x) => \/ AnswerFits(pub, x, q[i].page, q[i].answer)
                                   \/ \E j \in DOMAIN q : j < i /\ Moves(st, q[j])
   BY <1>8 DEF MailFits
 <2>2. CASE x = t
  <3>1. AnswerFits(pub, now, q[i].page, q[i].answer) = AnswerFits(pub, t, q[i].page, q[i].answer)
    BY DEF AnswerFits, Items
  <3>2. now \in u.reads /\ now.id = q[i].task /\ q[i].page \in now.asked BY <1>8, <2>1, <2>2
  <3>3. Current(u, now) => \/ AnswerFits(pub, now, q[i].page, q[i].answer)
                           \/ \E j \in DOMAIN q : j < i /\ Moves(u, q[j])
    BY <1>1, <1>2, <2>1, <2>2, <3>1
  <3> QED BY <3>2, <3>3
 <2>3. CASE x # t BY <1>1, <2>1, <2>3
 <2> QED BY <2>2, <2>3
<1>9. MailFits(pub, u, q) BY <1>8 DEF MailFits
<1> QED BY <1>3, <1>4, <1>5, <1>7, <1>9 DEF ReadsFit

(* A read that waits for nothing is gone.                                  *)
Finished(st, u, t) ==
  /\ Alike(st, u) /\ t \in st.reads /\ u.reads = st.reads \ {t}
  /\ t.asked = {} /\ ~Waits(u, t.id)

(* Nothing is left of it.                                                 *)
LEMMA Gone ==
  ASSUME NEW pub, NEW st, NEW u, NEW q, NEW t,
         ReadsFit(pub, st), MailFits(pub, st, q), Finished(st, u, t), OwnAnswers(pub, st, u, t)
  PROVE  ReadsFit(pub, u) /\ MailFits(pub, u, q)
<1> USE DEF Finished, OwnAnswers
<1>1. /\ \A x : Current(u, x) = Current(st, x)
      /\ \A m : Moves(u, m) = Moves(st, m)
  BY AlikeKeeps
<1>2. IsFiniteSet(u.reads) BY FS_RemoveElement DEF ReadsFit
<1>3. \A x, y \in u.reads : x.id = y.id => x = y BY DEF ReadsFit
<1>4. ASSUME NEW x \in u.reads PROVE ReadFits(pub, u, x)
 <2>1. x \in st.reads /\ x.id # t.id /\ ReadFits(pub, st, x) BY DEF ReadsFit
 <2>2. \A k : Holds(u, x.id, k) <=> Holds(st, x.id, k) BY <2>1 DEF Holds
 <2>3. Waits(u, x.id) <=> Waits(st, x.id) BY <2>1 DEF Waits
 <2>4. Collected(pub, st, x) => Collected(pub, u, x) BY <2>2, <2>3 DEF Collected
 <2>5. Going(pub, st, x) => Going(pub, u, x) BY <2>4 DEF Going, Alike
 <2> QED BY <1>1, <2>1, <2>5 DEF ReadFits, Alike
<1>5. ASSUME NEW i \in DOMAIN u.micro PROVE MicroFits(pub, u, u.micro[i])
 <2>1. MicroFits(pub, st, u.micro[i]) /\ u.micro[i].task # t.id BY DEF ReadsFit, Waits
 <2> QED BY <1>1, <2>1 DEF MicroFits
<1>6. MailFits(pub, u, q) BY <1>1 DEF MailFits
<1> QED BY <1>2, <1>3, <1>4, <1>5, <1>6 DEF ReadsFit

(* There is always a number for a new read.                                *)
LEMMA FreshIs ==
  ASSUME NEW st, IsFiniteSet(st.reads)
  PROVE  /\ FreshTask(st) \in Nat \ {0}
         /\ \A t \in st.reads : t.id # FreshTask(st)
<1> DEFINE ids == {t.id : t \in st.reads}
           n == Cardinality(st.reads)
<1>1. n \in Nat BY FS_CardinalityType
<1>2. IsFiniteSet(ids) /\ Cardinality(ids) <= n
 <2> DEFINE f == [t \in st.reads |-> t.id]
 <2>1. f \in Surjection(st.reads, ids) BY DEF Surjection
 <2> QED BY <2>1, FS_Surjection
<1>3. IsFiniteSet(1 .. n + 1) /\ Cardinality(1 .. n + 1) = n + 1 BY <1>1, FS_Interval
<1>4. ~ (1 .. n + 1 \subseteq ids)
 <2> SUFFICES ASSUME 1 .. n + 1 \subseteq ids PROVE FALSE OBVIOUS
 <2>1. Cardinality(1 .. n + 1) <= Cardinality(ids) BY <1>2, FS_Subset
 <2>2. Cardinality(ids) \in Nat BY <1>2, FS_CardinalityType
 <2> QED BY <1>1, <1>2, <1>3, <2>1, <2>2
<1>5. PICK k \in 1 .. n + 1 : k \notin ids BY <1>4
<1>6. FreshTask(st) = CHOOSE i \in 1 .. n + 1 : i \notin ids BY DEF FreshTask
<1>7. FreshTask(st) \in 1 .. n + 1 /\ FreshTask(st) \notin ids BY <1>5, <1>6
<1> QED BY <1>1, <1>7

(* A new read of the baseline: all of its first pages are asked for.       *)
LEMMA NewReadFits ==
  ASSUME NEW pub, NEW st, st \in Store, IsFiniteSet(st.reads), st.baseline \in Views,
         st.baseline.totals = Lengths(pub, st.baseline.revision),
         NEW u, u.reads = st.reads \cup {NewRead(st)}, u.catalog = st.catalog,
         u.baseline = st.baseline
  PROVE  LET t == NewRead(st)
         IN /\ t \in Read /\ t.id = FreshTask(st) /\ ~t.settled
            /\ t.revision = st.baseline.revision
            /\ ReadFits(pub, u, t)
            /\ \A i \in t.asked : i \in DOMAIN t.pages
            /\ \E n \in Nat : t.asked = 1 .. n
<1> DEFINE b == st.baseline
           pages == PagesOf(b.totals)
           first == IF Len(pages) < Workers THEN Len(pages) ELSE Workers
           t == NewRead(st)
<1>1. b.totals \in [Sections -> Nat] /\ b.revision \in Nat BY ViewIs
<1>2. pages \in Seq(Key) BY <1>1, PagesFacts
<1> HIDE DEF pages
<1>3. Workers \in Nat \ {0} /\ Len(pages) \in Nat BY <1>2, CatalogAssumption
<1>4. first \in Nat /\ first <= Len(pages) /\ (first = 0 => Len(pages) = 0) BY <1>3
<1>5. FreshTask(st) \in Nat \ {0} /\ st.catalog \in Nat BY FreshIs DEF Store
<1>6. t = [id |-> FreshTask(st), token |-> st.catalog, revision |-> b.revision,
           pages |-> pages, next |-> first + 1, asked |-> 1 .. first, settled |-> FALSE,
           got |-> [s \in Sections |-> {}]]
  BY DEF NewRead, pages
<1> HIDE DEF t, first, b
<1>7. t \in Read BY <1>1, <1>2, <1>4, <1>5, <1>6 DEF Read
<1>8. Going(pub, u, t)
 <2>1. t.pages = PagesOf(Lengths(pub, t.revision)) BY <1>6 DEF pages, b
 <2>2. Collected(pub, u, t)
  <3>1. t.asked = {} => t.next = Len(t.pages) + 1 BY <1>3, <1>4, <1>6
  <3>2. 1 .. t.next - 1 = t.asked BY <1>4, <1>6
  <3>3. \A s \in Sections : t.got[s] = {} BY <1>6
  <3> QED BY <3>1, <3>2, <3>3 DEF Collected
 <2> QED BY <1>6, <2>1, <2>2 DEF Going, b
<1>9. ReadFits(pub, u, t)
 <2>1. t.token <= u.catalog BY <1>5, <1>6
 <2>2. t.next <= Len(t.pages) + 1 /\ t.asked \subseteq 1 .. t.next - 1 BY <1>3, <1>4, <1>6
 <2> QED BY <1>8, <2>1, <2>2 DEF ReadFits
<1>10. \A i \in t.asked : i \in DOMAIN t.pages BY <1>2, <1>3, <1>4, <1>6
<1> QED BY <1>4, <1>6, <1>7, <1>9, <1>10 DEF t, b

(* A new read beside the others.                                           *)
Begun(st, u, t) ==
  /\ Alike(st, u) /\ u.micro = st.micro
  /\ u.reads = st.reads \cup {t} /\ \A x \in st.reads : x.id # t.id

(* The other reads and what is under way are not concerned.                *)
LEMMA Begins ==
  ASSUME NEW pub, NEW st, NEW u, NEW q, NEW t,
         ReadsFit(pub, st), MailFits(pub, st, q), Begun(st, u, t), ReadFits(pub, u, t)
  PROVE  /\ ReadsFit(pub, u) /\ MailFits(pub, u, q)
         /\ \A i \in DOMAIN q : q[i].kind = "page" => q[i].task # t.id
<1> USE DEF Begun
<1>1. /\ \A x : Current(u, x) = Current(st, x)
      /\ \A m : Moves(u, m) = Moves(st, m)
  BY AlikeKeeps
<1>2. IsFiniteSet(u.reads) BY FS_AddElement DEF ReadsFit
<1>3. \A x, y \in u.reads : x.id = y.id => x = y BY DEF ReadsFit
<1>4. ASSUME NEW x \in u.reads PROVE ReadFits(pub, u, x)
 <2>1. CASE x = t BY <2>1
 <2>2. CASE x # t
  <3>1. x \in st.reads /\ ReadFits(pub, st, x) BY <2>2 DEF ReadsFit
  <3>2. Collected(pub, st, x) => Collected(pub, u, x) BY DEF Collected, Holds, Waits
  <3>3. Going(pub, st, x) => Going(pub, u, x) BY <3>2 DEF Going, Alike
  <3> QED BY <1>1, <3>1, <3>3 DEF ReadFits, Alike
 <2> QED BY <2>1, <2>2
<1>5. \A i \in DOMAIN u.micro : MicroFits(pub, u, u.micro[i])
 <2>1. ASSUME NEW m, MicroFits(pub, st, m) PROVE MicroFits(pub, u, m) BY <1>1, <2>1 DEF MicroFits
 <2> QED BY <2>1 DEF ReadsFit
<1>6. MailFits(pub, u, q) BY <1>1 DEF MailFits
<1>7. \A i \in DOMAIN q : q[i].kind = "page" => q[i].task # t.id BY DEF MailFits
<1> QED BY <1>2, <1>3, <1>4, <1>5, <1>6, <1>7 DEF ReadsFit

-----------------------------------------------------------------------------
(* The store and what it is about to send *)

(* The replies to what the store asks, and the queue with them.            *)
Replies(out) == [i \in DOMAIN out |-> Reply(out[i])]

Sent(st, q) == q \o Replies(st.out)

(* One reply for each request, in their order.                             *)
LEMMA RepliesFacts ==
  ASSUME NEW a \in Seq(Asked), NEW b \in Seq(Asked)
  PROVE  /\ Replies(a) \in Seq({Reply(x) : x \in Asked}) /\ Len(Replies(a)) = Len(a)
         /\ DOMAIN Replies(a) = DOMAIN a
         /\ Replies(a \o b) = Replies(a) \o Replies(b)
<1> DEFINE R == {Reply(x) : x \in Asked}
<1>1. \A c \in Seq(Asked) : Replies(c) \in Seq(R) /\ Len(Replies(c)) = Len(c)
                            /\ DOMAIN Replies(c) = DOMAIN c
                            /\ \A i \in DOMAIN c : Replies(c)[i] = Reply(c[i])
 <2> TAKE c \in Seq(Asked)
 <2>1. DOMAIN c = 1 .. Len(c) /\ Len(c) \in Nat /\ \A i \in DOMAIN c : c[i] \in Asked OBVIOUS
 <2>2. Replies(c) \in [1 .. Len(c) -> R] BY <2>1 DEF Replies
 <2> QED BY <2>1, <2>2 DEF Replies
<1>2. a \o b \in Seq(Asked) /\ Len(a \o b) = Len(a) + Len(b) OBVIOUS
<1> DEFINE ra == Replies(a)
           rb == Replies(b)
           x == Replies(a \o b)
           y == ra \o rb
<1>3. x \in Seq(R) /\ Len(x) = Len(a) + Len(b) BY <1>1, <1>2
<1>4. ra \in Seq(R) /\ rb \in Seq(R) /\ Len(ra) = Len(a) /\ Len(rb) = Len(b) BY <1>1
<1> HIDE DEF R, ra, rb
<1>7. /\ y \in Seq(R) /\ Len(y) = Len(a) + Len(b)
      /\ \A i \in 1 .. Len(a) : y[i] = ra[i]
      /\ \A i \in Len(a) + 1 .. Len(a) + Len(b) : y[i] = rb[i - Len(a)]
  BY <1>4
<1>5. ASSUME NEW i \in 1 .. Len(a) + Len(b) PROVE x[i] = y[i]
 <2>0. Len(a) \in Nat /\ Len(b) \in Nat /\ DOMAIN a = 1 .. Len(a) /\ DOMAIN b = 1 .. Len(b)
       /\ DOMAIN (a \o b) = 1 .. Len(a) + Len(b)
   BY <1>2
 <2>1. x[i] = Reply((a \o b)[i]) BY <1>1, <1>2, <2>0
 <2>2. CASE i <= Len(a)
  <3>1. (a \o b)[i] = a[i] /\ y[i] = ra[i] /\ i \in DOMAIN a BY <1>7, <2>0, <2>2, ConcatFacts
  <3> QED BY <1>1, <2>1, <3>1 DEF ra
 <2>3. CASE ~ (i <= Len(a))
  <3>1. (a \o b)[i] = b[i - Len(a)] /\ y[i] = rb[i - Len(a)] /\ i - Len(a) \in DOMAIN b
    BY <1>7, <2>0, <2>3, ConcatFacts
  <3> QED BY <1>1, <2>1, <3>1 DEF rb
 <2> QED BY <2>2, <2>3
<1> HIDE DEF x, y
<1>6. x = y BY <1>3, <1>7, <1>5
<1> QED BY <1>1, <1>6 DEF x, y, ra, rb, R

(* Sequences one after another.                                            *)
LEMMA ConcatAssoc ==
  ASSUME NEW R, NEW a \in Seq(R), NEW b \in Seq(R), NEW c \in Seq(R)
  PROVE  a \o (b \o c) = (a \o b) \o c
<1> DEFINE x == a \o (b \o c)
           y == (a \o b) \o c
<1>1. /\ b \o c \in Seq(R) /\ a \o b \in Seq(R)
      /\ Len(b \o c) = Len(b) + Len(c) /\ Len(a \o b) = Len(a) + Len(b)
      /\ Len(a) \in Nat /\ Len(b) \in Nat /\ Len(c) \in Nat
  OBVIOUS
<1>2. x \in Seq(R) /\ Len(x) = Len(a) + Len(b) + Len(c) BY <1>1
<1>3. y \in Seq(R) /\ Len(y) = Len(a) + Len(b) + Len(c) BY <1>1
<1>4. ASSUME NEW i \in 1 .. Len(a) + Len(b) + Len(c) PROVE x[i] = y[i] BY <1>1
<1> HIDE DEF x, y
<1>5. x = y BY <1>2, <1>3, <1>4
<1> QED BY <1>5 DEF x, y

(* What is sent after more was asked.                                      *)
LEMMA SentMore ==
  ASSUME NEW st, NEW u, NEW q \in Seq(Message), st.out \in Seq(Asked),
         NEW b \in Seq(Asked), u.out = st.out \o b
  PROVE  Sent(u, q) = Sent(st, q) \o Replies(b)
<1> DEFINE R == Message \cup {Reply(x) : x \in Asked}
<1>1. Replies(st.out) \in Seq(R) /\ Replies(b) \in Seq(R) /\ q \in Seq(R)
 <2>1. Replies(st.out) \in Seq({Reply(x) : x \in Asked}) BY RepliesFacts
 <2>2. Replies(b) \in Seq({Reply(x) : x \in Asked}) BY RepliesFacts
 <2>3. \A S, T : S \subseteq T => Seq(S) \subseteq Seq(T) OBVIOUS
 <2>4. {Reply(x) : x \in Asked} \subseteq R /\ Message \subseteq R OBVIOUS
 <2> HIDE DEF R
 <2> QED BY <2>1, <2>2, <2>3, <2>4
<1> HIDE DEF R
<1>2. Replies(u.out) = Replies(st.out) \o Replies(b) BY RepliesFacts
<1> DEFINE x == Replies(st.out)
           y == Replies(b)
<1>3. x \in Seq(R) /\ y \in Seq(R) BY <1>1
<1> HIDE DEF x, y
<1>5. \A d, e, f \in Seq(R) : d \o (e \o f) = (d \o e) \o f BY ConcatAssoc
<1>4. q \o (x \o y) = (q \o x) \o y BY <1>1, <1>3, <1>5, Zenon
<1> QED BY <1>2, <1>4 DEF Sent, x, y

(* Nothing asked, nothing more.                                            *)
LEMMA SentNone ==
  ASSUME NEW st, NEW q \in Seq(Message), st.out = <<>>
  PROVE  Sent(st, q) = q
<1>1. Replies(st.out) = <<>> BY DEF Replies
<1> QED BY <1>1 DEF Sent

-----------------------------------------------------------------------------
(* The store at any point of a step of the browser, with the messages that *)
(* are under way once its requests are answered.                           *)

Good(ss, st, q) ==
  /\ q \in Seq(Message)
  /\ Fits(server, published, ss, st, Sent(st, q))

(* Nothing of the view and the reads differs.                              *)
LEMMA SameFits ==
  ASSUME NEW sv, NEW pub, NEW ss, NEW st, NEW u, NEW z, Fits(sv, pub, ss, st, z),
         Alike(st, u), u \in Store, u.reads = st.reads, u.micro = st.micro
  PROVE  Fits(sv, pub, ss, u, z)
<1>1. ShownFits(sv, pub, u) /\ SubsFit(ss, u, z) /\ EventsFit(sv, pub, u, z) BY AlikeKeeps DEF Fits
<1>2. (\A x : Current(u, x) = Current(st, x)) /\ (\A m : Moves(u, m) = Moves(st, m)) BY AlikeKeeps
<1>3. ReadsFit(pub, u)
 <2>1. \A t : ReadFits(pub, st, t) => ReadFits(pub, u, t)
   BY <1>2 DEF ReadFits, Going, Collected, Holds, Waits, Alike
 <2>2. \A m : MicroFits(pub, st, m) => MicroFits(pub, u, m) BY <1>2 DEF MicroFits
 <2> QED BY <2>1, <2>2 DEF Fits, ReadsFit
<1>4. MailFits(pub, u, z) BY <1>2 DEF Fits, MailFits
<1> QED BY <1>1, <1>3, <1>4 DEF Fits

(* The same with the requests still to be sent.                            *)
LEMMA SameGood ==
  ASSUME NEW ss, NEW st, NEW u, NEW q, Good(ss, st, q), Alike(st, u), u \in Store,
         u.reads = st.reads, u.micro = st.micro, u.out = st.out
  PROVE  Good(ss, u, q)
<1>1. Sent(u, q) = Sent(st, q) BY DEF Sent
<1>2. Fits(server, published, ss, u, Sent(st, q)) BY SameFits DEF Good
<1> QED BY <1>1, <1>2 DEF Good

(* Requests of the current reads that nothing under way answers.           *)
LEMMA Asks ==
  ASSUME ServerFits(server, published), NEW ss, NEW u, NEW z,
         Fits(server, published, ss, u, z), u.status = "current",
         NEW b \in Seq(Asked),
         \A i \in DOMAIN b :
           /\ b[i].task.revision = u.baseline.revision
           /\ b[i].page \in DOMAIN b[i].task.pages
           /\ \E t \in u.reads :
                /\ t.id = b[i].task.id /\ t.revision = b[i].task.revision
                /\ t.pages = b[i].task.pages /\ b[i].page \in t.asked,
         \A i, j \in DOMAIN b :
           b[i].task.id = b[j].task.id /\ b[i].page = b[j].page => i = j,
         \A i \in DOMAIN b, j \in DOMAIN z :
           ~ (z[j].kind = "page" /\ z[j].task = b[i].task.id /\ z[j].page = b[i].page)
  PROVE  Fits(server, published, ss, u, z \o Replies(b))
<1> DEFINE more == Replies(b)
<1>1. /\ z \in Seq(Message) /\ EventsFit(server, published, u, z)
      /\ MailFits(published, u, z) /\ SubsFit(ss, u, z)
  BY DEF Fits
<1>2. u.baseline.revision \in Nat /\ u.baseline.revision <= server.revision
  BY ViewIs DEF Fits, ShownFits, ViewFits
<1>3. DOMAIN more = DOMAIN b /\ \A i \in DOMAIN b : more[i] = Reply(b[i]) BY DEF Replies
<1> HIDE DEF more
<1>4. ASSUME NEW i \in DOMAIN b
      PROVE  /\ more[i] \in PageMessage /\ more[i].task = b[i].task.id /\ more[i].page = b[i].page
             /\ \/ AnswerFits(published, b[i].task, b[i].page, more[i].answer)
                \/ \E j \in DOMAIN z : Moves(u, z[j])
 <2> DEFINE t == b[i].task
            k == b[i].page
 <2>1. b[i] \in Asked OBVIOUS
 <2>2. b[i] = [task |-> t, page |-> k] /\ t \in Read BY <2>1 DEF Asked
 <2>3. t.revision = u.baseline.revision /\ k \in DOMAIN t.pages OBVIOUS
 <2> HIDE DEF t, k
 <2>4. LET r == Reply([task |-> t, page |-> k])
       IN /\ r \in PageMessage /\ r.task = t.id /\ r.page = k
          /\ \/ AnswerFits(published, t, k, r.answer)
             \/ \E j \in DOMAIN z : Moves(u, z[j])
   BY <1>1, <1>2, <2>2, <2>3, ReplyFits
 <2>5. more[i] = Reply([task |-> t, page |-> k]) BY <1>3, <2>2
 <2> QED BY <2>4, <2>5 DEF t, k
<1>5. more \in Seq(PageMessage)
 <2>1. DOMAIN b = 1 .. Len(b) /\ Len(b) \in Nat OBVIOUS
 <2>2. more \in [1 .. Len(b) -> PageMessage]
  <3>1. more = [i \in DOMAIN b |-> Reply(b[i])] BY DEF more, Replies
  <3> QED BY <1>3, <1>4, <2>1, <3>1
 <2> QED BY <2>1, <2>2
<1>6. \A i \in DOMAIN more : \E t \in u.reads :
        /\ t.id = more[i].task /\ more[i].page \in t.asked
        /\ Current(u, t) => \/ AnswerFits(published, t, more[i].page, more[i].answer)
                            \/ \E j \in DOMAIN z : Moves(u, z[j])
 <2> TAKE i \in DOMAIN more
 <2>1. PICK t \in u.reads :
         /\ t.id = b[i].task.id /\ t.revision = b[i].task.revision
         /\ t.pages = b[i].task.pages /\ b[i].page \in t.asked
   BY <1>3
 <2>2. AnswerFits(published, t, b[i].page, more[i].answer)
         = AnswerFits(published, b[i].task, b[i].page, more[i].answer)
   BY <2>1 DEF AnswerFits, Items
 <2> QED BY <1>3, <1>4, <2>1, <2>2
<1>7. MailFits(published, u, z \o more)
 <2>1. \A i, j \in DOMAIN more :
         more[i].task = more[j].task /\ more[i].page = more[j].page => i = j
   BY <1>3, <1>4
 <2>2. \A i \in DOMAIN more, j \in DOMAIN z :
         ~ (z[j].kind = "page" /\ more[i].task = z[j].task /\ more[i].page = z[j].page)
   BY <1>3, <1>4
 <2> QED BY <1>1, <1>5, <1>6, <2>1, <2>2, SendPages
<1>8. SubsFit(ss, u, z \o more) /\ EventsFit(server, published, u, z \o more)
  BY <1>1, <1>5, PagesAreNoNews
<1>9. z \o more \in Seq(Message) BY <1>1, <1>5, MorePages
<1> QED BY <1>7, <1>8, <1>9 DEF Fits, more

(* The task is a read that goes on, but perhaps that of the read at hand.  *)
TaskBut(st, id) ==
  st.task \notin {NoTask, id} => \E t \in st.reads : t.id = st.task /\ ~t.settled

(* ensureCatalog.                                                          *)
LEMMA EnsureGood ==
  ASSUME ServerFits(server, published), NEW ss, NEW st, NEW q, Good(ss, st, q),
         NEW id, TaskBut(st, id)
  PROVE  Good(ss, Ensure(st), q) /\ TaskBut(Ensure(st), id)
<1>0. st \in Store /\ q \in Seq(Message) BY DEF Good, Fits
<1>1. CASE st.task # NoTask
 <2> DEFINE u == [st EXCEPT !.wanted = TRUE]
 <2>1. Ensure(st) = u BY <1>1 DEF Ensure
 <2>2. u \in Store /\ Alike(st, u) /\ u.reads = st.reads /\ u.micro = st.micro
       /\ u.out = st.out /\ u.task = st.task
   BY <1>0 DEF Store, Alike
 <2> HIDE DEF u
 <2>3. Good(ss, u, q) BY <2>2, SameGood
 <2> QED BY <2>1, <2>2, <2>3 DEF TaskBut
<1>2. CASE st.task = NoTask
           /\ st.status = "current" /\ Lacking(st.baseline) /\ st.error = None
 <2> DEFINE t == NewRead(st)
            u == [st EXCEPT !.wanted = TRUE, !.task = FreshTask(st),
                            !.reads = @ \cup {t}, !.out = @ \o Requests(t)]
            z == Sent(st, q)
            b == Requests(t)
 <2>1. Ensure(st) = u BY <1>2 DEF Ensure
 <2>2. /\ ReadsFit(published, st) /\ MailFits(published, st, z) /\ ViewFits(server, published, st.baseline)
       /\ z \in Seq(Message) /\ ShownFits(server, published, st) /\ SubsFit(ss, st, z)
       /\ EventsFit(server, published, st, z) /\ IsFiniteSet(st.reads)
   BY <1>2 DEF Good, Fits, ShownFits, ReadsFit
 <2>3. /\ FreshTask(st) \in Nat \ {0} /\ \A x \in st.reads : x.id # FreshTask(st) BY <2>2, FreshIs
 <2>4. /\ u.wanted = TRUE /\ u.task = FreshTask(st) /\ u.reads = st.reads \cup {t}
       /\ u.out = st.out \o b /\ u.micro = st.micro /\ Alike(st, u)
       /\ u.status = "current" /\ u.baseline = st.baseline /\ u.catalog = st.catalog
   BY <1>0, <1>2 DEF Store, Alike
 <2>5. /\ t \in Read /\ t.id = FreshTask(st) /\ ~t.settled
       /\ t.revision = st.baseline.revision
       /\ ReadFits(published, u, t)
       /\ \A i \in t.asked : i \in DOMAIN t.pages
       /\ \E n \in Nat : t.asked = 1 .. n
  <3>1. st.baseline \in Views /\ st.baseline.totals = Lengths(published, st.baseline.revision)
    BY <2>2 DEF ViewFits
  <3> HIDE DEF u
  <3> QED BY <1>0, <2>2, <2>4, <3>1, NewReadFits
 <2>6. u \in Store
  <3>1. b \in Seq(Asked)
   <4>1. PICK n \in Nat : t.asked = 1 .. n BY <2>5
   <4>2. Cardinality(t.asked) = n BY <4>1, FS_Interval
   <4>3. b \in [1 .. n -> Asked]
    <5> HIDE DEF t
    <5> QED BY <2>5, <4>2 DEF Requests, Asked
   <4> QED BY <4>3
  <3>2. st.out \o b \in Seq(Asked)
   <4>1. st.out \in Seq(Asked) BY <1>0 DEF Store
   <4> HIDE DEF b
   <4> QED BY <3>1, <4>1
  <3> HIDE DEF t, b
  <3> QED BY <1>0, <2>3, <2>5, <3>2 DEF Store, b
 <2> HIDE DEF u, z
 <2>7. b \in Seq(Asked) /\ DOMAIN b = t.asked
       /\ \A i \in DOMAIN b : b[i].task = t /\ b[i].page = i
  <3>1. PICK n \in Nat : t.asked = 1 .. n BY <2>5
  <3>2. Cardinality(t.asked) = n BY <3>1, FS_Interval
  <3> HIDE DEF t
  <3>3. b \in [1 .. n -> Asked] BY <2>5, <3>2 DEF Requests, Asked
  <3> QED BY <3>1, <3>2, <3>3 DEF Requests
 <2> HIDE DEF t, b
 <2>8. /\ ReadsFit(published, u) /\ MailFits(published, u, z)
       /\ \A i \in DOMAIN z : z[i].kind = "page" => z[i].task # t.id
  <3>1. \A x \in st.reads : x.id # t.id BY <2>3, <2>5
  <3>2. ReadFits(published, u, t) BY <2>5
  <3>3. ReadsFit(published, st) /\ MailFits(published, st, z) BY <2>2
  <3>4. Alike(st, u) /\ u.micro = st.micro /\ u.reads = st.reads \cup {t} BY <2>4
  <3>5. Begun(st, u, t) BY <3>1, <3>4 DEF Begun
  <3> QED BY <3>2, <3>3, <3>5, Begins
 <2>9. /\ ShownFits(server, published, u) /\ SubsFit(ss, u, z)
       /\ EventsFit(server, published, u, z)
   BY <2>2, <2>4, AlikeKeeps
 <2>10. Fits(server, published, ss, u, z) BY <2>2, <2>6, <2>8, <2>9 DEF Fits
 <2>11. Fits(server, published, ss, u, z \o Replies(b))
  <3>1. t \in u.reads BY <2>4
  <3>2. \A i \in DOMAIN b :
         /\ b[i].task.revision = u.baseline.revision
         /\ b[i].page \in DOMAIN b[i].task.pages
         /\ \E x \in u.reads :
              /\ x.id = b[i].task.id /\ x.revision = b[i].task.revision
              /\ x.pages = b[i].task.pages /\ b[i].page \in x.asked
    BY <2>4, <2>5, <2>7, <3>1
  <3>3. \A i, j \in DOMAIN b :
         b[i].task.id = b[j].task.id /\ b[i].page = b[j].page => i = j
    BY <2>7
  <3>4. \A i \in DOMAIN b, j \in DOMAIN z :
         ~ (z[j].kind = "page" /\ z[j].task = b[i].task.id /\ z[j].page = b[i].page)
    BY <2>7, <2>8
  <3> QED BY <2>4, <2>7, <2>10, <3>2, <3>3, <3>4, Asks
 <2>12. Sent(u, q) = z \o Replies(b)
  <3>1. st.out \in Seq(Asked) BY <1>0 DEF Store
  <3>2. q \in Seq(Message) /\ b \in Seq(Asked) /\ u.out = st.out \o b BY <1>0, <2>4, <2>7
  <3>3. Sent(u, q) = Sent(st, q) \o Replies(b) BY <3>1, <3>2, SentMore
  <3> QED BY <3>3 DEF z
 <2>13. Good(ss, u, q) BY <1>0, <2>11, <2>12 DEF Good
 <2>14. TaskBut(u, id) BY <2>4, <2>5 DEF TaskBut
 <2> QED BY <2>1, <2>13, <2>14 DEF u
<1>3. CASE st.task = NoTask
           /\ ~ (st.status = "current" /\ Lacking(st.baseline) /\ st.error = None)
  BY <1>3 DEF Ensure
<1> QED BY <1>1, <1>2, <1>3

(* A page that needs the catalog renders.                                  *)
LEMMA RenderedGood ==
  ASSUME ServerFits(server, published), NEW ss, NEW st, NEW q, Good(ss, st, q),
         NEW id, TaskBut(st, id)
  PROVE  Good(ss, Rendered(st), q) /\ TaskBut(Rendered(st), id)
  BY EnsureGood DEF Rendered

(* What update does once every listening card has rendered.                *)
LEMMA UpdateGood ==
  ASSUME ServerFits(server, published), NEW ss, NEW st, NEW q, Good(ss, st, q),
         NEW id, TaskBut(st, id)
  PROVE  Good(ss, Update(st), q) /\ TaskBut(Update(st), id)
  BY RenderedGood DEF Update

(* The end of a read leaves no task of its own.                            *)
LEMMA FinallyGood ==
  ASSUME ServerFits(server, published), NEW ss, NEW st, NEW q, Good(ss, st, q),
         NEW t, TaskBut(st, t.id)
  PROVE  Good(ss, Finally(st, t), q) /\ TaskFits(Finally(st, t))
<1>0. st \in Store BY DEF Good, Fits
<1>1. CASE st.task # t.id BY <1>1 DEF Finally, TaskFits, TaskBut
<1>2. CASE st.task = t.id
 <2> DEFINE over == [st EXCEPT !.task = NoTask]
            u == [over EXCEPT !.wanted = FALSE]
 <2>1. /\ over \in Store /\ Alike(st, over) /\ over.reads = st.reads
       /\ over.micro = st.micro /\ over.out = st.out /\ over.task = NoTask
   BY <1>0 DEF Store, Alike, NoTask
 <2>2. /\ u \in Store /\ Alike(st, u) /\ u.reads = st.reads
       /\ u.micro = st.micro /\ u.out = st.out /\ u.task = NoTask
   BY <1>0 DEF Store, Alike, NoTask
 <2>3. Finally(st, t) \in {Ensure(over), u} BY <1>2 DEF Finally
 <2> HIDE DEF over, u
 <2>4. Good(ss, over, q) /\ Good(ss, u, q) BY <2>1, <2>2, SameGood
 <2>5. TaskBut(over, NoTask) /\ TaskFits(u) BY <2>1, <2>2 DEF TaskBut, TaskFits
 <2>6. Good(ss, Ensure(over), q) /\ TaskBut(Ensure(over), NoTask) BY <2>4, <2>5, EnsureGood
 <2>7. TaskFits(Ensure(over)) BY <2>6 DEF TaskBut, TaskFits
 <2>8. CASE Finally(st, t) = Ensure(over) BY <2>6, <2>7, <2>8
 <2>9. CASE Finally(st, t) = u BY <2>4, <2>5, <2>9
 <2> QED BY <2>3, <2>8, <2>9
<1> QED BY <1>1, <1>2

-----------------------------------------------------------------------------
(* The answer that a worker goes on with is taken out of the microtasks:   *)
(* the store before, and as the operators on reads see it.                 *)

Taken(st, u) ==
  /\ u \in Store /\ Alike(st, u) /\ u.reads = st.reads /\ u.out = st.out
  /\ u.task = st.task

(* A read is replaced by what it has become.                               *)
LEMMA ReplaceGood ==
  ASSUME NEW ss, NEW st, NEW q, Good(ss, st, q), NEW mid, Taken(st, mid),
         NEW t \in st.reads, OwnAnswers(published, st, mid, t),
         NEW now \in Read, now.id = t.id, now.token = t.token, now.revision = t.revision,
         now.pages = t.pages, t.next <= now.next, t.asked \subseteq now.asked,
         ReadFits(published, mid, now)
  PROVE  LET u == Replace(mid, t, now)
         IN /\ Good(ss, u, q) /\ u \in Store /\ Alike(st, u) /\ u.out = st.out
            /\ u.task = st.task /\ u.error = mid.error
            /\ \A x \in st.reads \ {t} : x \in u.reads
            /\ u.reads \subseteq (st.reads \ {t}) \cup {now}
            /\ (now.settled /\ now.asked = {} /\ ~Waits(mid, t.id)) \/ now \in u.reads
<1> DEFINE rest == mid.reads \ {t}
           over == /\ now.settled /\ now.asked = {}
                   /\ \A i \in DOMAIN mid.micro : mid.micro[i].task # t.id
           rs == IF over THEN rest ELSE rest \cup {now}
           u == Replace(mid, t, now)
           z == Sent(st, q)
<1>1. /\ mid \in Store /\ st \in Store /\ Alike(st, mid) /\ mid.reads = st.reads
      /\ mid.out = st.out /\ mid.task = st.task
      /\ Fits(server, published, ss, st, z) /\ q \in Seq(Message)
  BY DEF Taken, Good, Fits
<1>2. u = [mid EXCEPT !.reads = rs] BY DEF Replace
<1>3. st.reads \subseteq Read BY <1>1 DEF Store
<1>4. rs \subseteq Read BY <1>1, <1>3
<1> HIDE DEF rs
<1>5. /\ u \in Store /\ Alike(mid, u) /\ u.micro = mid.micro /\ u.out = mid.out
      /\ u.task = mid.task /\ u.reads = rs /\ u.error = mid.error
  BY <1>1, <1>2, <1>4 DEF Store, Alike
<1> HIDE DEF u, z
<1>6. Alike(st, u) BY <1>1, <1>5 DEF Alike
<1>7. OwnAnswers(published, st, u, t)
 <2>1. ASSUME NEW m, m.task = t.id, MicroFits(published, mid, m), rs = rest \cup {now}
       PROVE  MicroFits(published, u, m)
  <3>1. PICK x \in mid.reads : /\ x.id = m.task /\ m.page \in 1 .. x.next - 1
                               /\ Current(mid, x) => AnswerFits(published, x, m.page, m.answer)
    BY <2>1 DEF MicroFits
  <3>2. x = t BY <1>1, <2>1, <3>1 DEF Fits, ReadsFit
  <3>3. Current(u, now) = Current(mid, t) BY <1>5 DEF Current, Alike
  <3>4. AnswerFits(published, now, m.page, m.answer) = AnswerFits(published, t, m.page, m.answer)
    BY DEF AnswerFits, Items
  <3>5. m.page \in 1 .. now.next - 1 BY <1>3, <3>1, <3>2 DEF Read
  <3> QED BY <1>5, <2>1, <3>1, <3>2, <3>3, <3>4, <3>5 DEF MicroFits
 <2>2. CASE over
  <3>1. \A i \in DOMAIN u.micro : \E j \in DOMAIN st.micro : u.micro[i] = st.micro[j]
    BY <1>5, <2>2 DEF OwnAnswers
  <3> QED BY <1>5, <3>1 DEF OwnAnswers
 <2>3. CASE ~over
  <3>1. rs = rest \cup {now} BY <2>3 DEF rs
  <3> QED BY <1>5, <2>1, <3>1 DEF OwnAnswers
 <2> QED BY <2>2, <2>3
<1>8. ReadsFit(published, u) /\ MailFits(published, u, z)
 <2>1. ReadsFit(published, st) /\ MailFits(published, st, z) BY <1>1 DEF Fits
 <2>2. CASE over
  <3>1. t.asked = {} /\ ~Waits(u, t.id) /\ u.reads = st.reads \ {t}
    BY <1>1, <1>5, <2>2 DEF Waits, rs
  <3>2. Finished(st, u, t) BY <1>6, <3>1 DEF Finished
  <3> QED BY <1>7, <2>1, <3>2, Gone
 <2>3. CASE ~over
  <3>1. u.reads = (st.reads \ {t}) \cup {now} BY <1>1, <1>5, <2>3 DEF rs
  <3>2. t.next \in Nat /\ now.next \in Nat BY <1>3 DEF Read
  <3>3. Resumed(st, u, t, now) BY <1>6, <3>1, <3>2 DEF Resumed
  <3>4. StillAsked(z, t, now) BY DEF StillAsked
  <3>5. ReadFits(published, u, now)
   <4>1. Collected(published, mid, now) => Collected(published, u, now)
     BY <1>5 DEF Collected, Holds, Waits
   <4>2. Going(published, mid, now) => Going(published, u, now) BY <1>5, <4>1 DEF Going, Alike
   <4>3. Current(u, now) = Current(mid, now) BY <1>5 DEF Current, Alike
   <4> QED BY <1>5, <4>2, <4>3 DEF ReadFits, Alike
  <3> QED BY <1>7, <2>1, <3>3, <3>4, <3>5, GoesOn
 <2> QED BY <2>2, <2>3
<1>9. /\ ShownFits(server, published, u) /\ SubsFit(ss, u, z)
      /\ EventsFit(server, published, u, z) /\ z \in Seq(Message)
  BY <1>1, <1>6, AlikeKeeps DEF Fits
<1>10. Good(ss, u, q)
 <2>1. Sent(u, q) = z BY <1>1, <1>5 DEF Sent, z
 <2> QED BY <1>1, <1>5, <1>8, <1>9, <2>1 DEF Good, Fits
<1>11. /\ \A x \in st.reads \ {t} : x \in u.reads
       /\ u.reads \subseteq (st.reads \ {t}) \cup {now}
       /\ (now.settled /\ now.asked = {} /\ ~Waits(mid, t.id)) \/ now \in u.reads
  BY <1>1, <1>5 DEF rs, Waits
<1> QED BY <1>1, <1>5, <1>6, <1>10, <1>11 DEF u

(* A read that has settled.                                                *)
LEMMA SettledFits ==
  ASSUME NEW pub, NEW st, ReadsFit(pub, st), NEW mid, Alike(st, mid),
         NEW t \in st.reads, t \in Read
  PROVE  LET now == [t EXCEPT !.settled = TRUE]
         IN /\ now \in Read /\ now.id = t.id /\ now.token = t.token /\ now.revision = t.revision
            /\ now.pages = t.pages /\ now.next = t.next /\ now.asked = t.asked /\ now.settled
            /\ ReadFits(pub, mid, now)
<1> DEFINE now == [t EXCEPT !.settled = TRUE]
<1>1. /\ now \in Read /\ now.id = t.id /\ now.token = t.token /\ now.revision = t.revision
      /\ now.pages = t.pages /\ now.next = t.next /\ now.asked = t.asked /\ now.settled
  BY DEF Read
<1> HIDE DEF now
<1>2. ReadFits(pub, st, t) BY DEF ReadsFit
<1>3. Current(mid, now) = Current(st, t) BY <1>1 DEF Current, Alike
<1>4. Current(st, t) => Going(pub, mid, now) BY <1>1, <1>2 DEF ReadFits, Going, Alike
<1>5. ReadFits(pub, mid, now) BY <1>1, <1>2, <1>3, <1>4 DEF ReadFits, Alike
<1> QED BY <1>1, <1>5 DEF now

(* Settling a read leaves the others' tasks.                               *)
LEMMA Settles ==
  ASSUME NEW ss, NEW st, NEW q, Good(ss, st, q), TaskFits(st), NEW mid, Taken(st, mid),
         NEW t \in st.reads, OwnAnswers(published, st, mid, t)
  PROVE  LET u == Replace(mid, t, [t EXCEPT !.settled = TRUE])
         IN /\ Good(ss, u, q) /\ u \in Store /\ Alike(st, u) /\ u.error = mid.error
            /\ TaskBut(u, t.id)
            /\ t.settled => TaskFits(u)
<1> DEFINE now == [t EXCEPT !.settled = TRUE]
           u == Replace(mid, t, now)
<1>1. /\ ReadsFit(published, st) /\ st \in Store /\ Alike(st, mid) BY DEF Good, Fits, Taken
<1>2. t \in Read BY <1>1 DEF Store
<1>3. /\ now \in Read /\ now.id = t.id /\ now.token = t.token /\ now.revision = t.revision
      /\ now.pages = t.pages /\ now.next = t.next /\ now.asked = t.asked /\ now.settled
      /\ ReadFits(published, mid, now)
  BY <1>1, <1>2, SettledFits
<1> HIDE DEF now
<1>4. t.next <= now.next /\ t.asked \subseteq now.asked BY <1>2, <1>3 DEF Read
<1>5. /\ Good(ss, u, q) /\ u \in Store /\ Alike(st, u) /\ u.task = st.task /\ u.error = mid.error
      /\ \A x \in st.reads \ {t} : x \in u.reads
  BY <1>3, <1>4, ReplaceGood
<1> HIDE DEF u
<1>6. TaskBut(u, t.id) BY <1>5 DEF TaskBut, TaskFits
<1>7. t.settled => TaskFits(u)
 <2> SUFFICES ASSUME t.settled, u.task # NoTask
              PROVE  \E x \in u.reads : x.id = u.task /\ ~x.settled
   BY DEF TaskFits
 <2>1. PICK x \in st.reads : x.id = st.task /\ ~x.settled BY <1>5 DEF TaskFits
 <2>2. x # t BY <2>1
 <2> QED BY <1>5, <2>1, <2>2
<1> QED BY <1>5, <1>6, <1>7 DEF u, now

(* An error of the catalog's changes nothing else.                         *)
LEMMA ErrorGood ==
  ASSUME NEW ss, NEW st, NEW q, Good(ss, st, q), NEW id, TaskBut(st, id),
         NEW code \in {None, "fault"}
  PROVE  LET u == [st EXCEPT !.error = code] IN Good(ss, u, q) /\ TaskBut(u, id)
<1> DEFINE u == [st EXCEPT !.error = code]
<1>1. st \in Store BY DEF Good, Fits
<1>2. u \in Store /\ Alike(st, u) /\ u.reads = st.reads /\ u.micro = st.micro /\ u.out = st.out
      /\ u.task = st.task
  BY <1>1 DEF Store, Alike
<1> HIDE DEF u
<1>3. Good(ss, u, q) BY <1>2, SameGood
<1>4. TaskBut(u, id) BY <1>2 DEF TaskBut
<1> QED BY <1>3, <1>4 DEF u

(* The failure of a read.                                                  *)
LEMMA FailGood ==
  ASSUME ServerFits(server, published),
         NEW ss, NEW st, NEW q, Good(ss, st, q), TaskFits(st), NEW mid, Taken(st, mid),
         NEW t \in st.reads, OwnAnswers(published, st, mid, t),
         NEW code, Current(st, t) => code = "fault"
  PROVE  Good(ss, Fail(mid, t, code), q) /\ TaskFits(Fail(mid, t, code))
<1> DEFINE ended == Replace(mid, t, [t EXCEPT !.settled = TRUE])
           failed == [ended EXCEPT !.error = code]
           shown == IF Current(mid, t) THEN Update(failed) ELSE ended
<1>1. Good(ss, ended, q) /\ TaskBut(ended, t.id) /\ (t.settled => TaskFits(ended)) BY Settles
<1>2. Current(mid, t) = Current(st, t) BY DEF Taken, Alike, Current
<1>3. Fail(mid, t, code) = IF t.settled THEN ended ELSE Finally(shown, t) BY DEF Fail
<1> HIDE DEF ended
<1>4. Current(mid, t) => Good(ss, failed, q) /\ TaskBut(failed, t.id)
 <2> SUFFICES ASSUME Current(mid, t) PROVE Good(ss, failed, q) /\ TaskBut(failed, t.id) OBVIOUS
 <2>1. code \in {None, "fault"} BY <1>2
 <2> QED
  <3>1. \A c \in {None, "fault"} :
          LET u == [ended EXCEPT !.error = c] IN Good(ss, u, q) /\ TaskBut(u, t.id)
    BY <1>1, ErrorGood
  <3> QED BY <2>1, <3>1
<1> HIDE DEF failed
<1>5. Good(ss, shown, q) /\ TaskBut(shown, t.id)
 <2>1. CASE Current(mid, t)
  <3>1. Good(ss, Update(failed), q) /\ TaskBut(Update(failed), t.id) BY <1>4, <2>1, UpdateGood
  <3> QED BY <2>1, <3>1
 <2>2. CASE ~Current(mid, t) BY <1>1, <2>2
 <2> QED BY <2>1, <2>2
<1> HIDE DEF shown
<1>6. Good(ss, Finally(shown, t), q) /\ TaskFits(Finally(shown, t)) BY <1>5, FinallyGood
<1>7. CASE t.settled BY <1>1, <1>3, <1>7
<1>8. CASE ~t.settled BY <1>3, <1>6, <1>8
<1> QED BY <1>7, <1>8

(* What the current read of a page gets: all of the page, nothing else.    *)
LEMMA ItemsFacts ==
  ASSUME NEW sv, NEW pub, NEW st, st.status = "current", ShownFits(sv, pub, st),
         NEW t \in Read, t.revision = st.baseline.revision, NEW k \in 1 .. Len(t.pages)
  PROVE  LET s == t.pages[k].section
         IN /\ s \in Sections /\ pub[t.revision] \in Contents
            /\ Items(pub, t, k) \subseteq RowsOf(pub[t.revision][s])
            /\ Items(pub, t, k) \subseteq AllRows
<1> DEFINE s == t.pages[k].section
<1>1. t.pages \in Seq(Key) BY DEF Read
<1>2. t.pages[k] \in Key BY <1>1
<1>3. s \in Sections /\ t.pages[k].offset \in Nat BY <1>2 DEF Key
<1>4. pub[t.revision] \in Contents BY DEF ShownFits, ViewFits
<1>5. pub[t.revision][s] \in Seq(AllRows) /\ RowsOf(pub[t.revision][s]) \subseteq AllRows
  BY <1>3, <1>4, CatalogFacts
<1>6. PageItems(t.pages[k], pub[t.revision][s]) \subseteq RowsOf(pub[t.revision][s])
  BY <1>3, <1>5, PageWithin
<1>7. Items(pub, t, k) \subseteq RowsOf(pub[t.revision][s]) BY <1>6 DEF Items
<1> QED BY <1>3, <1>4, <1>5, <1>7

(* The read of an answer that fits it, in [mid] without that answer.       *)
Answered(pub, st, mid, t, k, now) ==
  /\ st.status = "current" /\ Current(st, t) /\ Alike(st, mid)
  /\ k \in 1 .. t.next - 1
  /\ now = [t EXCEPT !.got[t.pages[k].section] = @ \cup Items(pub, t, k)]
  /\ \A n : Holds(st, t.id, n) => n = k \/ Holds(mid, t.id, n)

(* The rows of an answer of the current revision join what the read has got.*)
LEMMA GotFits ==
  ASSUME NEW sv, NEW pub, NEW st, ShownFits(sv, pub, st), ReadsFit(pub, st),
         NEW mid, NEW t \in st.reads, t \in Read, NEW k, NEW now,
         Answered(pub, st, mid, t, k, now)
  PROVE  /\ now \in Read /\ now.id = t.id /\ now.token = t.token /\ now.revision = t.revision
         /\ now.pages = t.pages /\ now.next = t.next /\ now.asked = t.asked
         /\ now.settled = t.settled
         /\ t.revision = st.baseline.revision
         /\ t.token <= mid.catalog /\ t.next <= Len(t.pages) + 1 /\ t.asked \subseteq 1 .. t.next - 1
         /\ t.pages = PagesOf(Lengths(pub, t.revision))
         /\ ~t.settled =>
              /\ \A n \in 1 .. t.next - 1 : n \notin t.asked /\ ~Holds(mid, t.id, n) =>
                   Items(pub, t, n) \subseteq now.got[t.pages[n].section]
              /\ \A s \in Sections : now.got[s] \subseteq RowsOf(pub[t.revision][s])
<1> USE DEF Answered
<1> DEFINE sec == t.pages[k].section
           I == Items(pub, t, k)
<1>1. ReadFits(pub, st, t) /\ Going(pub, st, t) BY DEF ReadsFit, ReadFits
<1>2. /\ t.revision = st.baseline.revision
      /\ t.token <= mid.catalog /\ t.next <= Len(t.pages) + 1 /\ t.asked \subseteq 1 .. t.next - 1
      /\ t.pages = PagesOf(Lengths(pub, t.revision))
      /\ ~t.settled => Collected(pub, st, t)
  BY <1>1 DEF ReadFits, Going, Alike
<1>3. /\ t.next \in Nat /\ t.got \in [Sections -> SUBSET AllRows] /\ t.pages \in Seq(Key)
  BY DEF Read
<1>4. k \in 1 .. Len(t.pages) BY <1>2, <1>3
<1>5. sec \in Sections /\ I \subseteq RowsOf(pub[t.revision][sec]) /\ I \subseteq AllRows
  BY <1>2, <1>4, ItemsFacts
<1> HIDE DEF sec, I
<1>6. now = [t EXCEPT !.got = [t.got EXCEPT ![sec] = @ \cup I]] BY DEF sec, I
<1> DEFINE g == [t.got EXCEPT ![sec] = @ \cup I]
<1>7. g \in [Sections -> SUBSET AllRows]
      /\ \A s \in Sections : g[s] = IF s = sec THEN t.got[s] \cup I ELSE t.got[s]
  BY <1>3, <1>5
<1> HIDE DEF g
<1>8. /\ now \in Read /\ now.id = t.id /\ now.token = t.token /\ now.revision = t.revision
      /\ now.pages = t.pages /\ now.next = t.next /\ now.asked = t.asked
      /\ now.settled = t.settled /\ now.got = g
  BY <1>6, <1>7 DEF Read, g
<1>9. ASSUME ~t.settled, NEW n \in 1 .. t.next - 1, n \notin t.asked, ~Holds(mid, t.id, n)
      PROVE  Items(pub, t, n) \subseteq now.got[t.pages[n].section]
 <2>1. t.pages[n].section \in Sections
  <3>1. n \in 1 .. Len(t.pages) BY <1>2, <1>3
  <3> QED BY <1>2, <3>1, ItemsFacts
 <2>2. CASE n = k BY <1>7, <1>8, <2>1, <2>2 DEF sec, I
 <2>3. CASE n # k
  <3>1. ~Holds(st, t.id, n) BY <1>9, <2>3
  <3>2. Items(pub, t, n) \subseteq t.got[t.pages[n].section] BY <1>2, <1>9, <3>1 DEF Collected
  <3> QED BY <1>7, <1>8, <2>1, <3>2
 <2> QED BY <2>2, <2>3
<1>10. ASSUME ~t.settled, NEW s \in Sections PROVE now.got[s] \subseteq RowsOf(pub[t.revision][s])
 <2>1. t.got[s] \subseteq RowsOf(pub[t.revision][s]) BY <1>2, <1>10 DEF Collected
 <2>2. now.got[s] = IF s = sec THEN t.got[s] \cup I ELSE t.got[s] BY <1>7, <1>8
 <2>3. CASE s = sec BY <1>5, <2>1, <2>2, <2>3
 <2>4. CASE s # sec BY <2>1, <2>2, <2>4
 <2> QED BY <2>3, <2>4
<1> QED BY <1>2, <1>8, <1>9, <1>10

(* A worker goes on: with another page, or it is through.                  *)
LEMMA AskingGood ==
  ASSUME ServerFits(server, published),
         NEW ss, NEW st, NEW q, Good(ss, st, q), TaskFits(st), NEW mid, Taken(st, mid),
         NEW t \in st.reads, OwnAnswers(published, st, mid, t),
         NEW k, NEW now, Answered(published, st, mid, t, k, now)
  PROVE  Good(ss, Asking(mid, t, now), q) /\ TaskFits(Asking(mid, t, now))
<1> DEFINE z == Sent(st, q)
           U == Asking(mid, t, now)
<1>1. /\ st \in Store /\ mid \in Store /\ Alike(st, mid) /\ mid.out = st.out
      /\ q \in Seq(Message) /\ st.status = "current"
      /\ ShownFits(server, published, st) /\ ReadsFit(published, st) /\ MailFits(published, st, z)
  BY DEF Good, Fits, Taken, Answered
<1>2. t \in Read BY <1>1 DEF Store
<1>3. /\ now \in Read /\ now.id = t.id /\ now.token = t.token /\ now.revision = t.revision
      /\ now.pages = t.pages /\ now.next = t.next /\ now.asked = t.asked
      /\ now.settled = t.settled /\ t.revision = st.baseline.revision
      /\ t.token <= mid.catalog /\ t.next <= Len(t.pages) + 1 /\ t.asked \subseteq 1 .. t.next - 1
      /\ t.pages = PagesOf(Lengths(published, t.revision))
  BY <1>1, <1>2, GotFits
<1>4. ~t.settled =>
        /\ \A n \in 1 .. t.next - 1 : n \notin t.asked /\ ~Holds(mid, t.id, n) =>
             Items(published, t, n) \subseteq now.got[t.pages[n].section]
        /\ \A s \in Sections : now.got[s] \subseteq RowsOf(published[t.revision][s])
  BY <1>1, <1>2, GotFits
<1>5. t.next \in Nat \ {0} /\ t.pages \in Seq(Key) /\ t.asked \subseteq Nat BY <1>2 DEF Read
<1> HIDE DEF z
<1>6. CASE now.next <= Len(now.pages)
 <2> DEFINE n == now.next
            more == [now EXCEPT !.next = @ + 1, !.asked = @ \cup {n}]
            ask == [task |-> now, page |-> n]
            u == Replace(mid, t, more)
            b == <<ask>>
 <2>1. U = [u EXCEPT !.out = Append(@, ask)] BY <1>6 DEF Asking
 <2>2. /\ more \in Read /\ more.id = t.id /\ more.token = t.token /\ more.revision = t.revision
       /\ more.pages = t.pages /\ more.next = t.next + 1 /\ more.asked = t.asked \cup {t.next}
       /\ more.got = now.got /\ more.settled = t.settled
  <3> DEFINE n1 == now.next + 1
             asked == now.asked \cup {now.next}
  <3>1. n1 = t.next + 1 /\ n1 \in Nat \ {0} /\ asked = t.asked \cup {t.next}
        /\ asked \subseteq Nat
    BY <1>3, <1>5
  <3>2. more = [now EXCEPT !.next = n1, !.asked = asked] OBVIOUS
  <3> HIDE DEF n1, asked, more
  <3>3. more \in Read /\ more.next = n1 /\ more.asked = asked /\ more.got = now.got
        /\ more.settled = now.settled /\ more.id = now.id /\ more.token = now.token
        /\ more.revision = now.revision /\ more.pages = now.pages
    BY <1>3, <3>1, <3>2 DEF Read
  <3> QED BY <1>3, <3>1, <3>3
 <2>3. ask \in Asked /\ n = t.next BY <1>3, <1>5 DEF Asked
 <2> HIDE DEF more, ask, n
 <2>4. ReadFits(published, mid, more)
  <3>1. more.token <= mid.catalog /\ more.next <= Len(more.pages) + 1
        /\ more.asked \subseteq 1 .. more.next - 1
    BY <1>3, <1>5, <1>6, <2>2
  <3>2. Going(published, mid, more)
   <4>1. ASSUME ~t.settled PROVE Collected(published, mid, more)
    <5>1. ASSUME NEW i \in 1 .. more.next - 1, i \notin more.asked, ~Holds(mid, more.id, i)
          PROVE  Items(published, more, i) \subseteq more.got[more.pages[i].section]
     <6>1. i \in 1 .. t.next - 1 /\ i \notin t.asked /\ ~Holds(mid, t.id, i) BY <1>5, <2>2, <5>1
     <6>2. Items(published, more, i) = Items(published, t, i) BY <2>2 DEF Items
     <6> QED BY <1>4, <2>2, <4>1, <6>1, <6>2
    <5> QED BY <1>4, <2>2, <4>1, <5>1 DEF Collected
   <4> QED BY <1>1, <1>3, <2>2, <4>1 DEF Going, Alike
  <3> QED BY <3>1, <3>2 DEF ReadFits
 <2>5. /\ Good(ss, u, q) /\ u \in Store /\ Alike(st, u) /\ u.out = st.out /\ u.task = st.task
       /\ \A x \in st.reads \ {t} : x \in u.reads
       /\ more \in u.reads
  <3>1. t.next <= more.next /\ t.asked \subseteq more.asked /\ more.asked # {} BY <1>5, <2>2
  <3>2. LET v == Replace(mid, t, more)
        IN /\ Good(ss, v, q) /\ v \in Store /\ Alike(st, v) /\ v.out = st.out
           /\ v.task = st.task
           /\ \A x \in st.reads \ {t} : x \in v.reads
           /\ (more.settled /\ more.asked = {} /\ ~Waits(mid, t.id)) \/ more \in v.reads
    BY <2>2, <2>4, <3>1, ReplaceGood
  <3> QED BY <3>1, <3>2
 <2> HIDE DEF u
 <2>6. TaskFits(u) BY <2>2, <2>5 DEF TaskFits
 <2>7. b \in Seq(Asked) /\ Len(b) = 1 /\ DOMAIN b = {1} /\ b[1] = ask BY <2>3
 <2>8. /\ U \in Store /\ U.out = u.out \o b /\ U.task = u.task /\ U.reads = u.reads
       /\ Alike(u, U) /\ U.micro = u.micro
  <3>1. u.out \in Seq(Asked) BY <2>5 DEF Store
  <3>2. Append(u.out, ask) \in Seq(Asked) /\ Append(u.out, ask) = u.out \o b BY <2>3, <3>1
  <3> HIDE DEF b, U
  <3> QED BY <2>1, <2>5, <3>2 DEF Store, Alike
 <2> HIDE DEF b, U
 <2>9. Fits(server, published, ss, u, z) BY <1>1, <2>5 DEF Good, z, Sent
 <2>10. Fits(server, published, ss, u, z \o Replies(b))
  <3>1. \A i \in DOMAIN b :
         /\ b[i].task.revision = u.baseline.revision
         /\ b[i].page \in DOMAIN b[i].task.pages
         /\ \E x \in u.reads :
              /\ x.id = b[i].task.id /\ x.revision = b[i].task.revision
              /\ x.pages = b[i].task.pages /\ b[i].page \in x.asked
   <4>1. ask.task = now /\ ask.page = t.next BY <2>3 DEF ask
   <4>2. u.baseline.revision = t.revision BY <1>3, <2>5 DEF Alike
   <4>3. t.next \in DOMAIN t.pages BY <1>3, <1>5, <1>6
   <4> QED BY <1>3, <2>2, <2>5, <2>7, <4>1, <4>2, <4>3
  <3>2. \A i, j \in DOMAIN b :
         b[i].task.id = b[j].task.id /\ b[i].page = b[j].page => i = j
    BY <2>7
  <3>3. \A i \in DOMAIN b, j \in DOMAIN z :
         ~ (z[j].kind = "page" /\ z[j].task = b[i].task.id /\ z[j].page = b[i].page)
   <4>1. ask.task.id = t.id /\ ask.page = t.next BY <1>3, <2>3 DEF ask
   <4> SUFFICES ASSUME NEW j \in DOMAIN z, z[j].kind = "page", z[j].task = t.id,
                       z[j].page = t.next
                PROVE  FALSE
     BY <2>7, <4>1
   <4>2. PICK x \in st.reads : x.id = t.id /\ t.next \in x.asked BY <1>1 DEF MailFits
   <4>3. x = t BY <1>1, <4>2 DEF ReadsFit
   <4> QED BY <1>3, <1>5, <4>2, <4>3
  <3>4. u.status = "current" BY <1>1, <2>5 DEF Alike
  <3> QED BY <2>7, <2>9, <3>1, <3>2, <3>3, <3>4, Asks
 <2>11. Sent(U, q) = z \o Replies(b)
  <3>1. u.out \in Seq(Asked) /\ b \in Seq(Asked) /\ U.out = u.out \o b /\ q \in Seq(Message)
    BY <1>1, <2>5, <2>7, <2>8 DEF Store
  <3>2. Sent(U, q) = Sent(u, q) \o Replies(b) BY <3>1, SentMore
  <3>3. Sent(u, q) = z BY <2>5 DEF Sent, z
  <3> QED BY <3>2, <3>3
 <2>12. Fits(server, published, ss, U, z \o Replies(b)) BY <2>8, <2>10, SameFits
 <2> QED BY <1>1, <2>6, <2>8, <2>11, <2>12 DEF Good, TaskFits, U
<1>7. CASE ~ (now.next <= Len(now.pages))
 <2> DEFINE u == Replace(mid, t, now)
 <2>1. U = u BY <1>7 DEF Asking
 <2>2. ReadFits(published, mid, now)
  <3>1. Going(published, mid, now)
   <4>1. ASSUME ~t.settled PROVE Collected(published, mid, now)
    <5>1. ASSUME NEW i \in 1 .. now.next - 1, i \notin now.asked, ~Holds(mid, now.id, i)
          PROVE  Items(published, now, i) \subseteq now.got[now.pages[i].section]
     <6>1. Items(published, now, i) = Items(published, t, i) BY <1>3 DEF Items
     <6> QED BY <1>3, <1>4, <4>1, <5>1, <6>1
    <5>2. now.next = Len(now.pages) + 1 BY <1>3, <1>5, <1>7
    <5> QED BY <1>3, <1>4, <4>1, <5>1, <5>2 DEF Collected
   <4> QED BY <1>1, <1>3, <4>1 DEF Going, Alike
  <3> QED BY <1>3, <3>1 DEF ReadFits
 <2>3. t.next <= now.next /\ t.asked \subseteq now.asked BY <1>3, <1>5
 <2>4. /\ Good(ss, u, q) /\ u.task = st.task
       /\ \A x \in st.reads \ {t} : x \in u.reads
       /\ (now.settled /\ now.asked = {} /\ ~Waits(mid, t.id)) \/ now \in u.reads
   BY <1>3, <2>2, <2>3, ReplaceGood
 <2> HIDE DEF u
 <2>5. TaskFits(u)
  <3> SUFFICES ASSUME u.task # NoTask PROVE \E x \in u.reads : x.id = u.task /\ ~x.settled
    BY DEF TaskFits
  <3>1. PICK x \in st.reads : x.id = st.task /\ ~x.settled BY <2>4 DEF TaskFits
  <3>2. CASE x = t BY <1>3, <2>4, <3>1, <3>2
  <3>3. CASE x # t BY <2>4, <3>1, <3>3
  <3> QED BY <3>2, <3>3
 <2> QED BY <2>1, <2>4, <2>5 DEF u
<1> QED BY <1>6, <1>7

(* A worker goes on with its answer, whatever it is.                       *)
LEMMA TakeGood ==
  ASSUME ServerFits(server, published),
         NEW ss, NEW st, NEW q, Good(ss, st, q), TaskFits(st), st.micro # <<>>
  PROVE  LET m == Head(st.micro)
             t == CHOOSE x \in st.reads : x.id = m.task
             u == Take([st EXCEPT !.micro = Tail(@)], t, m)
         IN Good(ss, u, q) /\ TaskFits(u)
<1> DEFINE m == Head(st.micro)
           t == CHOOSE x \in st.reads : x.id = m.task
           mid == [st EXCEPT !.micro = Tail(@)]
           u == Take(mid, t, m)
<1>1. /\ st \in Store /\ q \in Seq(Message)
      /\ ShownFits(server, published, st) /\ ReadsFit(published, st)
  BY DEF Good, Fits
<1>2. st.micro \in Seq(Settled) BY <1>1 DEF Store
<1>3. /\ Tail(st.micro) \in Seq(Settled) /\ Len(st.micro) \in Nat \ {0}
      /\ m = st.micro[1] /\ m \in Settled /\ 1 \in DOMAIN st.micro
      /\ \A i \in DOMAIN Tail(st.micro) : i + 1 \in DOMAIN st.micro
                                         /\ Tail(st.micro)[i] = st.micro[i + 1]
      /\ \A j \in DOMAIN st.micro :
           j = 1 \/ (j - 1 \in DOMAIN Tail(st.micro) /\ Tail(st.micro)[j - 1] = st.micro[j])
  BY <1>2, TailFacts
<1>4. PICK x \in st.reads : /\ x.id = m.task /\ m.page \in 1 .. x.next - 1
                            /\ Current(st, x) => AnswerFits(published, x, m.page, m.answer)
  BY <1>1, <1>3 DEF ReadsFit, MicroFits
<1>5. t \in st.reads /\ t.id = m.task BY <1>4
<1>6. t = x BY <1>1, <1>4, <1>5 DEF ReadsFit
<1> HIDE DEF m, t
<1>7. /\ Taken(st, mid) /\ mid.micro = Tail(st.micro) BY <1>1, <1>3 DEF Store, Taken, Alike
<1> HIDE DEF mid
<1>8. OwnAnswers(published, st, mid, t) BY <1>3, <1>5, <1>7 DEF OwnAnswers
<1>9. Current(mid, t) = Current(st, t) BY <1>7 DEF Taken, Alike, Current
<1>10. CASE ~m.answer.ok
 <2>1. u = Fail(mid, t, m.answer.code) BY <1>10 DEF Take
 <2>2. Current(st, t) => m.answer.code = "fault" BY <1>4, <1>6, <1>10 DEF AnswerFits
 <2> HIDE DEF u
 <2>3. Good(ss, Fail(mid, t, m.answer.code), q) /\ TaskFits(Fail(mid, t, m.answer.code))
   BY <1>5, <1>7, <1>8, <2>2, FailGood
 <2> QED BY <2>1, <2>3 DEF u, mid, t, m
<1>11. CASE m.answer.ok /\ ~Current(st, t)
 <2>1. u = Replace(mid, t, t) BY <1>9, <1>11 DEF Take
 <2>2. t \in Read BY <1>1, <1>5 DEF Store
 <2>3. ReadFits(published, mid, t)
  <3>1. ReadFits(published, st, t) /\ mid.catalog = st.catalog
    BY <1>1, <1>5, <1>7 DEF ReadsFit, Taken, Alike
  <3> QED BY <1>9, <1>11, <3>1 DEF ReadFits
 <2>4. t.next <= t.next /\ t.asked \subseteq t.asked BY <2>2 DEF Read
 <2>5. LET v == Replace(mid, t, t)
       IN /\ Good(ss, v, q) /\ v.task = st.task
          /\ \A y \in st.reads \ {t} : y \in v.reads
          /\ (t.settled /\ t.asked = {} /\ ~Waits(mid, t.id)) \/ t \in v.reads
   BY <1>5, <1>7, <1>8, <2>2, <2>3, <2>4, ReplaceGood
 <2> HIDE DEF u
 <2>6. /\ Good(ss, u, q) /\ u.task = st.task
       /\ \A y \in st.reads \ {t} : y \in u.reads
       /\ (t.settled /\ t.asked = {} /\ ~Waits(mid, t.id)) \/ t \in u.reads
   BY <2>1, <2>5
 <2>7. TaskFits(u)
  <3> SUFFICES ASSUME u.task # NoTask PROVE \E y \in u.reads : y.id = u.task /\ ~y.settled
    BY DEF TaskFits
  <3>1. PICK y \in st.reads : y.id = st.task /\ ~y.settled BY <2>6 DEF TaskFits
  <3> QED BY <2>6, <3>1
 <2> QED BY <2>6, <2>7 DEF u, mid, t, m
<1>12. CASE m.answer.ok /\ Current(st, t)
 <2> DEFINE section == t.pages[m.page].section
            now == [t EXCEPT !.got[section] = @ \cup m.answer.items]
 <2>1. m.answer.revision = t.revision /\ m.answer.items = Items(published, t, m.page)
   BY <1>4, <1>6, <1>12 DEF AnswerFits
 <2>2. u = Asking(mid, t, now) BY <1>9, <1>12, <2>1 DEF Take
 <2>3. Answered(published, st, mid, t, m.page, now)
  <3>1. st.status = "current" BY <1>12 DEF Current
  <3>2. now = [t EXCEPT !.got[t.pages[m.page].section] = @ \cup Items(published, t, m.page)] BY <2>1
  <3> HIDE DEF now
  <3>3. \A n : Holds(st, t.id, n) => n = m.page \/ Holds(mid, t.id, n)
   <4> SUFFICES ASSUME NEW n, Holds(st, t.id, n), n # m.page PROVE Holds(mid, t.id, n) OBVIOUS
   <4>1. PICK i \in DOMAIN st.micro : st.micro[i].task = t.id /\ st.micro[i].page = n BY DEF Holds
   <4>2. i # 1 BY <1>3, <4>1
   <4>3. i - 1 \in DOMAIN mid.micro /\ mid.micro[i - 1] = st.micro[i] BY <1>3, <1>7, <4>2
   <4> QED BY <4>1, <4>3 DEF Holds
  <3> QED BY <1>4, <1>6, <1>7, <1>12, <3>1, <3>2, <3>3 DEF Answered, Taken
 <2> HIDE DEF now, u
 <2>4. Good(ss, Asking(mid, t, now), q) /\ TaskFits(Asking(mid, t, now))
   BY <1>5, <1>7, <1>8, <2>3, AskingGood
 <2> QED BY <2>2, <2>4 DEF u, mid, t, m
<1> QED BY <1>10, <1>11, <1>12

-----------------------------------------------------------------------------
(* The view of another revision or evidence: what reads, messages and      *)
(* subscriptions know of it is its revision.                               *)
LEMMA ViewGood ==
  ASSUME NEW ss, NEW st, NEW q, Good(ss, st, q), st.status = "current",
         NEW b, ViewFits(server, published, b), b.revision = st.baseline.revision,
         NEW id, TaskBut(st, id), NEW code \in {None, "fault"}
  PROVE  LET u == [st EXCEPT !.baseline = b, !.data = b, !.error = code]
         IN Good(ss, u, q) /\ TaskBut(u, id)
<1> DEFINE u == [st EXCEPT !.baseline = b, !.data = b, !.error = code]
           z == Sent(st, q)
<1>1. st \in Store /\ q \in Seq(Message) /\ Fits(server, published, ss, st, z) BY DEF Good, Fits
<1>2. b \in Views BY DEF ViewFits
<1>3. /\ u \in Store /\ u.baseline = b /\ u.data = b /\ u.status = st.status
      /\ u.active = st.active /\ u.generation = st.generation /\ u.catalog = st.catalog
      /\ u.reads = st.reads /\ u.micro = st.micro /\ u.out = st.out /\ u.task = st.task
      /\ u.unsubscribe = st.unsubscribe /\ u.baseline.revision = st.baseline.revision
  BY <1>1, <1>2 DEF Store
<1> HIDE DEF u
<1>4. Sent(u, q) = z BY <1>3 DEF Sent
<1> HIDE DEF z
<1>5. ShownFits(server, published, u) BY <1>1, <1>3 DEF Fits, ShownFits
<1>6. SubsFit(ss, u, z) BY <1>1, <1>3 DEF Fits, SubsFit
<1>7. EventsFit(server, published, u, z) BY <1>1, <1>3 DEF Fits, EventsFit
<1>8. (\A x : Current(u, x) = Current(st, x)) /\ (\A m : Moves(u, m) = Moves(st, m))
  BY <1>3 DEF Current, Moves
<1>9. ReadsFit(published, u)
 <2>1. \A x : ReadFits(published, st, x) => ReadFits(published, u, x)
   BY <1>3, <1>8 DEF ReadFits, Going, Collected, Holds, Waits
 <2>2. \A m : MicroFits(published, st, m) => MicroFits(published, u, m) BY <1>3, <1>8 DEF MicroFits
 <2> QED BY <1>1, <1>3, <2>1, <2>2 DEF Fits, ReadsFit
<1>10. MailFits(published, u, z) BY <1>1, <1>3, <1>8 DEF Fits, MailFits
<1>11. Good(ss, u, q) BY <1>1, <1>3, <1>4, <1>5, <1>6, <1>7, <1>9, <1>10 DEF Good, Fits
<1>12. TaskBut(u, id) BY <1>3 DEF TaskBut
<1> QED BY <1>11, <1>12 DEF u

(* The pages of a read that waits for nothing are its revision, whole.     *)
LEMMA GotIsWhole ==
  ASSUME NEW sv, NEW pub, NEW st, ShownFits(sv, pub, st), ReadsFit(pub, st),
         NEW t \in st.reads, t \in Read, Current(st, t), Ended(st, t)
  PROVE  ViewFits(sv, pub, Entry(st.baseline, TRUE, FALSE, t.got))
<1> DEFINE b == st.baseline
           d == Entry(b, TRUE, FALSE, t.got)
           c == pub[t.revision]
<1>1. st.status = "current" /\ ~t.settled /\ t.asked = {} /\ ~Waits(st, t.id)
  BY DEF Current, Ended, Waits
<1>2. ViewFits(sv, pub, b) BY <1>1 DEF ShownFits
<1>3. ReadFits(pub, st, t) /\ Going(pub, st, t) BY DEF ReadsFit, ReadFits
<1>4. /\ t.revision = b.revision /\ t.pages = PagesOf(Lengths(pub, t.revision))
      /\ Collected(pub, st, t)
  BY <1>1, <1>3 DEF Going
<1>5. b \in Views /\ c \in Contents BY <1>2, <1>4 DEF ViewFits
<1>6. t.got \in [Sections -> SUBSET AllRows] /\ t.pages \in Seq(Key) /\ t.next \in Nat BY DEF Read
<1> HIDE DEF b
<1>7. d \in Views BY <1>5, <1>6, EntryType, ViewIs
<1>8. d.rows = t.got /\ d.revision = t.revision /\ d.totals = b.totals /\ d.stale = FALSE
  BY <1>4 DEF Entry
<1>9. ASSUME NEW s \in Sections PROVE t.got[s] = RowsOf(c[s])
 <2>1. t.got[s] \subseteq RowsOf(c[s]) BY <1>4 DEF Collected
 <2>2. t.pages = PagesOf([x \in Sections |-> Len(c[x])]) BY <1>4 DEF Lengths
 <2>3. t.next = Len(t.pages) + 1 BY <1>1, <1>4 DEF Collected
 <2>4. ASSUME NEW r \in RowsOf(c[s]) PROVE r \in t.got[s]
  <3> HIDE DEF c
  <3>1. PICK k \in DOMAIN t.pages :
          t.pages[k].section = s /\ r \in PageItems(t.pages[k], c[s])
    BY <1>5, <2>2, <2>4, PagesCover
  <3>2. k \in 1 .. t.next - 1 BY <1>6, <2>3, <3>1
  <3>3. ~Holds(st, t.id, k) BY <1>1 DEF Waits, Holds
  <3>4. Items(pub, t, k) \subseteq t.got[t.pages[k].section] BY <1>1, <1>4, <3>2, <3>3 DEF Collected
  <3> QED BY <3>1, <3>4 DEF Items, c
 <2> QED BY <2>1, <2>4
<1> HIDE DEF d, c
<1>10. Whole(pub, d) BY <1>8, <1>9 DEF Whole, c
<1>11. ViewFits(sv, pub, d) BY <1>2, <1>4, <1>5, <1>7, <1>8, <1>10 DEF ViewFits, c
<1> QED BY <1>11 DEF d, b

(* A read that ends installs its pages, or is dropped.                     *)
LEMMA CompleteGood ==
  ASSUME ServerFits(server, published),
         NEW ss, NEW st, NEW q, Good(ss, st, q), TaskFits(st),
         NEW t \in st.reads, Ended(st, t)
  PROVE  Good(ss, Complete(st, t), q) /\ TaskFits(Complete(st, t))
<1> DEFINE ended == Replace(st, t, [t EXCEPT !.settled = TRUE])
           data == Entry(st.baseline, TRUE, FALSE, t.got)
           shown == [ended EXCEPT !.baseline = data, !.data = data, !.error = None]
<1>1. st \in Store /\ ShownFits(server, published, st) /\ ReadsFit(published, st) BY DEF Good, Fits
<1>2. t \in Read BY <1>1 DEF Store
<1>3. Taken(st, st) BY <1>1 DEF Taken, Alike
<1>4. OwnAnswers(published, st, st, t) BY DEF OwnAnswers
<1>5. Good(ss, ended, q) /\ Alike(st, ended) /\ TaskBut(ended, t.id) BY <1>3, <1>4, Settles
<1> HIDE DEF ended, data
<1>6. CASE Current(st, t)
 <2>1. ViewFits(server, published, data) BY <1>1, <1>2, <1>6, GotIsWhole DEF data
 <2>2. ended.status = "current" /\ data.revision = ended.baseline.revision
  <3>1. data.revision = st.baseline.revision BY DEF Entry, data
  <3> QED BY <1>5, <1>6, <3>1 DEF Current, Alike
 <2>3. Good(ss, shown, q) /\ TaskBut(shown, t.id) BY <1>5, <2>1, <2>2, ViewGood
 <2> HIDE DEF shown
 <2>4. Good(ss, Update(shown), q) /\ TaskBut(Update(shown), t.id) BY <2>3, UpdateGood
 <2>5. Complete(st, t) = Finally(Update(shown), t) BY <1>6 DEF Complete, shown, ended, data
 <2>6. Good(ss, Finally(Update(shown), t), q) /\ TaskFits(Finally(Update(shown), t))
   BY <2>4, FinallyGood
 <2> QED BY <2>5, <2>6
<1>7. CASE ~Current(st, t)
 <2>1. Complete(st, t) = Finally(ended, t) BY <1>7 DEF Complete, ended
 <2>2. Good(ss, Finally(ended, t), q) /\ TaskFits(Finally(ended, t)) BY <1>5, FinallyGood
 <2> QED BY <2>1, <2>2
<1> QED BY <1>6, <1>7

-----------------------------------------------------------------------------
(* Messages leave the queue *)

(* Subscriptions rely on results only.                                     *)
LEMMA TailSubs ==
  ASSUME NEW ss, NEW st, NEW q \in Seq(Message), SubsFit(ss, st, q), q # <<>>,
         q[1].kind # "result"
  PROVE  SubsFit(ss, st, Tail(q))
<1> DEFINE z == Tail(q)
<1>0. /\ \A i \in DOMAIN z : i + 1 \in DOMAIN q /\ z[i] = q[i + 1]
      /\ \A j \in DOMAIN q : j = 1 \/ (j - 1 \in DOMAIN z /\ z[j - 1] = q[j])
  BY TailFacts
<1> HIDE DEF z
<1>2. \A i \in DOMAIN z : z[i].kind # "page" => z[i].generation <= st.generation BY <1>0 DEF SubsFit
<1>3. \A i \in DOMAIN z : z[i].kind \notin {"page", "refused"} /\ z[i].generation = st.generation =>
        LiveIn(ss, st.generation)
  BY <1>0 DEF SubsFit
<1>4. \A i \in DOMAIN z : z[i].kind = "refused" => \A s \in ss : s.generation # z[i].generation
  BY <1>0 DEF SubsFit
<1>5. ASSUME NEW s \in ss, s.stage = "live"
      PROVE  \/ s.generation = st.generation /\ st.unsubscribe = s.generation
             \/ \E i \in DOMAIN z : z[i].kind = "result" /\ z[i].generation = s.generation
 <2>1. CASE s.generation = st.generation /\ st.unsubscribe = s.generation BY <2>1
 <2>2. CASE ~ (s.generation = st.generation /\ st.unsubscribe = s.generation)
  <3>1. PICK i \in DOMAIN q : q[i].kind = "result" /\ q[i].generation = s.generation
    BY <1>5, <2>2 DEF SubsFit
  <3>2. i # 1 BY <3>1
  <3> QED BY <1>0, <3>1, <3>2
 <2> QED BY <2>1, <2>2
<1> QED BY <1>2, <1>3, <1>4, <1>5 DEF SubsFit, z

(* A queue without its first message, which was nothing that view or reads *)
(* rely on.                                                                *)
LEMMA TailRest ==
  ASSUME NEW sv, NEW pub, NEW ss, NEW st, NEW q, Fits(sv, pub, ss, st, q), q # <<>>,
         IsNews(q[1], st.generation) => st.status = "current" /\ ~Moves(st, q[1])
  PROVE  /\ Tail(q) \in Seq(Message)
         /\ EventsFit(sv, pub, st, Tail(q)) /\ MailFits(pub, st, Tail(q))
<1> DEFINE z == Tail(q)
<1>1. q \in Seq(Message) BY DEF Fits
<1>2. /\ z \in Seq(Message)
      /\ \A i \in DOMAIN z : i + 1 \in DOMAIN q /\ z[i] = q[i + 1]
      /\ \A j \in DOMAIN q : j = 1 \/ (j - 1 \in DOMAIN z /\ z[j - 1] = q[j])
  BY <1>1, TailFacts
<1>3. DOMAIN z \subseteq Nat \ {0} /\ DOMAIN q \subseteq Nat \ {0} /\ 1 \in DOMAIN q BY <1>1, <1>2
<1> HIDE DEF z
<1>5. EventsFit(sv, pub, st, z)
 <2>1. EventsFit(sv, pub, st, q) BY DEF Fits
 <2>2. \A i \in DOMAIN z : z[i].kind = "event" => SummaryFits(sv, pub, z[i].summary)
   BY <1>2, <2>1 DEF EventsFit
 <2>3. \A i, j \in DOMAIN z : i < j /\ z[i].kind = "event" /\ z[j].kind = "event" =>
         z[i].summary.revision <= z[j].summary.revision
  <3> TAKE i, j \in DOMAIN z
  <3> HAVE i < j /\ z[i].kind = "event" /\ z[j].kind = "event"
  <3>1. i + 1 \in DOMAIN q /\ j + 1 \in DOMAIN q /\ i + 1 < j + 1
        /\ z[i] = q[i + 1] /\ z[j] = q[j + 1]
    BY <1>2, <1>3
  <3> QED BY <2>1, <3>1 DEF EventsFit
 <2>4. st.status = "current" =>
         \A i \in DOMAIN z : z[i].kind = "event" => st.baseline.revision <= z[i].summary.revision
   BY <1>2, <2>1 DEF EventsFit
 <2>5. st.status = "current" =>
         \/ sv.available /\ sv.revision = st.baseline.revision
         \/ \E j \in DOMAIN z : Tells(sv, z[j], st.generation)
  <3> SUFFICES ASSUME st.status = "current",
                      ~ (sv.available /\ sv.revision = st.baseline.revision)
               PROVE  \E j \in DOMAIN z : Tells(sv, z[j], st.generation)
    OBVIOUS
  <3>1. PICK j \in DOMAIN q : Tells(sv, q[j], st.generation) BY <2>1 DEF EventsFit
  <3>2. j # 1 BY <3>1 DEF Tells, Moves
  <3> QED BY <1>2, <3>1, <3>2
 <2>6. \A i \in DOMAIN z : IsNews(z[i], st.generation) =>
         \E j \in DOMAIN z : i <= j /\ Tells(sv, z[j], st.generation)
  <3> TAKE i \in DOMAIN z
  <3> HAVE IsNews(z[i], st.generation)
  <3>1. i + 1 \in DOMAIN q /\ IsNews(q[i + 1], st.generation) BY <1>2
  <3>2. PICK j \in DOMAIN q : i + 1 <= j /\ Tells(sv, q[j], st.generation)
    BY <2>1, <3>1 DEF EventsFit
  <3>3. i \in Nat /\ i # 0 /\ j \in Nat /\ i + 1 <= j BY <1>3, <3>2
  <3>4. j # 1 /\ i <= j - 1 BY <3>3
  <3> QED BY <1>2, <3>2, <3>4
 <2> QED BY <2>2, <2>3, <2>4, <2>5, <2>6 DEF EventsFit
<1>6. MailFits(pub, st, z)
 <2>1. MailFits(pub, st, q) BY DEF Fits
 <2>2. ASSUME NEW i \in DOMAIN z, z[i].kind = "page"
       PROVE  \E t \in st.reads :
                /\ t.id = z[i].task /\ z[i].page \in t.asked
                /\ Current(st, t) => \/ AnswerFits(pub, t, z[i].page, z[i].answer)
                                     \/ \E j \in DOMAIN z : j < i /\ Moves(st, z[j])
  <3>1. i + 1 \in DOMAIN q /\ z[i] = q[i + 1] BY <1>2
  <3>2. PICK t \in st.reads :
          /\ t.id = z[i].task /\ z[i].page \in t.asked
          /\ Current(st, t) => \/ AnswerFits(pub, t, z[i].page, z[i].answer)
                               \/ \E j \in DOMAIN q : j < i + 1 /\ Moves(st, q[j])
    BY <2>1, <2>2, <3>1 DEF MailFits
  <3>3. ASSUME NEW j \in DOMAIN q, j < i + 1, Moves(st, q[j])
        PROVE  \E n \in DOMAIN z : n < i /\ Moves(st, z[n])
   <4>1. j # 1 BY <3>3 DEF Moves
   <4>2. j - 1 < i BY <1>3, <3>3
   <4> QED BY <1>2, <3>3, <4>1, <4>2
  <3> QED BY <3>2, <3>3
 <2>3. ASSUME NEW i \in DOMAIN z, NEW j \in DOMAIN z, z[i].kind = "page", z[j].kind = "page",
              z[i].task = z[j].task, z[i].page = z[j].page
       PROVE  i = j
  <3>1. i + 1 \in DOMAIN q /\ j + 1 \in DOMAIN q /\ z[i] = q[i + 1] /\ z[j] = q[j + 1] BY <1>2
  <3>2. i + 1 = j + 1 BY <2>1, <2>3, <3>1 DEF MailFits
  <3> QED BY <1>3, <3>2
 <2> QED BY <2>2, <2>3 DEF MailFits
<1> QED BY <1>2, <1>5, <1>6 DEF z

(* Or that subscriptions rely on.                                          *)
LEMMA TailQuiet ==
  ASSUME NEW sv, NEW pub, NEW ss, NEW st, NEW q, Fits(sv, pub, ss, st, q), q # <<>>,
         q[1].kind # "result",
         IsNews(q[1], st.generation) => st.status = "current" /\ ~Moves(st, q[1])
  PROVE  Fits(sv, pub, ss, st, Tail(q))
<1>1. SubsFit(ss, st, Tail(q)) BY TailSubs DEF Fits
<1> QED BY <1>1, TailRest DEF Fits

(* A reply resolves its request: the answer waits for its microtask.       *)
LEMMA ResolvedGood ==
  ASSUME NEW ss, NEW st, NEW q, Fits(server, published, ss, st, q), st.out = <<>>,
         TaskFits(st), q # <<>>, q[1].kind = "page",
         NEW answer, answer \in {q[1].answer, Failure("fault")}
  PROVE  LET u == Resolved(st, q[1], answer) IN Good(ss, u, Tail(q)) /\ TaskFits(u)
<1> DEFINE m == q[1]
           t == CHOOSE x \in st.reads : x.id = m.task
           item == [task |-> m.task, page |-> m.page, answer |-> answer]
           queued == [st EXCEPT !.micro = Append(@, item)]
           now == [t EXCEPT !.asked = @ \ {m.page}]
           u == Resolved(st, m, answer)
           z == Tail(q)
<1>1. /\ st \in Store /\ q \in Seq(Message) /\ ReadsFit(published, st)
      /\ MailFits(published, st, q)
  BY DEF Fits
<1>2. /\ 1 \in DOMAIN q /\ m \in Message
      /\ \A i \in DOMAIN z : i + 1 \in DOMAIN q /\ z[i] = q[i + 1]
  BY <1>1, TailFacts
<1>3. Fits(server, published, ss, st, z) BY TailQuiet DEF IsNews
<1>4. \A i \in DOMAIN z : z[i].kind = "page" => ~ (z[i].task = m.task /\ z[i].page = m.page)
 <2>1. \A i \in DOMAIN z : i + 1 # 1 BY <1>3 DEF Fits
 <2> QED BY <1>1, <1>2, <2>1 DEF MailFits
<1>5. \E x \in st.reads : /\ x.id = m.task /\ m.page \in x.asked
                          /\ Current(st, x) => AnswerFits(published, x, m.page, m.answer)
 <2>1. \A j \in DOMAIN q : ~ (j < 1) BY <1>1
 <2> QED BY <1>1, <1>2, <2>1 DEF MailFits
<1>6. t \in st.reads /\ t.id = m.task BY <1>5
<1>7. /\ m.page \in t.asked
      /\ Current(st, t) => AnswerFits(published, t, m.page, m.answer)
 <2> HIDE DEF t
 <2> QED BY <1>1, <1>5, <1>6 DEF ReadsFit
<1>8. m \in PageMessage BY <1>2 DEF Message
<1>9. answer \in Answer /\ m.task \in Nat /\ m.page \in Nat
 <2>1. m.answer \in Answer /\ m.task \in Nat /\ m.page \in Nat BY <1>8 DEF PageMessage
 <2>2. Failure("fault") \in Answer BY DEF Failure, Answer, Codes
 <2>3. answer \in {m.answer, Failure("fault")} OBVIOUS
 <2> QED BY <2>1, <2>2, <2>3, Zenon
<1> HIDE DEF m, t, z
<1>10. t \in Read /\ ReadFits(published, st, t) BY <1>1, <1>6 DEF Store, ReadsFit
<1>11. /\ now \in Read /\ now.id = t.id /\ now.token = t.token /\ now.revision = t.revision
       /\ now.pages = t.pages /\ now.next = t.next /\ now.asked = t.asked \ {m.page}
       /\ now.got = t.got /\ now.settled = t.settled /\ t.next \in Nat /\ t.asked \subseteq Nat
  BY <1>10 DEF Read
<1> HIDE DEF now
<1>12. item \in Settled /\ item.task = t.id /\ item.page = m.page /\ item.answer = answer
  BY <1>6, <1>9 DEF Settled
<1> HIDE DEF item
<1>13. /\ queued \in Store /\ Alike(st, queued) /\ queued.reads = st.reads
       /\ queued.out = st.out /\ queued.task = st.task /\ queued.micro = Append(st.micro, item)
 <2>1. st.micro \in Seq(Settled) BY <1>1 DEF Store
 <2>2. Append(st.micro, item) \in Seq(Settled) BY <1>12, <2>1
 <2> QED BY <1>1, <2>2 DEF Store, Alike
<1>14. u = Replace(queued, t, now) BY DEF Resolved, m, t, item, now
<1> HIDE DEF queued
<1>15. /\ st.micro \in Seq(Settled) /\ Len(st.micro) \in Nat
       /\ DOMAIN queued.micro = 1 .. Len(st.micro) + 1
       /\ queued.micro[Len(st.micro) + 1] = item
       /\ \A i \in DOMAIN st.micro : i \in DOMAIN queued.micro /\ queued.micro[i] = st.micro[i]
       /\ \A i \in DOMAIN queued.micro : i \in DOMAIN st.micro \/ queued.micro[i] = item
 <2>1. st.micro \in Seq(Settled) BY <1>1 DEF Store
 <2> QED BY <1>12, <1>13, <2>1
<1>16. ~ \A i \in DOMAIN queued.micro : queued.micro[i].task # t.id BY <1>12, <1>15
<1>17. /\ u \in Store /\ Alike(st, u) /\ u.reads = (st.reads \ {t}) \cup {now}
       /\ u.out = <<>> /\ u.task = st.task /\ u.micro = queued.micro
 <2>1. u = [queued EXCEPT !.reads = (st.reads \ {t}) \cup {now}] BY <1>13, <1>14, <1>16 DEF Replace
 <2>2. (st.reads \ {t}) \cup {now} \subseteq Read BY <1>1, <1>11 DEF Store
 <2> HIDE DEF u
 <2> QED BY <1>13, <2>1, <2>2 DEF Store, Alike
<1> HIDE DEF u
<1>18. Current(u, now) = Current(st, t) BY <1>11, <1>17 DEF Current, Alike
<1>19. ReadFits(published, u, now)
 <2>1. /\ now.token <= u.catalog /\ now.next <= Len(now.pages) + 1
       /\ now.asked \subseteq 1 .. now.next - 1
   BY <1>10, <1>11, <1>17 DEF ReadFits, Alike
 <2>2. ASSUME Current(st, t), ~t.settled PROVE Collected(published, u, now)
  <3>1. Collected(published, st, t) BY <1>10, <2>2 DEF ReadFits, Going
  <3>2. Holds(u, t.id, m.page) /\ Waits(u, t.id) BY <1>12, <1>15, <1>17 DEF Holds, Waits
  <3>3. \A k : Holds(st, t.id, k) => Holds(u, t.id, k) BY <1>15, <1>17 DEF Holds
  <3>4. ASSUME NEW k \in 1 .. now.next - 1, k \notin now.asked, ~Holds(u, now.id, k)
        PROVE  Items(published, now, k) \subseteq now.got[now.pages[k].section]
   <4>1. k \in 1 .. t.next - 1 /\ k \notin t.asked /\ ~Holds(st, t.id, k) BY <1>11, <3>2, <3>3, <3>4
   <4>2. Items(published, now, k) = Items(published, t, k) BY <1>11 DEF Items
   <4> QED BY <1>11, <3>1, <4>1, <4>2 DEF Collected
  <3> QED BY <1>11, <3>1, <3>2, <3>4 DEF Collected
 <2>3. Current(st, t) => Going(published, u, now)
  <3> SUFFICES ASSUME Current(st, t) PROVE Going(published, u, now) OBVIOUS
  <3>1. Going(published, st, t) BY <1>10 DEF ReadFits
  <3> QED BY <1>11, <1>17, <2>2, <3>1 DEF Going, Alike
 <2> QED BY <1>18, <2>1, <2>3 DEF ReadFits
<1>20. MicroFits(published, u, item)
 <2>1. m.page \in 1 .. now.next - 1 BY <1>7, <1>10, <1>11 DEF ReadFits
 <2>2. Current(u, now) => AnswerFits(published, now, m.page, answer)
  <3> SUFFICES ASSUME Current(st, t) PROVE AnswerFits(published, now, m.page, answer) BY <1>18
  <3>1. CASE answer = m.answer BY <1>7, <1>11, <3>1 DEF AnswerFits, Items
  <3>2. CASE answer = Failure("fault") BY <3>2 DEF AnswerFits, Failure
  <3> QED BY <3>1, <3>2 DEF m
 <2>3. now \in u.reads /\ now.id = item.task BY <1>11, <1>12, <1>17
 <2> QED BY <1>12, <2>1, <2>2, <2>3 DEF MicroFits
<1>21. ReadsFit(published, u) /\ MailFits(published, u, z)
 <2>1. Resumed(st, u, t, now)
  <3>1. t.next <= now.next BY <1>11
  <3> QED BY <1>6, <1>11, <1>17, <3>1 DEF Resumed
 <2>2. StillAsked(z, t, now) BY <1>4, <1>6, <1>11 DEF StillAsked
 <2>3. OwnAnswers(published, st, u, t)
  <3>1. \A i \in DOMAIN u.micro :
          \/ \E j \in DOMAIN st.micro : u.micro[i] = st.micro[j]
          \/ u.micro[i].task = t.id /\ MicroFits(published, u, u.micro[i])
    BY <1>12, <1>15, <1>17, <1>20
  <3>2. \A j \in DOMAIN st.micro : st.micro[j].task # t.id =>
          \E i \in DOMAIN u.micro : u.micro[i] = st.micro[j]
    BY <1>15, <1>17
  <3> QED BY <3>1, <3>2 DEF OwnAnswers
 <2>4. MailFits(published, st, z) BY <1>3 DEF Fits
 <2> QED BY <1>1, <1>19, <2>1, <2>2, <2>3, <2>4, GoesOn
<1>22. Fits(server, published, ss, u, z)
 <2>1. ShownFits(server, published, u) /\ SubsFit(ss, u, z) /\ EventsFit(server, published, u, z)
   BY <1>3, <1>17, AlikeKeeps DEF Fits
 <2> QED BY <1>3, <1>17, <1>21, <2>1 DEF Fits
<1>23. Good(ss, u, z)
 <2>1. z \in Seq(Message) BY <1>3 DEF Fits
 <2>2. Sent(u, z) = z BY <1>17, <2>1, SentNone
 <2> QED BY <1>22, <2>1, <2>2 DEF Good
<1>24. TaskFits(u)
 <2> SUFFICES ASSUME u.task # NoTask PROVE \E x \in u.reads : x.id = u.task /\ ~x.settled
   BY DEF TaskFits
 <2>1. PICK x \in st.reads : x.id = st.task /\ ~x.settled BY <1>17 DEF TaskFits
 <2>2. CASE x = t BY <1>11, <1>17, <2>1, <2>2
 <2>3. CASE x # t BY <1>17, <2>1, <2>3
 <2> QED BY <2>2, <2>3
<1> QED BY <1>23, <1>24 DEF u, z, m

-----------------------------------------------------------------------------
(* Views that lapse, and news *)

(* Reads of a store none of which is current any more: what they got and   *)
(* what answers them does not matter.                                      *)
LEMMA Obsoletes ==
  ASSUME NEW sv, NEW pub, NEW ss, NEW st, NEW q, Fits(sv, pub, ss, st, q),
         NEW u, u.reads = st.reads, u.micro = st.micro,
         st.catalog \in Nat, u.catalog \in Nat, st.catalog <= u.catalog,
         \A t \in st.reads : t \in Read /\ ~Current(u, t),
         NEW w, NEW z, z = q \/ (q # <<>> /\ z = Tail(q))
  PROVE  ReadsFit(w, u) /\ MailFits(w, u, z)
<1>1. ReadsFit(pub, st) /\ MailFits(pub, st, q) /\ q \in Seq(Message) BY DEF Fits
<1>2. ReadsFit(w, u)
 <2>1. ASSUME NEW t \in u.reads PROVE ReadFits(w, u, t)
  <3>1. ReadFits(pub, st, t) /\ t.token \in Nat BY <1>1 DEF ReadsFit, Read
  <3> QED BY <3>1 DEF ReadFits
 <2>2. \A m : MicroFits(pub, st, m) => MicroFits(w, u, m) BY DEF MicroFits
 <2> QED BY <1>1, <2>1, <2>2 DEF ReadsFit
<1>3. MailFits(w, u, q) BY <1>1 DEF MailFits
<1>4. ASSUME q # <<>> PROVE MailFits(w, u, Tail(q))
 <2> DEFINE y == Tail(q)
 <2>1. /\ \A i \in DOMAIN y : i + 1 \in DOMAIN q /\ y[i] = q[i + 1]
       /\ DOMAIN y \subseteq Nat
   BY <1>1, <1>4, TailFacts
 <2> HIDE DEF y
 <2>2. \A i \in DOMAIN y : y[i].kind = "page" => \E t \in u.reads :
         /\ t.id = y[i].task /\ y[i].page \in t.asked
         /\ Current(u, t) => \/ AnswerFits(w, t, y[i].page, y[i].answer)
                             \/ \E j \in DOMAIN y : j < i /\ Moves(u, y[j])
   BY <1>1, <2>1 DEF MailFits
 <2>3. ASSUME NEW i \in DOMAIN y, NEW j \in DOMAIN y, y[i].kind = "page", y[j].kind = "page",
              y[i].task = y[j].task, y[i].page = y[j].page
       PROVE  i = j
  <3>1. i + 1 = j + 1 BY <1>1, <2>1, <2>3 DEF MailFits
  <3> QED BY <2>1, <3>1
 <2> QED BY <2>2, <2>3 DEF MailFits, y
<1> QED BY <1>2, <1>3, <1>4

(* A view that is no longer current leaves what is under way to end.       *)
LEMMA Lapses ==
  ASSUME NEW sv, NEW pub, NEW ss, NEW st, NEW q, Fits(sv, pub, ss, st, q),
         NEW u \in Store, u.status # "current", u.baseline = None,
         u.active = st.active, u.generation = st.generation, u.unsubscribe = st.unsubscribe,
         u.reads = st.reads, u.micro = st.micro, st.catalog <= u.catalog
  PROVE  Fits(sv, pub, ss, u, q)
<1>1. st \in Store /\ q \in Seq(Message) /\ SubsFit(ss, st, q) /\ EventsFit(sv, pub, st, q)
  BY DEF Fits
<1>2. ShownFits(sv, pub, u) BY DEF ShownFits
<1>3. SubsFit(ss, u, q) BY <1>1 DEF SubsFit
<1>4. EventsFit(sv, pub, u, q) BY <1>1 DEF EventsFit
<1>5. ReadsFit(pub, u) /\ MailFits(pub, u, q)
 <2>1. \A t \in st.reads : t \in Read /\ ~Current(u, t) BY <1>1 DEF Store, Current
 <2>2. st.catalog \in Nat /\ u.catalog \in Nat BY <1>1 DEF Store
 <2> QED BY <2>1, <2>2, Obsoletes
<1> QED BY <1>1, <1>2, <1>3, <1>4, <1>5 DEF Fits

(* The news merged into the view is a view again, of the news' revision.   *)
LEMMA MergedFits ==
  ASSUME NEW sv, NEW pub, sv.revision \in Nat, NEW p \in Summaries, p.available,
         SummaryFits(sv, pub, p),
         NEW b, b = None \/ (ViewFits(sv, pub, b) /\ b.revision <= p.revision)
  PROVE  LET d == Merged(b, p)
         IN ViewFits(sv, pub, d) /\ d.revision = p.revision /\ d \in Views
<1> DEFINE d == Merged(b, p)
           context == p.context
           over == [s \in Sections |-> Overlay(b.rows[s], p.context[s])]
           patched == Patched(b, p)
<1>1. /\ p.revision \in Nat /\ p.totals \in [Sections -> Nat] /\ p.evidence \in Evidence
      /\ p.context \in [Sections -> SUBSET AllRows] /\ p.delta \in Delta \cup {None}
  BY CatalogAssumption DEF Summaries
<1>2. /\ p.revision <= sv.revision /\ pub[p.revision] \in Contents
      /\ p.totals = Lengths(pub, p.revision)
      /\ p.delta # None => DeltaFits(pub, p.delta, p.revision)
  BY DEF SummaryFits
<1>4. CASE b = None \/ ~b.loaded
 <2>1. d = Entry(p, FALSE, FALSE, context) BY <1>4 DEF Merged
 <2> HIDE DEF d
 <2>2. /\ d \in Views /\ d.revision = p.revision /\ d.totals = p.totals
       /\ d.loaded = FALSE /\ d.stale = FALSE
   BY <1>1, <2>1 DEF Entry, Views
 <2>3. ViewFits(sv, pub, d) BY <1>2, <2>2 DEF ViewFits
 <2> QED BY <2>2, <2>3 DEF d
<1>5. CASE b # None /\ b.loaded
 <2>1. /\ ViewFits(sv, pub, b) /\ b.revision <= p.revision /\ b \in Views
       /\ b.revision \in Nat /\ b.rows \in [Sections -> SUBSET AllRows]
   BY <1>5, ViewIs DEF ViewFits
 <2>2. CASE DeltaApplies(b, p)
  <3>1. d = Entry(p, TRUE, FALSE, patched) BY <1>5, <2>2 DEF Merged
  <3>2. /\ p.delta # None /\ ~b.stale /\ p.delta.from = b.revision
        /\ pub[b.revision] \in Contents
        /\ Representable(pub[b.revision], pub[p.revision])
        /\ p.delta.changes = Changes(pub[b.revision], pub[p.revision])
    BY <1>2, <2>2 DEF DeltaApplies, DeltaFits
  <3>3. Whole(pub, b) BY <1>5, <2>1, <3>2 DEF ViewFits
  <3>4. ASSUME NEW s \in Sections
        PROVE  patched[s] = RowsOf(pub[p.revision][s]) /\ patched[s] \subseteq AllRows
   <4>1. patched[s] = PatchRows(RowsOf(pub[b.revision][s]),
                                Changes(pub[b.revision], pub[p.revision])[s])
     BY <3>2, <3>3 DEF Patched, Whole
   <4>2. PatchRows(RowsOf(pub[b.revision][s]), Changes(pub[b.revision], pub[p.revision])[s])
           = RowsOf(pub[p.revision][s])
     BY <1>2, <3>2, PatchGives
   <4> QED BY <1>2, <4>1, <4>2, CatalogFacts
  <3>5. patched \in [Sections -> SUBSET AllRows]
   <4>1. patched = [s \in Sections |-> patched[s]] BY DEF Patched
   <4> HIDE DEF patched
   <4> QED BY <3>4, <4>1
  <3> HIDE DEF patched
  <3> HIDE DEF d
  <3>6. /\ d \in Views /\ d.revision = p.revision /\ d.totals = p.totals
        /\ d.loaded = TRUE /\ d.stale = FALSE /\ d.rows = patched
    BY <1>1, <3>1, <3>5 DEF Entry, Views
  <3>7. Whole(pub, d) BY <3>4, <3>6 DEF Whole
  <3>8. ViewFits(sv, pub, d) BY <1>2, <3>6, <3>7 DEF ViewFits
  <3> QED BY <3>6, <3>8 DEF d
 <2>3. CASE ~DeltaApplies(b, p) /\ (b.stale \/ b.revision # p.revision)
  <3>1. d = Entry(p, TRUE, TRUE, over) BY <1>5, <2>3 DEF Merged
  <3>2. over \in [Sections -> SUBSET AllRows] BY <1>1, <2>1 DEF Overlay
  <3>3. \A s \in Sections : IdsOf(b.rows[s]) \subseteq IdsOf(over[s]) BY OverlayKeeps
  <3> HIDE DEF over
  <3> HIDE DEF d
  <3>4. /\ d \in Views /\ d.revision = p.revision /\ d.totals = p.totals
        /\ d.loaded = TRUE /\ d.stale = TRUE /\ d.rows = over
    BY <1>1, <3>1, <3>2 DEF Entry, Views
  <3>5. Older(pub, d)
   <4>1. PICK r \in 0 .. b.revision :
           /\ pub[r] # None
           /\ \A s \in Sections : IdsOf(RowsOf(pub[r][s])) \subseteq IdsOf(b.rows[s])
    <5>1. CASE b.stale BY <2>1, <5>1 DEF ViewFits, Older
    <5>2. CASE ~b.stale
     <6>1. Whole(pub, b) /\ pub[b.revision] # None
       BY <1>5, <2>1, <5>2, CatalogAssumption DEF ViewFits
     <6>2. b.revision \in 0 .. b.revision BY <2>1
     <6> QED BY <6>1, <6>2 DEF Whole
    <5> QED BY <5>1, <5>2
   <4>2. r \in 0 .. d.revision BY <1>1, <2>1, <3>4
   <4>3. \A s \in Sections : IdsOf(RowsOf(pub[r][s])) \subseteq IdsOf(d.rows[s]) BY <3>3, <3>4, <4>1
   <4> QED BY <4>1, <4>2, <4>3 DEF Older
  <3>6. ViewFits(sv, pub, d) BY <1>2, <3>4, <3>5 DEF ViewFits
  <3> QED BY <3>4, <3>6 DEF d
 <2>4. CASE ~DeltaApplies(b, p) /\ ~b.stale /\ b.revision = p.revision
  <3>1. d = Entry(p, TRUE, FALSE, b.rows) BY <1>5, <2>4 DEF Merged
  <3> HIDE DEF d
  <3>2. /\ d \in Views /\ d.revision = p.revision /\ d.totals = p.totals
        /\ d.loaded = TRUE /\ d.stale = FALSE /\ d.rows = b.rows
    BY <1>1, <2>1, <3>1 DEF Entry, Views
  <3>3. Whole(pub, d) BY <1>5, <2>1, <2>4, <3>2 DEF ViewFits, Whole
  <3>4. ViewFits(sv, pub, d) BY <1>2, <3>2, <3>3 DEF ViewFits
  <3> QED BY <3>2, <3>4 DEF d
 <2> QED BY <2>2, <2>3, <2>4
<1> QED BY <1>4, <1>5

(* News of another revision, or that monitoring stopped: what was read is  *)
(* dropped with the view it was read for.                                  *)
LEMMA NewsMoves ==
  ASSUME NEW ss, NEW st, NEW q, Fits(server, published, ss, st, q), q # <<>>,
         q[1].kind = "event", q[1].generation = st.generation, server.revision \in Nat,
         NEW u \in Store, u.active = st.active, u.generation = st.generation,
         u.unsubscribe = st.unsubscribe, u.reads = st.reads, u.micro = st.micro,
         u.catalog = st.catalog + 1, ShownFits(server, published, u),
         u.status = "current" => /\ q[1].summary.available
                                 /\ u.baseline.revision = q[1].summary.revision
  PROVE  Fits(server, published, ss, u, Tail(q))
<1> DEFINE z == Tail(q)
           g == st.generation
<1>1. st \in Store /\ q \in Seq(Message) /\ SubsFit(ss, st, q) /\ EventsFit(server, published, st, q)
  BY DEF Fits
<1>2. /\ z \in Seq(Message)
      /\ \A i \in DOMAIN z : i + 1 \in DOMAIN q /\ z[i] = q[i + 1]
      /\ \A j \in DOMAIN q : j = 1 \/ (j - 1 \in DOMAIN z /\ z[j - 1] = q[j])
      /\ 1 \in DOMAIN q
  BY <1>1, TailFacts
<1>3. DOMAIN z \subseteq Nat \ {0} /\ DOMAIN q \subseteq Nat \ {0} BY <1>1, <1>2
<1>4. SubsFit(ss, st, z) BY <1>1, TailSubs
<1> HIDE DEF z
<1>5. SubsFit(ss, u, z)
 <2>1. LiveIn(ss, g) BY <1>1, <1>2 DEF SubsFit
 <2> QED BY <1>4, <2>1 DEF SubsFit
<1>6. EventsFit(server, published, u, z)
 <2>1. \A i \in DOMAIN z : z[i].kind = "event" => SummaryFits(server, published, z[i].summary)
   BY <1>1, <1>2 DEF EventsFit
 <2>2. \A i, j \in DOMAIN z : i < j /\ z[i].kind = "event" /\ z[j].kind = "event" =>
         z[i].summary.revision <= z[j].summary.revision
  <3> TAKE i, j \in DOMAIN z
  <3> HAVE i < j /\ z[i].kind = "event" /\ z[j].kind = "event"
  <3>1. i + 1 \in DOMAIN q /\ j + 1 \in DOMAIN q /\ i + 1 < j + 1
        /\ z[i] = q[i + 1] /\ z[j] = q[j + 1]
    BY <1>2, <1>3
  <3> QED BY <1>1, <3>1 DEF EventsFit
 <2>3. u.status = "current" =>
         \A i \in DOMAIN z : z[i].kind = "event" => u.baseline.revision <= z[i].summary.revision
  <3> SUFFICES ASSUME u.status = "current", NEW i \in DOMAIN z, z[i].kind = "event"
               PROVE  u.baseline.revision <= z[i].summary.revision
    OBVIOUS
  <3>1. i + 1 \in DOMAIN q /\ z[i] = q[i + 1] /\ 1 < i + 1 BY <1>2, <1>3
  <3> QED BY <1>1, <1>2, <3>1 DEF EventsFit
 <2>4. u.status = "current" =>
         \/ server.available /\ server.revision = u.baseline.revision
         \/ \E j \in DOMAIN z : Tells(server, z[j], u.generation)
  <3> SUFFICES ASSUME u.status = "current",
                      ~ (server.available /\ server.revision = u.baseline.revision)
               PROVE  \E j \in DOMAIN z : Tells(server, z[j], g)
    OBVIOUS
  <3>1. IsNews(q[1], g) BY DEF IsNews
  <3>2. PICK j \in DOMAIN q : 1 <= j /\ Tells(server, q[j], g) BY <1>1, <1>2, <3>1 DEF EventsFit
  <3>3. j # 1 BY <3>2 DEF Tells
  <3> QED BY <1>2, <3>2, <3>3
 <2>5. \A i \in DOMAIN z : IsNews(z[i], u.generation) =>
         \E j \in DOMAIN z : i <= j /\ Tells(server, z[j], u.generation)
  <3> TAKE i \in DOMAIN z
  <3> HAVE IsNews(z[i], u.generation)
  <3>1. i + 1 \in DOMAIN q /\ IsNews(q[i + 1], g) BY <1>2
  <3>2. PICK j \in DOMAIN q : i + 1 <= j /\ Tells(server, q[j], g) BY <1>1, <3>1 DEF EventsFit
  <3>3. j # 1 /\ i <= j - 1 BY <1>3, <3>2
  <3> QED BY <1>2, <3>2, <3>3
 <2> QED BY <2>1, <2>2, <2>3, <2>4, <2>5 DEF EventsFit
<1>7. ReadsFit(published, u) /\ MailFits(published, u, z)
 <2>1. st.catalog \in Nat /\ u.catalog \in Nat /\ st.catalog <= u.catalog BY <1>1 DEF Store
 <2>2. \A t \in st.reads : t \in Read /\ ~Current(u, t)
  <3> TAKE t \in st.reads
  <3>1. t \in Read /\ ReadFits(published, st, t) BY <1>1 DEF Store, Fits, ReadsFit
  <3>2. t.token \in Nat /\ t.token <= st.catalog BY <3>1 DEF Read, ReadFits
  <3> QED BY <2>1, <3>1, <3>2 DEF Current
 <2> QED BY <2>1, <2>2, Obsoletes DEF z
<1> QED BY <1>2, <1>5, <1>6, <1>7 DEF Fits, z

(* A message of the subscription is one of those the server sends.         *)
LEMMA MessageIs ==
  ASSUME NEW m \in Message
  PROVE  /\ m.kind \in {"event", "result", "refused", "invalid", "page"}
         /\ m.kind = "event" => m.summary \in Summaries
         /\ m.kind = "invalid" => m.version \in BOOLEAN
         /\ m.kind # "page" => m.generation \in Nat
  BY DEF Message, PageMessage

(* The callback of the subscription.                                       *)
LEMMA ReceivedGood ==
  ASSUME ServerFits(server, published),
         NEW ss, NEW st, NEW q, Fits(server, published, ss, st, q), st.out = <<>>,
         TaskFits(st), q # <<>>, q[1].kind = "event", q[1].generation = st.generation
  PROVE  LET u == Received(st, q[1].summary) IN Good(ss, u, Tail(q)) /\ TaskFits(u)
<1> DEFINE p == q[1].summary
           z == Tail(q)
           u == Received(st, p)
           moved == ~p.available \/ st.baseline = None \/ st.baseline.revision # p.revision
<1>1. /\ st \in Store /\ q \in Seq(Message) /\ ShownFits(server, published, st)
      /\ SubsFit(ss, st, q) /\ EventsFit(server, published, st, q)
  BY DEF Fits
<1>2. z \in Seq(Message) /\ 1 \in DOMAIN q /\ q[1] \in Message BY <1>1, TailFacts
<1>3. p \in Summaries /\ SummaryFits(server, published, p) BY <1>1, <1>2, MessageIs DEF EventsFit
<1>4. server.revision \in Nat BY CatalogAssumption DEF ServerFits, Server
<1>5. st.active BY <1>1, <1>2 DEF SubsFit, LiveIn
<1>6. st.baseline = None
        \/ (ViewFits(server, published, st.baseline) /\ st.baseline.revision <= p.revision)
  BY <1>1, <1>2 DEF ShownFits, EventsFit
<1>7. TaskBut(st, NoTask) BY DEF TaskFits, TaskBut
<1> HIDE DEF p, z
<1>8. p.available => LET d == Merged(st.baseline, p)
                     IN ViewFits(server, published, d) /\ d.revision = p.revision /\ d \in Views
  BY <1>3, <1>4, <1>6, MergedFits
<1>9. CASE ~moved
 <2> DEFINE d == Merged(st.baseline, p)
            v == [st EXCEPT !.baseline = d, !.data = d, !.error = st.error]
 <2>1. /\ p.available /\ st.baseline # None /\ st.baseline.revision = p.revision
       /\ st.status = "current"
   BY <1>1, <1>9 DEF ShownFits
 <2>2. ~Moves(st, q[1]) BY <2>1 DEF Moves, p
 <2>3. Fits(server, published, ss, st, z) BY <2>1, <2>2, TailQuiet DEF z
 <2>4. Good(ss, st, z)
  <3>1. Sent(st, z) = z BY <1>2, SentNone DEF z
  <3> QED BY <1>2, <2>3, <3>1 DEF Good, z
 <2>5. ViewFits(server, published, d) /\ d.revision = st.baseline.revision BY <1>8, <2>1
 <2>6. u = Update([st EXCEPT !.data = d, !.baseline = d, !.status = "current"])
   BY <1>9, <2>1 DEF Received
 <2> HIDE DEF d
 <2>7. [st EXCEPT !.data = d, !.baseline = d, !.status = "current"] = v BY <1>1, <2>1 DEF Store
 <2>8. st.error \in {None, "fault"} BY <1>1 DEF Store
 <2>9. Good(ss, v, z) /\ TaskBut(v, NoTask) BY <1>7, <2>1, <2>4, <2>5, <2>8, ViewGood
 <2> HIDE DEF v, u
 <2>10. Good(ss, Update(v), z) /\ TaskBut(Update(v), NoTask) BY <2>9, UpdateGood
 <2>11. u = Update(v) BY <2>6, <2>7
 <2> QED BY <2>10, <2>11 DEF TaskBut, TaskFits, u, z, p
<1>10. CASE moved
 <2> DEFINE d == IF p.available THEN Merged(st.baseline, p) ELSE Unavailable
            b == IF p.available THEN Merged(st.baseline, p) ELSE None
            status == IF p.available THEN "current" ELSE "unavailable"
            v == [st EXCEPT !.catalog = @ + 1, !.error = None, !.data = d, !.baseline = b,
                            !.status = status]
 <2>1. u = Update(v)
  <3> DEFINE cleared == [st EXCEPT !.catalog = @ + 1, !.error = None]
             either == IF moved THEN cleared ELSE st
  <3>1. u = LET data == IF p.available THEN Merged(either.baseline, p) ELSE Unavailable
            IN Update([either EXCEPT
                        !.data = data,
                        !.baseline = IF p.available THEN data ELSE None,
                        !.status = IF p.available THEN "current" ELSE "unavailable"])
    BY DEF Received
  <3>2. either = cleared /\ cleared.baseline = st.baseline BY <1>1, <1>10 DEF Store
  <3> HIDE DEF either
  <3>3. u = Update([cleared EXCEPT !.data = d, !.baseline = b, !.status = status]) BY <3>1, <3>2
  <3> HIDE DEF d, b, status
  <3>4. [cleared EXCEPT !.data = d, !.baseline = b, !.status = status] = v BY <1>1 DEF Store
  <3> HIDE DEF cleared, v
  <3> QED BY <3>3, <3>4
 <2>2. d \in Views \cup {None, Unavailable} /\ b \in Views \cup {None}
       /\ status \in {"current", "unavailable"}
   BY <1>8
 <2>3. p.available => d = b /\ status = "current" /\ ViewFits(server, published, b)
                      /\ b.revision = p.revision
   BY <1>8
 <2>4. ~p.available => status # "current" /\ b = None OBVIOUS
 <2> HIDE DEF d, b, status, u
 <2>5. /\ v \in Store /\ v.active = st.active /\ v.generation = st.generation
       /\ v.unsubscribe = st.unsubscribe /\ v.reads = st.reads /\ v.micro = st.micro
       /\ v.catalog = st.catalog + 1 /\ v.out = st.out /\ v.task = st.task
       /\ v.status = status /\ v.data = d /\ v.baseline = b
  <3> DEFINE n == st.catalog + 1
  <3>1. n \in Nat /\ status \in Statuses /\ None \in {None, "fault"}
    BY <1>1, <2>2 DEF Store, Statuses
  <3>2. v = [st EXCEPT !.catalog = n, !.error = None, !.data = d, !.baseline = b,
                       !.status = status]
    OBVIOUS
  <3> HIDE DEF v, n
  <3>3. v \in Store BY <1>1, <2>2, <3>1, <3>2 DEF Store
  <3>4. /\ v.active = st.active /\ v.generation = st.generation
        /\ v.unsubscribe = st.unsubscribe /\ v.reads = st.reads /\ v.micro = st.micro
        /\ v.catalog = n /\ v.out = st.out /\ v.task = st.task
        /\ v.status = status /\ v.data = d /\ v.baseline = b
    BY <1>1, <3>2 DEF Store
  <3> QED BY <3>3, <3>4 DEF n
 <2> HIDE DEF v
 <2>6. ShownFits(server, published, v) BY <1>5, <2>3, <2>4, <2>5 DEF ShownFits
 <2>7. Fits(server, published, ss, v, z) BY <1>4, <2>3, <2>4, <2>5, <2>6, NewsMoves DEF z, p
 <2>8. Good(ss, v, z)
  <3>1. Sent(v, z) = z BY <1>2, <2>5, SentNone DEF z
  <3> QED BY <1>2, <2>7, <3>1 DEF Good, z
 <2>9. TaskBut(v, NoTask) BY <1>7, <2>5 DEF TaskBut
 <2>10. Good(ss, Update(v), z) /\ TaskBut(Update(v), NoTask) BY <2>8, <2>9, UpdateGood
 <2> QED BY <2>1, <2>10 DEF TaskBut, TaskFits, u, z, p
<1> QED BY <1>9, <1>10

(* What the store hears from a subscription.                               *)
LEMMA HandledGood ==
  ASSUME ServerFits(server, published),
         NEW ss, NEW st, NEW q, Fits(server, published, ss, st, q), st.out = <<>>,
         TaskFits(st), q # <<>>, q[1].kind \in {"event", "refused", "invalid"}
  PROVE  LET u == Handled(st, q[1]) IN Good(ss, u, Tail(q)) /\ TaskFits(u)
<1> DEFINE m == q[1]
           z == Tail(q)
           u == Handled(st, m)
<1>1. /\ st \in Store /\ q \in Seq(Message) /\ ShownFits(server, published, st)
      /\ SubsFit(ss, st, q)
  BY DEF Fits
<1>2. z \in Seq(Message) /\ 1 \in DOMAIN q /\ m \in Message BY <1>1, TailFacts
<1>3. TaskBut(st, NoTask) BY DEF TaskFits, TaskBut
<1> HIDE DEF z
<1>4. ASSUME ~IsNews(m, st.generation) PROVE Fits(server, published, ss, st, z)
  BY <1>4, TailQuiet DEF z
<1>5. \A v : v.out = <<>> /\ Fits(server, published, ss, v, z) => Good(ss, v, z)
  BY <1>2, SentNone DEF Good, z
<1>6. CASE m.generation # st.generation
 <2>1. Fits(server, published, ss, st, z) BY <1>4, <1>6 DEF IsNews
 <2>2. Good(ss, st, z) BY <1>5, <2>1
 <2>3. u = st BY <1>6 DEF Handled
 <2> QED BY <2>2, <2>3 DEF z
<1>7. CASE m.generation = st.generation /\ m.kind = "event"
 <2>1. u = Received(st, m.summary) BY <1>7 DEF Handled
 <2>2. LET v == Received(st, m.summary) IN Good(ss, v, z) /\ TaskFits(v) BY <1>7, ReceivedGood DEF z
 <2> QED BY <2>1, <2>2 DEF z
<1>8. ASSUME NEW v \in Store, ~IsNews(m, st.generation), v.status # "current",
             v.baseline = None,
             v.active = st.active, v.generation = st.generation, v.unsubscribe = st.unsubscribe,
             v.reads = st.reads, v.micro = st.micro, st.catalog <= v.catalog,
             v.out = st.out, v.task = st.task
      PROVE  Good(ss, Update(v), z) /\ TaskFits(Update(v))
 <2>1. Fits(server, published, ss, v, z) BY <1>4, <1>8, Lapses
 <2>2. Good(ss, v, z) /\ TaskBut(v, NoTask) BY <1>3, <1>5, <1>8, <2>1 DEF TaskBut
 <2>3. Good(ss, Update(v), z) /\ TaskBut(Update(v), NoTask) BY <2>2, UpdateGood
 <2> QED BY <2>3 DEF TaskBut, TaskFits
<1>9. CASE m.generation = st.generation /\ m.kind = "invalid"
 <2> DEFINE v1 == [st EXCEPT !.baseline = None, !.status = "error"]
            v2 == [st EXCEPT !.catalog = @ + 1, !.error = None, !.baseline = None,
                             !.status = "error", !.data = None]
 <2>1. u \in {Update(v1), Update(v2)} BY <1>9 DEF Handled, Rejected
 <2>2. ~IsNews(m, st.generation) BY <1>9 DEF IsNews
 <2> HIDE DEF m, u
 <2>3. Good(ss, Update(v1), z) /\ TaskFits(Update(v1))
  <3>1. /\ v1 \in Store /\ v1.status # "current" /\ v1.baseline = None
        /\ v1.active = st.active /\ v1.generation = st.generation
        /\ v1.unsubscribe = st.unsubscribe /\ v1.reads = st.reads /\ v1.micro = st.micro
        /\ st.catalog <= v1.catalog /\ v1.out = st.out /\ v1.task = st.task
   <4>1. v1 = [st EXCEPT !.baseline = None, !.status = "error"] OBVIOUS
   <4> HIDE DEF v1
   <4>2. v1 \in Store BY <1>1, <4>1 DEF Store, Statuses
   <4> QED BY <1>1, <4>1, <4>2 DEF Store
  <3> HIDE DEF v1
  <3> QED BY <1>8, <2>2, <3>1
 <2>4. Good(ss, Update(v2), z) /\ TaskFits(Update(v2))
  <3>1. /\ v2 \in Store /\ v2.status # "current" /\ v2.baseline = None
        /\ v2.active = st.active /\ v2.generation = st.generation
        /\ v2.unsubscribe = st.unsubscribe /\ v2.reads = st.reads /\ v2.micro = st.micro
        /\ st.catalog <= v2.catalog /\ v2.out = st.out /\ v2.task = st.task
   <4> DEFINE n == st.catalog + 1
   <4>1. v2 = [st EXCEPT !.catalog = n, !.error = None, !.baseline = None,
                         !.status = "error", !.data = None]
     OBVIOUS
   <4>2. n \in Nat /\ st.catalog <= n BY <1>1 DEF Store
   <4> HIDE DEF v2, n
   <4>3. v2 \in Store BY <1>1, <4>1, <4>2 DEF Store, Statuses
   <4> QED BY <1>1, <4>1, <4>2, <4>3 DEF Store
  <3> HIDE DEF v2
  <3> QED BY <1>8, <2>2, <3>1
 <2> HIDE DEF v1, v2
 <2> QED BY <2>1, <2>3, <2>4 DEF u, m, z
<1>10. CASE m.generation = st.generation /\ m.kind = "refused"
 <2> DEFINE v == [st EXCEPT !.status = "error"]
 <2>1. u = Update(v) BY <1>10 DEF Handled
 <2>2. ~IsNews(m, st.generation) BY <1>10 DEF IsNews
 <2>3. ~LiveIn(ss, st.generation) BY <1>1, <1>2, <1>10 DEF SubsFit, LiveIn
 <2>4. st.baseline = None BY <1>1, <2>3 DEF ShownFits, SubsFit
 <2> HIDE DEF m, u
 <2>5. /\ v \in Store /\ v.status # "current" /\ v.baseline = None
       /\ v.active = st.active /\ v.generation = st.generation
       /\ v.unsubscribe = st.unsubscribe /\ v.reads = st.reads /\ v.micro = st.micro
       /\ st.catalog <= v.catalog /\ v.out = st.out /\ v.task = st.task
  <3>1. v = [st EXCEPT !.status = "error"] OBVIOUS
  <3> HIDE DEF v
  <3>2. v \in Store BY <1>1, <3>1 DEF Store, Statuses
  <3>3. /\ v.status = "error" /\ v.baseline = st.baseline
        /\ v.active = st.active /\ v.generation = st.generation
        /\ v.unsubscribe = st.unsubscribe /\ v.reads = st.reads /\ v.micro = st.micro
        /\ v.catalog = st.catalog /\ v.out = st.out /\ v.task = st.task
    BY <1>1, <3>1 DEF Store
  <3>4. st.catalog \in Nat BY <1>1 DEF Store
  <3> QED BY <2>4, <3>2, <3>3, <3>4
 <2> HIDE DEF v
 <2>6. Good(ss, Update(v), z) /\ TaskFits(Update(v)) BY <1>8, <2>2, <2>5
 <2> QED BY <2>1, <2>6 DEF u, m, z
<1> QED BY <1>6, <1>7, <1>9, <1>10

-----------------------------------------------------------------------------
(* Subscriptions open and close *)

(* A store that stops keeps its own subscription no longer.                *)
LEMMA StoppedFits ==
  ASSUME NEW sv, NEW pub, NEW ss, NEW st, NEW q, Fits(sv, pub, ss, st, q),
         NEW rest, rest = {s \in ss : s.generation # st.unsubscribe}
  PROVE  LET u == Stopped(st)
         IN /\ Fits(sv, pub, rest, u, q) /\ TaskFits(u) /\ u.out = st.out /\ ~u.active
            /\ u.reads = st.reads
<1> DEFINE u == Stopped(st)
<1>1. st \in Store /\ q \in Seq(Message) /\ SubsFit(ss, st, q) /\ EventsFit(sv, pub, st, q)
  BY DEF Fits
<1>2. /\ u \in Store /\ u.active = FALSE /\ u.generation = st.generation + 1
      /\ u.catalog = st.catalog + 1 /\ u.status = "loading" /\ u.baseline = None
      /\ u.unsubscribe = None /\ u.reads = st.reads /\ u.micro = st.micro /\ u.out = st.out
      /\ u.task = NoTask
 <2> DEFINE data == IF st.data # None /\ st.data.available THEN st.data ELSE None
            g == st.generation + 1
            c == st.catalog + 1
 <2>1. data \in Views \cup {None, Unavailable} /\ g \in Nat /\ c \in Nat BY <1>1 DEF Store
 <2>2. u = [st EXCEPT !.active = FALSE, !.baseline = None, !.catalog = c,
            !.wanted = FALSE, !.task = NoTask, !.generation = g,
            !.unsubscribe = None, !.status = "loading", !.error = None, !.data = data]
   BY <1>1 DEF Stopped, Store
 <2> HIDE DEF data, g, c, u
 <2>3. u \in Store BY <1>1, <2>1, <2>2 DEF Store, Statuses, NoTask
 <2>4. /\ u.active = FALSE /\ u.generation = g
       /\ u.catalog = c /\ u.status = "loading" /\ u.baseline = None
       /\ u.unsubscribe = None /\ u.reads = st.reads /\ u.micro = st.micro /\ u.out = st.out
       /\ u.task = NoTask
   BY <1>1, <2>2 DEF Store
 <2> QED BY <2>3, <2>4 DEF g, c
<1> HIDE DEF u
<1>3. st.generation \in Nat /\ st.catalog \in Nat BY <1>1 DEF Store
<1>4. \A i \in DOMAIN q : q[i].kind # "page" => q[i].generation \in Nat BY <1>1, MessageIs
<1>5. SubsFit(rest, u, q)
 <2>1. rest \subseteq ss /\ IsFiniteSet(rest) BY <1>1, FS_Subset DEF SubsFit
 <2>2. \A s \in rest : s.generation \in Nat /\ s.generation <= st.generation
   BY <1>1, <2>1 DEF SubsFit, Subscription
 <2>3. \A s \in rest : s.generation <= u.generation /\ s.generation # u.generation
   BY <1>2, <1>3, <2>2
 <2>4. \A i \in DOMAIN q : q[i].kind # "page" =>
         q[i].generation <= u.generation /\ q[i].generation # u.generation
   BY <1>1, <1>2, <1>3, <1>4 DEF SubsFit
 <2>5. \A i \in DOMAIN q : q[i].kind = "refused" => \A s \in rest : s.generation # q[i].generation
   BY <1>1, <2>1 DEF SubsFit
 <2>6. \A s \in rest : s.stage = "live" =>
         \E i \in DOMAIN q : q[i].kind = "result" /\ q[i].generation = s.generation
   BY <1>1, <2>1 DEF SubsFit
 <2>7. rest \subseteq Subscription /\ \A s, x \in rest : s.generation = x.generation => s = x
   BY <1>1, <2>1 DEF SubsFit
 <2> QED BY <1>2, <2>1, <2>3, <2>4, <2>5, <2>6, <2>7 DEF SubsFit
<1>6. EventsFit(sv, pub, u, q)
 <2>1. \A i \in DOMAIN q : ~IsNews(q[i], u.generation) BY <1>1, <1>2, <1>3, <1>4 DEF SubsFit, IsNews
 <2> QED BY <1>1, <1>2, <2>1 DEF EventsFit
<1>7. ReadsFit(pub, u) /\ MailFits(pub, u, q)
 <2>1. u.catalog \in Nat /\ st.catalog <= u.catalog BY <1>2, <1>3
 <2>2. \A t \in st.reads : t \in Read /\ ~Current(u, t) BY <1>1, <1>2 DEF Store, Current
 <2> QED BY <1>2, <1>3, <2>1, <2>2, Obsoletes
<1>8. ShownFits(sv, pub, u) /\ TaskFits(u) BY <1>2 DEF ShownFits, TaskFits
<1> QED BY <1>1, <1>2, <1>5, <1>6, <1>7, <1>8 DEF Fits, u

(* A store that starts opens a subscription of its own.                    *)
LEMMA StartedFits ==
  ASSUME NEW sv, NEW pub, NEW ss, NEW st, NEW q, Fits(sv, pub, ss, st, q), ~st.active,
         TaskFits(st), NEW more, more = ss \cup {Opened(Started(st))}
  PROVE  LET u == Started(st)
         IN Fits(sv, pub, more, u, q) /\ TaskFits(u) /\ u.out = st.out
<1> DEFINE u == Started(st)
           n == Opened(u)
<1>1. /\ st \in Store /\ q \in Seq(Message) /\ SubsFit(ss, st, q) /\ EventsFit(sv, pub, st, q)
      /\ ShownFits(sv, pub, st)
  BY DEF Fits
<1>2. /\ u \in Store /\ u.active = TRUE /\ u.generation = st.generation + 1
      /\ u.catalog = st.catalog /\ u.status = "loading" /\ u.baseline = st.baseline
      /\ u.unsubscribe = st.unsubscribe /\ u.reads = st.reads /\ u.micro = st.micro
      /\ u.out = st.out /\ u.task = st.task
 <2> DEFINE g == st.generation + 1
 <2>1. u = [st EXCEPT !.active = TRUE, !.generation = g, !.status = "loading"] BY DEF Started
 <2>2. g \in Nat BY <1>1 DEF Store
 <2> HIDE DEF u, g
 <2>3. u \in Store BY <1>1, <2>1, <2>2 DEF Store, Statuses
 <2>4. /\ u.active = TRUE /\ u.generation = g
       /\ u.catalog = st.catalog /\ u.status = "loading" /\ u.baseline = st.baseline
       /\ u.unsubscribe = st.unsubscribe /\ u.reads = st.reads /\ u.micro = st.micro
       /\ u.out = st.out /\ u.task = st.task
   BY <1>1, <2>1 DEF Store
 <2> QED BY <2>3, <2>4 DEF g
<1> HIDE DEF u
<1>3. st.generation \in Nat /\ st.catalog \in Nat BY <1>1 DEF Store
<1>4. n = [generation |-> st.generation + 1, stage |-> "sent"] /\ more = ss \cup {n}
  BY <1>2 DEF Opened, u
<1> HIDE DEF n
<1>5. \A i \in DOMAIN q : q[i].kind # "page" =>
        q[i].generation <= u.generation /\ q[i].generation # u.generation
 <2>1. \A i \in DOMAIN q : q[i].kind # "page" => q[i].generation \in Nat BY <1>1, MessageIs
 <2> QED BY <1>1, <1>2, <1>3, <2>1 DEF SubsFit
<1>6. \A s \in ss : s.generation <= u.generation /\ s.generation # u.generation
 <2>1. \A s \in ss : s.generation \in Nat /\ s.generation <= st.generation
   BY <1>1 DEF SubsFit, Subscription
 <2> QED BY <1>2, <1>3, <2>1
<1>7. u.unsubscribe = None BY <1>1, <1>2 DEF SubsFit
<1>8. u.baseline = None BY <1>1, <1>2 DEF ShownFits
<1>9. SubsFit(more, u, q)
 <2>1. IsFiniteSet(more) BY <1>1, <1>4, FS_AddElement DEF SubsFit
 <2>2. n \in Subscription /\ more \subseteq Subscription
   BY <1>1, <1>3, <1>4 DEF SubsFit, Subscription
 <2>3. n.generation = u.generation /\ n.stage # "live" /\ u.generation \in Nat BY <1>2, <1>3, <1>4
 <2>4. \A s, x \in more : s.generation = x.generation => s = x BY <1>1, <1>4, <1>6, <2>3 DEF SubsFit
 <2>5. \A s \in more : s.generation <= u.generation /\ (s.generation = u.generation => u.active)
   BY <1>2, <1>4, <1>6, <2>3
 <2>6. \A i \in DOMAIN q : q[i].kind = "refused" => \A s \in more : s.generation # q[i].generation
   BY <1>1, <1>4, <1>5, <2>3 DEF SubsFit
 <2>7. \A s \in more : s.stage = "live" =>
         \E i \in DOMAIN q : q[i].kind = "result" /\ q[i].generation = s.generation
   BY <1>1, <1>2, <1>4, <1>7, <2>3 DEF SubsFit
 <2> QED BY <1>2, <1>5, <1>7, <2>1, <2>2, <2>4, <2>5, <2>6, <2>7 DEF SubsFit
<1>10. EventsFit(sv, pub, u, q)
 <2>1. \A i \in DOMAIN q : ~IsNews(q[i], u.generation) BY <1>5 DEF IsNews
 <2> QED BY <1>1, <1>2, <2>1 DEF EventsFit
<1>11. ReadsFit(pub, u) /\ MailFits(pub, u, q)
 <2>1. \A t \in st.reads : t \in Read /\ ~Current(u, t) BY <1>1, <1>2 DEF Store, Current
 <2>2. u.catalog \in Nat /\ st.catalog <= u.catalog BY <1>2, <1>3
 <2> QED BY <1>2, <1>3, <2>1, <2>2, Obsoletes
<1>12. ShownFits(sv, pub, u) /\ TaskFits(u) BY <1>2, <1>8 DEF ShownFits, TaskFits
<1> QED BY <1>1, <1>2, <1>9, <1>10, <1>11, <1>12 DEF Fits, u

-----------------------------------------------------------------------------
(* What the server publishes *)

(* The publications so far stay: a revision gets its catalog once.         *)
Extends(sv, pub, to, w) ==
  /\ sv.revision <= to.revision
  /\ \A r \in Revisions : pub[r] \in Contents => w[r] = pub[r]

(* Deltas, views and summaries keep their meaning as the server goes on.   *)
LEMMA ExtendsKeeps ==
  ASSUME NEW sv, NEW pub, NEW to, NEW w, Extends(sv, pub, to, w),
         pub \in [Revisions -> Contents \cup {None}],
         sv.revision \in Revisions, to.revision \in Revisions
  PROVE  /\ \A d, r : r \in Revisions /\ DeltaFits(pub, d, r) => DeltaFits(w, d, r)
         /\ \A b : ViewFits(sv, pub, b) => ViewFits(to, w, b)
         /\ \A p : p.revision \in Nat /\ SummaryFits(sv, pub, p) => SummaryFits(to, w, p)
<1>0. MaxRevision \in Nat \ {0} /\ None \notin Contents BY CatalogAssumption
<1>1. \A d, r : r \in Revisions /\ DeltaFits(pub, d, r) => DeltaFits(w, d, r)
  BY DEF Extends, DeltaFits
<1>2. ASSUME NEW b, ViewFits(sv, pub, b) PROVE ViewFits(to, w, b)
 <2>1. /\ b \in Views /\ b.revision <= sv.revision /\ pub[b.revision] \in Contents
       /\ b.totals = Lengths(pub, b.revision)
       /\ b.stale => b.loaded /\ Older(pub, b)
       /\ b.loaded /\ ~b.stale => Whole(pub, b)
   BY <1>2 DEF ViewFits
 <2>2. b.revision \in Nat BY <2>1, ViewIs
 <2>3. b.revision \in Revisions /\ b.revision <= to.revision
   BY <1>0, <2>1, <2>2 DEF Extends, Revisions
 <2>4. w[b.revision] = pub[b.revision] BY <2>1, <2>3 DEF Extends
 <2>5. Older(pub, b) => Older(w, b)
  <3> SUFFICES ASSUME Older(pub, b) PROVE Older(w, b) OBVIOUS
  <3>1. PICK r \in 0 .. b.revision :
          /\ pub[r] # None
          /\ \A s \in Sections : IdsOf(RowsOf(pub[r][s])) \subseteq IdsOf(b.rows[s])
    BY DEF Older
  <3>2. r \in Revisions BY <1>0, <2>2, <2>3, <3>1 DEF Revisions
  <3>3. w[r] = pub[r] /\ pub[r] \in Contents BY <3>1, <3>2 DEF Extends
  <3> QED BY <3>1, <3>3 DEF Older
 <2>6. Whole(pub, b) => Whole(w, b) BY <2>4 DEF Whole
 <2>7. Lengths(w, b.revision) = Lengths(pub, b.revision) BY <2>4 DEF Lengths
 <2> QED BY <2>1, <2>3, <2>4, <2>5, <2>6, <2>7 DEF ViewFits
<1>3. ASSUME NEW p, p.revision \in Nat, SummaryFits(sv, pub, p) PROVE SummaryFits(to, w, p)
 <2>1. p.revision <= to.revision /\ p.revision \in Revisions
   BY <1>0, <1>3 DEF Extends, SummaryFits, Revisions
 <2>2. p.available => /\ w[p.revision] = pub[p.revision] /\ w[p.revision] \in Contents
                      /\ p.totals = Lengths(w, p.revision)
   BY <1>3, <2>1 DEF SummaryFits, Extends, Lengths
 <2>3. p.available /\ p.delta # None => DeltaFits(w, p.delta, p.revision)
   BY <1>1, <1>3, <2>1 DEF SummaryFits
 <2> QED BY <2>1, <2>2, <2>3 DEF SummaryFits
<1> QED BY <1>1, <1>2, <1>3

(* What a server publishes is a summary.                                   *)
LEMMA SummaryIs ==
  ASSUME NEW sv, NEW pub, ServerFits(sv, pub)
  PROVE  /\ Summary(sv) \in Summaries /\ SummaryFits(sv, pub, Summary(sv))
         /\ Summary(sv).available = sv.available /\ Summary(sv).revision = sv.revision
<1> DEFINE p == Summary(sv)
           totals == [s \in Sections |-> Len(sv.content[s])]
           context == ContextRows(sv.content, sv.evidence)
<1>1. /\ sv.available \in BOOLEAN /\ sv.revision \in 0 .. MaxRevision
      /\ sv.content \in [Sections -> Seq(AllRows)] /\ sv.delta \in Delta \cup {None}
      /\ sv.evidence \in Evidence /\ MaxRevision \in Nat
  BY CatalogAssumption DEF ServerFits, Server
<1>2. p = [available |-> sv.available, revision |-> sv.revision, delta |-> sv.delta,
           totals |-> totals, evidence |-> sv.evidence, context |-> context]
  BY DEF Summary
<1>3. totals \in [Sections -> Nat]
 <2>1. \A s \in Sections : Len(sv.content[s]) \in Nat
  <3> TAKE s \in Sections
  <3>1. sv.content[s] \in Seq(AllRows) BY <1>1
  <3> QED BY <3>1
 <2> QED BY <2>1
<1>4. context \in [Sections -> SUBSET AllRows]
 <2>1. \A s \in Sections : RowsOf(sv.content[s]) \subseteq AllRows
  <3> TAKE s \in Sections
  <3>1. sv.content[s] \in Seq(AllRows) BY <1>1
  <3> QED BY <3>1 DEF RowsOf
 <2> QED BY <2>1 DEF ContextRows
<1>5. sv.available => totals = Lengths(pub, sv.revision) BY DEF ServerFits, Lengths
<1> HIDE DEF p, totals, context
<1>6. p \in Summaries BY <1>1, <1>2, <1>3, <1>4 DEF Summaries
<1>7. SummaryFits(sv, pub, p)
 <2>1. sv.available => pub[sv.revision] \in Contents BY DEF ServerFits
 <2>2. sv.delta # None => DeltaFits(pub, sv.delta, sv.revision) BY DEF ServerFits
 <2>3. sv.revision <= sv.revision BY <1>1
 <2> QED BY <1>2, <1>5, <2>1, <2>2, <2>3 DEF SummaryFits
<1> QED BY <1>2, <1>6, <1>7 DEF p

(* A sequence after another: where each stands.                            *)
LEMMA Behind ==
  ASSUME NEW q \in Seq(Message), NEW more \in Seq(Message)
  PROVE  LET z == q \o more
         IN /\ z \in Seq(Message) /\ DOMAIN q \subseteq DOMAIN z
            /\ \A i \in DOMAIN q : z[i] = q[i]
            /\ \A i \in DOMAIN z :
                 \/ i \in DOMAIN q
                 \/ \E k \in DOMAIN more : i = Len(q) + k /\ z[i] = more[k]
            /\ \A k \in DOMAIN more : Len(q) + k \in DOMAIN z /\ z[Len(q) + k] = more[k]
            /\ \A i \in DOMAIN q, k \in DOMAIN more : i < Len(q) + k
<1> DEFINE z == q \o more
<1>1. z \in Seq(Message) /\ DOMAIN q \subseteq DOMAIN z /\ \A i \in DOMAIN q : z[i] = q[i] OBVIOUS
<1>2. \A k \in DOMAIN more : Len(q) + k \in DOMAIN z /\ z[Len(q) + k] = more[k] OBVIOUS
<1>3. ASSUME NEW i \in DOMAIN z, i \notin DOMAIN q
      PROVE  \E k \in DOMAIN more : i = Len(q) + k /\ z[i] = more[k]
 <2>1. i - Len(q) \in DOMAIN more /\ i = Len(q) + (i - Len(q)) BY <1>3
 <2> QED BY <1>2, <2>1
<1>4. \A i \in DOMAIN q, k \in DOMAIN more : i < Len(q) + k OBVIOUS
<1> QED BY <1>1, <1>2, <1>3, <1>4

(* The server goes on, and tells so to every live subscription: what the   *)
(* store shows, what is under way to it and its reads keep their meaning.  *)
LEMMA Tidings ==
  ASSUME NEW sv, NEW pub, NEW to, NEW w, NEW ss, NEW st, NEW q,
         Fits(sv, pub, ss, st, q), ServerFits(sv, pub), ServerFits(to, w),
         Extends(sv, pub, to, w),
         NEW more \in Seq(Message),
         \A k \in DOMAIN more : /\ more[k].kind = "event" /\ more[k].summary = Summary(to)
                                /\ \E s \in ss : s.stage = "live"
                                                 /\ s.generation = more[k].generation,
         \A s \in ss : s.stage = "live" =>
           \E k \in DOMAIN more : more[k].generation = s.generation
  PROVE  Fits(to, w, ss, st, q \o more)
<1> DEFINE z == q \o more
           n == Len(q)
           g == st.generation
<1>1. /\ st \in Store /\ q \in Seq(Message) /\ ShownFits(sv, pub, st)
      /\ SubsFit(ss, st, q) /\ EventsFit(sv, pub, st, q)
      /\ ReadsFit(pub, st) /\ MailFits(pub, st, q)
  BY DEF Fits
<1>2. /\ pub \in [Revisions -> Contents \cup {None}] /\ w \in [Revisions -> Contents \cup {None}]
      /\ sv.revision \in Revisions /\ to.revision \in Revisions
  BY DEF ServerFits, Server, Revisions
<1>3. MaxRevision \in Nat /\ Revisions \subseteq Nat BY CatalogAssumption DEF Revisions
<1>4. /\ z \in Seq(Message) /\ DOMAIN q \subseteq DOMAIN z
      /\ \A i \in DOMAIN q : z[i] = q[i]
      /\ \A i \in DOMAIN z : \/ i \in DOMAIN q
                             \/ \E k \in DOMAIN more : i = n + k /\ z[i] = more[k]
      /\ \A k \in DOMAIN more : n + k \in DOMAIN z /\ z[n + k] = more[k]
      /\ \A i \in DOMAIN q, k \in DOMAIN more : i < n + k
  BY <1>1, Behind
<1>5. n \in Nat /\ DOMAIN q \subseteq Nat /\ DOMAIN more \subseteq Nat BY <1>1
<1> HIDE DEF z, n
<1>6. /\ Summary(to) \in Summaries /\ SummaryFits(to, w, Summary(to))
      /\ Summary(to).available = to.available /\ Summary(to).revision = to.revision
  BY SummaryIs
<1>7. \A k \in DOMAIN more : \A h : IsNews(more[k], h) => Tells(to, more[k], h)
  BY <1>6 DEF Tells, IsNews
<1>8. \A k \in DOMAIN more : more[k].generation = g => LiveIn(ss, g) BY DEF LiveIn
<1>9. LiveIn(ss, g) => \E k \in DOMAIN more : Tells(to, more[k], g) BY <1>7 DEF LiveIn, IsNews
<1>10. \A i \in DOMAIN q : q[i].kind = "event" => q[i].summary.revision \in Nat
 <2> TAKE i \in DOMAIN q
 <2> HAVE q[i].kind = "event"
 <2>1. q[i].summary \in Summaries BY <1>1, MessageIs
 <2> QED BY <1>3, <2>1 DEF Summaries
<1>11. ShownFits(to, w, st)
 <2>1. ViewFits(sv, pub, st.baseline) => ViewFits(to, w, st.baseline) BY <1>2, ExtendsKeeps
 <2> QED BY <1>1, <2>1 DEF ShownFits
<1>12. SubsFit(ss, st, z)
 <2>1. \A i \in DOMAIN z : z[i].kind # "page" => z[i].generation <= g BY <1>1, <1>4 DEF SubsFit
 <2>2. \A i \in DOMAIN z : z[i].kind \notin {"page", "refused"} /\ z[i].generation = g =>
         LiveIn(ss, g)
  <3> TAKE i \in DOMAIN z
  <3> HAVE z[i].kind \notin {"page", "refused"} /\ z[i].generation = g
  <3>1. CASE i \in DOMAIN q
   <4>1. z[i] = q[i] BY <1>4, <3>1
   <4>2. q[i].kind \notin {"page", "refused"} /\ q[i].generation = g BY <4>1
   <4> QED BY <1>1, <3>1, <4>2 DEF SubsFit
  <3>2. CASE i \notin DOMAIN q
   <4>1. PICK k \in DOMAIN more : z[i] = more[k] BY <1>4, <3>2
   <4>2. more[k].generation = g BY <4>1
   <4> QED BY <1>8, <4>2
  <3> QED BY <3>1, <3>2
 <2>3. \A i \in DOMAIN z : z[i].kind = "refused" => \A s \in ss : s.generation # z[i].generation
  <3> TAKE i \in DOMAIN z
  <3> HAVE z[i].kind = "refused"
  <3>1. i \in DOMAIN q
   <4> SUFFICES ASSUME i \notin DOMAIN q PROVE FALSE OBVIOUS
   <4>1. PICK k \in DOMAIN more : z[i] = more[k] BY <1>4
   <4>2. more[k].kind = "event" OBVIOUS
   <4> QED BY <4>1, <4>2
  <3>2. z[i] = q[i] BY <1>4, <3>1
  <3>3. q[i].kind = "refused" BY <3>2
  <3> QED BY <1>1, <3>1, <3>2, <3>3 DEF SubsFit
 <2>4. \A s \in ss : s.stage = "live" =>
         \/ s.generation = g /\ st.unsubscribe = s.generation
         \/ \E i \in DOMAIN z : z[i].kind = "result" /\ z[i].generation = s.generation
  <3> TAKE s \in ss
  <3> HAVE s.stage = "live"
  <3>1. \/ s.generation = g /\ st.unsubscribe = s.generation
        \/ \E i \in DOMAIN q : q[i].kind = "result" /\ q[i].generation = s.generation
    BY <1>1 DEF SubsFit
  <3> QED BY <1>4, <3>1
 <2> QED BY <1>1, <2>1, <2>2, <2>3, <2>4 DEF SubsFit
<1>13. EventsFit(to, w, st, z)
 <2>1. \A i \in DOMAIN z : z[i].kind = "event" => SummaryFits(to, w, z[i].summary)
  <3>1. \A i \in DOMAIN q : q[i].kind = "event" => SummaryFits(to, w, q[i].summary)
   <4> TAKE i \in DOMAIN q
   <4> HAVE q[i].kind = "event"
   <4>1. SummaryFits(sv, pub, q[i].summary) /\ q[i].summary.revision \in Nat
     BY <1>1, <1>10 DEF EventsFit
   <4> QED BY <1>2, <4>1, ExtendsKeeps
  <3> QED BY <1>4, <1>6, <3>1
 <2>2. \A i, j \in DOMAIN z : i < j /\ z[i].kind = "event" /\ z[j].kind = "event" =>
         z[i].summary.revision <= z[j].summary.revision
  <3> TAKE i, j \in DOMAIN z
  <3> HAVE i < j /\ z[i].kind = "event" /\ z[j].kind = "event"
  <3>1. CASE i \in DOMAIN q /\ j \in DOMAIN q BY <1>1, <1>4, <3>1 DEF EventsFit
  <3>2. CASE i \in DOMAIN q /\ j \notin DOMAIN q
   <4>1. z[j].summary.revision = to.revision BY <1>4, <1>6, <3>2
   <4>2. z[i] = q[i] /\ q[i].summary.revision <= sv.revision /\ q[i].summary.revision \in Nat
     BY <1>1, <1>4, <1>10, <3>2 DEF EventsFit, SummaryFits
   <4> QED BY <1>2, <1>3, <4>1, <4>2 DEF Extends
  <3>3. CASE i \notin DOMAIN q /\ j \in DOMAIN q
   <4>1. PICK k \in DOMAIN more : i = n + k BY <1>4, <3>3
   <4>2. j < n + k BY <1>4, <3>3, <4>1
   <4> QED BY <1>5, <3>3, <4>1, <4>2
  <3>4. CASE i \notin DOMAIN q /\ j \notin DOMAIN q
   <4>1. z[i].summary.revision = to.revision /\ z[j].summary.revision = to.revision
     BY <1>4, <1>6, <3>4
   <4>2. to.revision \in Nat BY <1>2, <1>3
   <4>3. to.revision <= to.revision BY <4>2
   <4> QED BY <4>1, <4>3
  <3> QED BY <3>1, <3>2, <3>3, <3>4
 <2>3. st.status = "current" =>
         \A i \in DOMAIN z : z[i].kind = "event" => st.baseline.revision <= z[i].summary.revision
  <3> SUFFICES ASSUME st.status = "current", NEW i \in DOMAIN z, z[i].kind = "event"
               PROVE  st.baseline.revision <= z[i].summary.revision
    OBVIOUS
  <3>1. CASE i \in DOMAIN q
   <4>1. z[i] = q[i] BY <1>4, <3>1
   <4> QED BY <1>1, <3>1, <4>1 DEF EventsFit
  <3>2. CASE i \notin DOMAIN q
   <4>1. z[i].summary.revision = to.revision BY <1>4, <1>6, <3>2
   <4>2. st.baseline.revision <= sv.revision /\ st.baseline.revision \in Nat
     BY <1>1, ViewIs DEF ShownFits, ViewFits
   <4>3. sv.revision \in Nat /\ to.revision \in Nat /\ sv.revision <= to.revision
     BY <1>2, <1>3 DEF Extends
   <4>4. st.baseline.revision <= to.revision BY <4>2, <4>3
   <4> QED BY <4>1, <4>4
  <3> QED BY <3>1, <3>2
 <2>4. st.status = "current" => \E j \in DOMAIN z : Tells(to, z[j], g)
   BY <1>1, <1>4, <1>9 DEF SubsFit
 <2>5. \A i \in DOMAIN z : IsNews(z[i], g) =>
         \E j \in DOMAIN z : i <= j /\ Tells(to, z[j], g)
  <3> TAKE i \in DOMAIN z
  <3> HAVE IsNews(z[i], g)
  <3>1. CASE i \in DOMAIN q
   <4>1. LiveIn(ss, g) BY <1>1, <1>4, <3>1 DEF SubsFit, IsNews
   <4>2. PICK k \in DOMAIN more : Tells(to, more[k], g) BY <1>9, <4>1
   <4>3. i <= n + k BY <1>4, <1>5, <3>1
   <4> QED BY <1>4, <4>2, <4>3
  <3>2. CASE i \notin DOMAIN q
   <4>1. Tells(to, z[i], g) BY <1>4, <1>7, <3>2
   <4>2. i <= i BY <1>4, <1>5, <3>2
   <4> QED BY <4>1, <4>2
  <3> QED BY <3>1, <3>2
 <2> QED BY <2>1, <2>2, <2>3, <2>4, <2>5 DEF EventsFit
<1>14. ASSUME NEW t \in st.reads, Current(st, t)
       PROVE  /\ \A k : Items(w, t, k) = Items(pub, t, k)
              /\ \A k, a : AnswerFits(w, t, k, a) = AnswerFits(pub, t, k, a)
              /\ Going(pub, st, t) => Going(w, st, t)
              /\ w[t.revision] = pub[t.revision]
 <2>1. t.revision = st.baseline.revision /\ ViewFits(sv, pub, st.baseline)
   BY <1>1, <1>14 DEF ReadsFit, ReadFits, Going, ShownFits, Current
 <2>2. pub[t.revision] \in Contents /\ t.revision \in Nat /\ t.revision <= sv.revision
   BY <2>1, ViewIs DEF ViewFits
 <2>3. t.revision \in Revisions BY <1>2, <1>3, <2>2 DEF Revisions
 <2>4. w[t.revision] = pub[t.revision] BY <2>2, <2>3 DEF Extends
 <2>5. \A k : Items(w, t, k) = Items(pub, t, k) BY <2>4 DEF Items
 <2>6. \A k, a : AnswerFits(w, t, k, a) = AnswerFits(pub, t, k, a) BY <2>5 DEF AnswerFits
 <2>7. Going(pub, st, t) => Going(w, st, t)
  <3>1. Lengths(w, t.revision) = Lengths(pub, t.revision) BY <2>4 DEF Lengths
  <3>2. Collected(pub, st, t) => Collected(w, st, t) BY <2>4, <2>5 DEF Collected
  <3> QED BY <3>1, <3>2 DEF Going
 <2> QED BY <2>4, <2>5, <2>6, <2>7
<1>15. ReadsFit(w, st)
 <2>1. \A t \in st.reads : ReadFits(w, st, t) BY <1>1, <1>14 DEF ReadsFit, ReadFits
 <2>2. ASSUME NEW i \in DOMAIN st.micro PROVE MicroFits(w, st, st.micro[i])
   BY <1>1, <1>14 DEF ReadsFit, MicroFits
 <2> QED BY <1>1, <2>1, <2>2 DEF ReadsFit
<1>16. MailFits(w, st, z)
 <2>1. \A i \in DOMAIN z : z[i].kind = "page" => i \in DOMAIN q /\ z[i] = q[i] BY <1>4
 <2>2. ASSUME NEW i \in DOMAIN z, z[i].kind = "page"
       PROVE  \E t \in st.reads :
                /\ t.id = z[i].task /\ z[i].page \in t.asked
                /\ Current(st, t) => \/ AnswerFits(w, t, z[i].page, z[i].answer)
                                     \/ \E j \in DOMAIN z : j < i /\ Moves(st, z[j])
  <3>1. PICK t \in st.reads :
               /\ t.id = q[i].task /\ q[i].page \in t.asked
               /\ Current(st, t) => \/ AnswerFits(pub, t, q[i].page, q[i].answer)
                                    \/ \E j \in DOMAIN q : j < i /\ Moves(st, q[j])
    BY <1>1, <2>1, <2>2 DEF MailFits
  <3> QED BY <1>4, <1>14, <2>1, <2>2, <3>1
 <2>3. \A i, j \in DOMAIN z :
         /\ z[i].kind = "page" /\ z[j].kind = "page"
         /\ z[i].task = z[j].task /\ z[i].page = z[j].page
         => i = j
   BY <1>1, <2>1 DEF MailFits
 <2> QED BY <2>2, <2>3 DEF MailFits
<1> QED BY <1>1, <1>4, <1>11, <1>12, <1>13, <1>15, <1>16 DEF Fits, z

-----------------------------------------------------------------------------
(* Steps of the browser *)

(* Between two steps, nothing is left to send.                             *)
LEMMA AtRest ==
  ASSUME StoreFits
  PROVE  Good(subs, store, down) /\ TaskFits(store) /\ store \in Store /\ \A id : TaskBut(store, id)
<1>1. /\ Fits(server, published, subs, store, down) /\ TaskFits(store) /\ store.out = <<>>
      /\ down \in Seq(Message) /\ store \in Store
  BY DEF StoreFits, Fits
<1>2. Sent(store, down) = down BY <1>1, SentNone
<1> QED BY <1>1, <1>2 DEF Good, TaskFits, TaskBut

(* The store becomes what the step made of it, and its requests leave.     *)
LEMMA ClientFits ==
  ASSUME NEW ss, NEW next, NEW q, Good(ss, next, q), TaskFits(next), Client(next, q),
         server' = server, published' = published, subs' = ss
  PROVE  StoreFits'
<1> DEFINE u == [next EXCEPT !.out = <<>>]
<1>1. next \in Store /\ q \in Seq(Message) /\ Fits(server, published, ss, next, Sent(next, q))
  BY DEF Good, Fits
<1>2. store' = u /\ down' = Sent(next, q) BY DEF Client, Sent, Replies
<1>3. u \in Store /\ u.out = <<>> /\ Alike(next, u) /\ u.reads = next.reads /\ u.micro = next.micro
      /\ u.task = next.task
 <2>1. <<>> \in Seq(Asked) OBVIOUS
 <2>2. u \in Store BY <1>1, <2>1 DEF Store
 <2> QED BY <1>1, <2>2 DEF Alike, Store
<1> HIDE DEF u
<1>4. Fits(server, published, ss, u, Sent(next, q)) BY <1>1, <1>3, SameFits
<1>5. TaskFits(u) BY <1>3 DEF TaskFits
<1>6. Fits(server', published', subs', store', down') BY <1>2, <1>4
<1>7. TaskFits(store') /\ store'.out = <<>> BY <1>2, <1>3, <1>5
<1> QED BY <1>6, <1>7 DEF StoreFits

(* A worker goes on with its answer.                                       *)
LEMMA ContinueKeeps == ASSUME IInv, Continue PROVE StoreFits'
<1> DEFINE m == Head(store.micro)
           t == CHOOSE x \in store.reads : x.id = m.task
           u == Take([store EXCEPT !.micro = Tail(@)], t, m)
<1>1. Good(subs, store, down) /\ TaskFits(store) /\ ServerFits(server, published) BY AtRest DEF IInv
<1>2. Good(subs, u, down) /\ TaskFits(u) BY <1>1, TakeGood DEF Continue
<1>3. Client(u, down) /\ server' = server /\ published' = published /\ subs' = subs BY DEF Continue
<1> HIDE DEF u
<1> QED BY <1>2, <1>3, ClientFits

(* A read whose workers are through ends.                                  *)
LEMMA InstallKeeps == ASSUME IInv, NEW t \in store.reads, Install(t) PROVE StoreFits'
<1> DEFINE u == Complete(store, t)
<1>1. Good(subs, store, down) /\ TaskFits(store) /\ ServerFits(server, published) BY AtRest DEF IInv
<1>2. Good(subs, u, down) /\ TaskFits(u) BY <1>1, CompleteGood DEF Install
<1>3. Client(u, down) /\ server' = server /\ published' = published /\ subs' = subs BY DEF Install
<1> HIDE DEF u
<1> QED BY <1>2, <1>3, ClientFits

(* A rendering page asks, or the cards alone change.                       *)
LEMMA RenderedFits ==
  ASSUME IInv
  PROVE  Good(subs, Rendered(store), down) /\ TaskFits(Rendered(store))
<1>1. Good(subs, store, down) /\ ServerFits(server, published) /\ TaskBut(store, NoTask)
  BY AtRest DEF IInv
<1>2. Good(subs, Rendered(store), down) /\ TaskBut(Rendered(store), NoTask) BY <1>1, RenderedGood
<1> QED BY <1>2 DEF TaskBut, TaskFits

(* A card turns to a page that needs the catalog, or away from it.         *)
LEMMA ViewKeeps == ASSUME IInv, NEW c, View(c) PROVE StoreFits'
<1>1. Good(subs, store, down) /\ TaskFits(store) BY AtRest DEF IInv
<1>2. server' = server /\ published' = published /\ subs' = subs BY DEF View
<1>3. CASE c \in cards.viewing
 <2>1. Client(store, down) BY <1>3 DEF View
 <2> QED BY <1>1, <1>2, <2>1, ClientFits
<1>4. CASE c \notin cards.viewing
 <2>1. Client(Rendered(store), down) BY <1>4 DEF View
 <2>2. Good(subs, Rendered(store), down) /\ TaskFits(Rendered(store)) BY RenderedFits
 <2> QED BY <1>2, <2>1, <2>2, ClientFits
<1> QED BY <1>3, <1>4

(* Starting and stopping, in the middle of a step.                         *)
LEMMA StartGood ==
  ASSUME NEW ss, NEW st, NEW q, Good(ss, st, q), ~st.active, TaskFits(st),
         NEW more, more = ss \cup {Opened(Started(st))}
  PROVE  Good(more, Started(st), q) /\ TaskFits(Started(st))
<1> DEFINE u == Started(st)
<1>1. Fits(server, published, ss, st, Sent(st, q)) /\ q \in Seq(Message) BY DEF Good
<1>2. Fits(server, published, more, u, Sent(st, q)) /\ TaskFits(u) /\ u.out = st.out
  BY <1>1, StartedFits
<1> HIDE DEF u
<1>3. Sent(u, q) = Sent(st, q) BY <1>2 DEF Sent
<1>4. Good(more, u, q) /\ TaskFits(u) BY <1>1, <1>2, <1>3 DEF Good
<1> QED BY <1>4 DEF u

(* A stop leaves no subscription of its own, and reads that are obsolete.  *)
LEMMA StopGood ==
  ASSUME NEW ss, NEW st, NEW q, Good(ss, st, q),
         NEW rest, rest = {s \in ss : s.generation # st.unsubscribe}
  PROVE  Good(rest, Stopped(st), q) /\ TaskFits(Stopped(st)) /\ ~Stopped(st).active
         /\ Stopped(st).out = st.out
<1> DEFINE u == Stopped(st)
<1>1. Fits(server, published, ss, st, Sent(st, q)) /\ q \in Seq(Message) BY DEF Good
<1>2. Fits(server, published, rest, u, Sent(st, q)) /\ TaskFits(u) /\ u.out = st.out /\ ~u.active
  BY <1>1, StoppedFits
<1> HIDE DEF u
<1>3. Sent(u, q) = Sent(st, q) BY <1>2 DEF Sent
<1>4. Good(rest, u, q) /\ TaskFits(u) /\ u.out = st.out /\ ~u.active BY <1>1, <1>2, <1>3 DEF Good
<1> QED BY <1>4 DEF u

(* Asking for the catalog leaves the subscription alone.                   *)
LEMMA RenderedIs ==
  ASSUME NEW st \in Store
  PROVE  Rendered(st).active = st.active /\ Rendered(st).generation = st.generation
<1>1. Ensure(st).active = st.active /\ Ensure(st).generation = st.generation
 <2>1. CASE st.task # NoTask BY <2>1 DEF Ensure, Store
 <2>2. CASE st.task = NoTask /\ st.status = "current" /\ Lacking(st.baseline) /\ st.error = None
   BY <2>2 DEF Ensure, Store
 <2>3. CASE st.task = NoTask /\ ~(st.status = "current" /\ Lacking(st.baseline) /\ st.error = None)
   BY <2>3 DEF Ensure, Store
 <2> QED BY <2>1, <2>2, <2>3
<1> QED BY <1>1 DEF Rendered

(* A card appears.                                                         *)
LEMMA ListenKeeps ==
  ASSUME IInv, NEW c, NEW viewing, Listen(c, viewing)
  PROVE  StoreFits'
<1> DEFINE shown == IF viewing THEN Rendered(store) ELSE store
<1>1. /\ Good(subs, shown, down) /\ TaskFits(shown)
      /\ shown.active = store.active /\ shown.generation = store.generation
 <2>1. CASE viewing
  <3>1. store \in Store BY AtRest DEF IInv
  <3> QED BY <2>1, <3>1, RenderedFits, RenderedIs
 <2>2. CASE ~viewing BY <2>2, AtRest DEF IInv
 <2> QED BY <2>1, <2>2
<1>2. server' = server /\ published' = published BY DEF Listen
<1>3. CASE store.active
 <2>1. Client(shown, down) /\ subs' = subs BY <1>3 DEF Listen
 <2> HIDE DEF shown
 <2> QED BY <1>1, <1>2, <2>1, ClientFits
<1>4. CASE ~store.active
 <2>1. Client(Started(shown), down) /\ subs' = subs \cup {Opened(Started(store))} BY <1>4 DEF Listen
 <2> HIDE DEF shown
 <2>2. store \in Store /\ shown \in Store BY <1>1, AtRest DEF IInv, Good, Fits
 <2>3. Opened(Started(shown)) = Opened(Started(store)) BY <1>1, <2>2 DEF Opened, Started, Store
 <2>4. subs' = subs \cup {Opened(Started(shown))} BY <2>1, <2>3
 <2>5. Good(subs', Started(shown), down) /\ TaskFits(Started(shown)) BY <1>1, <1>4, <2>4, StartGood
 <2> DEFINE u == Started(shown)
 <2>6. Good(subs', u, down) /\ TaskFits(u) /\ Client(u, down) BY <2>1, <2>5
 <2> HIDE DEF u
 <2> QED BY <1>2, <2>6, ClientFits
<1> QED BY <1>3, <1>4

(* The check that stops the stream when no card listens.                   *)
LEMMA StopCheckKeeps == ASSUME IInv, StopCheck PROVE StoreFits'
<1>1. server' = server /\ published' = published /\ down' = down BY DEF StopCheck
<1>2. CASE cards.listening = {}
 <2>1. store' = Stopped(store) /\ subs' = {s \in subs : s.generation # store.unsubscribe}
   BY <1>2 DEF StopCheck, Closed
 <2>2. Good(subs, store, down) /\ store.out = <<>> /\ down \in Seq(Message)
   BY AtRest DEF IInv, StoreFits, Good
 <2>3. /\ Good(subs', Stopped(store), down) /\ TaskFits(Stopped(store))
       /\ Stopped(store).out = store.out
   BY <2>1, <2>2, StopGood
 <2>4. Good(subs', store', down) /\ TaskFits(store') /\ store'.out = <<>> BY <2>1, <2>2, <2>3
 <2>5. Sent(store', down) = down BY <2>2, <2>4, SentNone
 <2>6. Fits(server', published', subs', store', down') BY <1>1, <2>4, <2>5 DEF Good
 <2> QED BY <2>4, <2>6 DEF StoreFits
<1>3. CASE cards.listening # {}
 <2>1. store' = store /\ subs' = subs BY <1>3 DEF StopCheck
 <2> QED BY <1>1, <2>1 DEF IInv, StoreFits, TaskFits
<1> QED BY <1>2, <1>3

(* The button beside an error starts the stream again.                     *)
LEMMA RetryKeeps == ASSUME IInv, Retry PROVE StoreFits'
<1> DEFINE a == Stopped(store)
           b == Started(a)
           u == Update(b)
<1>1. /\ Good(subs, store, down) /\ ServerFits(server, published) BY AtRest DEF IInv
<1>2. /\ Client(u, down) /\ subs' = Closed \cup {Opened(Started(a))}
      /\ server' = server /\ published' = published
  BY DEF Retry
<1>3. Good(Closed, a, down) /\ TaskFits(a) /\ ~a.active BY <1>1, StopGood DEF Closed
<1> HIDE DEF a
<1>4. Good(subs', b, down) /\ TaskFits(b) BY <1>2, <1>3, StartGood
<1> HIDE DEF b
<1>5. TaskBut(b, NoTask) BY <1>4 DEF TaskBut, TaskFits
<1>6. Good(subs', u, down) /\ TaskBut(u, NoTask) BY <1>1, <1>4, <1>5, UpdateGood
<1> HIDE DEF u
<1>7. TaskFits(u) BY <1>6 DEF TaskBut, TaskFits
<1> QED BY <1>2, <1>6, <1>7, ClientFits

(* The button beside a failed catalog reads it again.                      *)
LEMMA RetryCatalogKeeps == ASSUME IInv, RetryCatalog PROVE StoreFits'
<1> DEFINE a == [store EXCEPT !.error = None]
           b == Ensure(a)
           u == Update(b)
<1>1. /\ Good(subs, store, down) /\ ServerFits(server, published) /\ TaskBut(store, NoTask)
  BY AtRest DEF IInv
<1>2. Client(u, down) /\ subs' = subs /\ server' = server /\ published' = published
  BY DEF RetryCatalog
<1>3. Good(subs, a, down) /\ TaskBut(a, NoTask) BY <1>1, ErrorGood
<1> HIDE DEF a
<1>4. Good(subs, b, down) /\ TaskBut(b, NoTask) BY <1>1, <1>3, EnsureGood
<1> HIDE DEF b
<1>5. Good(subs, u, down) /\ TaskBut(u, NoTask) BY <1>1, <1>4, UpdateGood
<1> HIDE DEF u
<1>6. TaskFits(u) BY <1>5 DEF TaskBut, TaskFits
<1> QED BY <1>2, <1>5, <1>6, ClientFits

-----------------------------------------------------------------------------
(* The connection *)

(* Messages other than pages, with the view as it is now, behind the       *)
(* others.                                                                 *)
LEMMA Notes ==
  ASSUME NEW sv, NEW pub, ServerFits(sv, pub), NEW ss, NEW st, NEW q, Fits(sv, pub, ss, st, q),
         NEW more \in Seq(Message),
         \A k \in DOMAIN more :
           more[k].kind # "page" /\ (more[k].kind = "event" => more[k].summary = Summary(sv))
  PROVE  EventsFit(sv, pub, st, q \o more) /\ MailFits(pub, st, q \o more)
<1> DEFINE z == q \o more
           n == Len(q)
           g == st.generation
<1>1. /\ st \in Store /\ q \in Seq(Message) /\ ShownFits(sv, pub, st)
      /\ EventsFit(sv, pub, st, q) /\ MailFits(pub, st, q)
  BY DEF Fits
<1>2. /\ DOMAIN q \subseteq DOMAIN z
      /\ \A i \in DOMAIN q : z[i] = q[i]
      /\ \A i \in DOMAIN z : \/ i \in DOMAIN q
                             \/ \E k \in DOMAIN more : i = n + k /\ z[i] = more[k]
      /\ \A k \in DOMAIN more : n + k \in DOMAIN z /\ z[n + k] = more[k]
      /\ \A i \in DOMAIN q, k \in DOMAIN more : i < n + k
      /\ DOMAIN z \subseteq Nat
  BY <1>1, Behind
<1> HIDE DEF z, n
<1>3. /\ SummaryFits(sv, pub, Summary(sv))
      /\ Summary(sv).available = sv.available /\ Summary(sv).revision = sv.revision
  BY SummaryIs
<1>4. sv.revision \in Nat BY CatalogAssumption DEF ServerFits, Server
<1>5. \A i \in DOMAIN z : i \notin DOMAIN q =>
        z[i].kind # "page" /\ (z[i].kind = "event" => z[i].summary = Summary(sv))
  BY <1>2
<1>6. \A i \in DOMAIN q : q[i].kind = "event" =>
        q[i].summary.revision \in Nat /\ q[i].summary.revision <= sv.revision
 <2> TAKE i \in DOMAIN q
 <2> HAVE q[i].kind = "event"
 <2>1. q[i].summary \in Summaries /\ SummaryFits(sv, pub, q[i].summary)
   BY <1>1, MessageIs DEF EventsFit
 <2> QED BY <2>1, CatalogAssumption DEF Summaries, SummaryFits
<1>7. \A i \in DOMAIN z : i \notin DOMAIN q /\ z[i].kind = "event" =>
        z[i].summary.revision = sv.revision
  BY <1>3, <1>5
<1>8. EventsFit(sv, pub, st, z)
 <2>1. \A i \in DOMAIN z : z[i].kind = "event" => SummaryFits(sv, pub, z[i].summary)
  <3> TAKE i \in DOMAIN z
  <3> HAVE z[i].kind = "event"
  <3>1. CASE i \in DOMAIN q
   <4>1. z[i] = q[i] BY <1>2, <3>1
   <4> QED BY <1>1, <3>1, <4>1 DEF EventsFit
  <3>2. CASE i \notin DOMAIN q BY <1>3, <1>5, <3>2
  <3> QED BY <3>1, <3>2
 <2>2. \A i, j \in DOMAIN z : i < j /\ z[i].kind = "event" /\ z[j].kind = "event" =>
         z[i].summary.revision <= z[j].summary.revision
  <3> TAKE i, j \in DOMAIN z
  <3> HAVE i < j /\ z[i].kind = "event" /\ z[j].kind = "event"
  <3>1. CASE i \in DOMAIN q /\ j \in DOMAIN q
   <4>1. z[i] = q[i] /\ z[j] = q[j] BY <1>2, <3>1
   <4> QED BY <1>1, <3>1, <4>1 DEF EventsFit
  <3>2. CASE j \notin DOMAIN q
   <4>1. z[j].summary.revision = sv.revision BY <1>7, <3>2
   <4>2. z[i].summary.revision \in Nat /\ z[i].summary.revision <= sv.revision
    <5>1. CASE i \in DOMAIN q
     <6>1. z[i] = q[i] BY <1>2, <5>1
     <6> QED BY <1>6, <5>1, <6>1
    <5>2. CASE i \notin DOMAIN q
     <6>1. z[i].summary.revision = sv.revision BY <1>7, <5>2
     <6> QED BY <1>4, <6>1
    <5> QED BY <5>1, <5>2
   <4> QED BY <4>1, <4>2
  <3>3. CASE i \notin DOMAIN q /\ j \in DOMAIN q
   <4>1. PICK k \in DOMAIN more : i = n + k BY <1>2, <3>3
   <4>2. j < i BY <1>2, <3>3, <4>1
   <4> QED BY <1>2, <4>2
  <3> QED BY <3>1, <3>2, <3>3
 <2>3. st.status = "current" =>
         \A i \in DOMAIN z : z[i].kind = "event" => st.baseline.revision <= z[i].summary.revision
  <3> SUFFICES ASSUME st.status = "current", NEW i \in DOMAIN z, z[i].kind = "event"
               PROVE  st.baseline.revision <= z[i].summary.revision
    OBVIOUS
  <3>1. CASE i \in DOMAIN q
   <4>1. z[i] = q[i] BY <1>2, <3>1
   <4> QED BY <1>1, <3>1, <4>1 DEF EventsFit
  <3>2. CASE i \notin DOMAIN q
   <4>1. z[i].summary.revision = sv.revision BY <1>7, <3>2
   <4>2. st.baseline.revision <= sv.revision BY <1>1 DEF ShownFits, ViewFits
   <4> QED BY <4>1, <4>2
  <3> QED BY <3>1, <3>2
 <2>4. st.status = "current" =>
         \/ sv.available /\ sv.revision = st.baseline.revision
         \/ \E j \in DOMAIN z : Tells(sv, z[j], g)
   BY <1>1, <1>2 DEF EventsFit
 <2>5. \A i \in DOMAIN z : IsNews(z[i], g) => \E j \in DOMAIN z : i <= j /\ Tells(sv, z[j], g)
  <3> TAKE i \in DOMAIN z
  <3> HAVE IsNews(z[i], g)
  <3>1. CASE i \in DOMAIN q
   <4>1. z[i] = q[i] BY <1>2, <3>1
   <4>2. PICK j \in DOMAIN q : i <= j /\ Tells(sv, q[j], g) BY <1>1, <3>1, <4>1 DEF EventsFit
   <4>3. j \in DOMAIN z /\ z[j] = q[j] BY <1>2
   <4> QED BY <4>2, <4>3
  <3>2. CASE i \notin DOMAIN q
   <4>1. Tells(sv, z[i], g) BY <1>3, <1>5, <3>2 DEF IsNews, Tells
   <4>2. i <= i BY <1>2
   <4> QED BY <4>1, <4>2
  <3> QED BY <3>1, <3>2
 <2> QED BY <2>1, <2>2, <2>3, <2>4, <2>5 DEF EventsFit
<1>9. MailFits(pub, st, z)
 <2>1. \A i \in DOMAIN z : z[i].kind = "page" => i \in DOMAIN q /\ z[i] = q[i] BY <1>2, <1>5
 <2>2. ASSUME NEW i \in DOMAIN z, z[i].kind = "page"
       PROVE  \E t \in st.reads :
                /\ t.id = z[i].task /\ z[i].page \in t.asked
                /\ Current(st, t) => \/ AnswerFits(pub, t, z[i].page, z[i].answer)
                                     \/ \E j \in DOMAIN z : j < i /\ Moves(st, z[j])
  <3>1. i \in DOMAIN q /\ z[i] = q[i] BY <2>1, <2>2
  <3>2. PICK t \in st.reads :
               /\ t.id = q[i].task /\ q[i].page \in t.asked
               /\ Current(st, t) => \/ AnswerFits(pub, t, q[i].page, q[i].answer)
                                    \/ \E j \in DOMAIN q : j < i /\ Moves(st, q[j])
    BY <1>1, <2>2, <3>1 DEF MailFits
  <3> QED BY <1>2, <3>1, <3>2
 <2>3. \A i, j \in DOMAIN z :
         /\ z[i].kind = "page" /\ z[j].kind = "page"
         /\ z[i].task = z[j].task /\ z[i].page = z[j].page
         => i = j
   BY <1>1, <2>1 DEF MailFits
 <2> QED BY <2>2, <2>3 DEF MailFits
<1> QED BY <1>8, <1>9 DEF z

(* A subscription goes live: its result and the first event are on their way.*)
LEMMA AcceptKeeps == ASSUME IInv, NEW s \in subs, Accept(s) PROVE StoreFits'
<1> DEFINE n == [s EXCEPT !.stage = "live"]
           new == (subs \ {s}) \cup {n}
           a == [kind |-> "result", generation |-> s.generation]
           b == Event(s.generation, Summary(server))
           more == <<a, b>>
           z == down \o more
           g == store.generation
<1>1. /\ store \in Store /\ down \in Seq(Message) /\ SubsFit(subs, store, down)
      /\ Fits(server, published, subs, store, down) /\ ServerFits(server, published)
  BY DEF IInv, StoreFits, Fits
<1>2. s \in Subscription /\ s.generation \in Nat /\ s.generation <= g /\ s.stage = "sent"
  BY <1>1 DEF SubsFit, Subscription, Accept
<1>3. Summary(server) \in Summaries BY <1>1, SummaryIs
<1>4. a \in Message /\ b \in Message BY <1>2, <1>3 DEF Message, Event
<1>5. a.kind = "result" /\ a.generation = s.generation OBVIOUS
<1>6. b.kind = "event" /\ b.generation = s.generation /\ b.summary = Summary(server) BY DEF Event
<1>7. n \in Subscription /\ n.generation = s.generation /\ n.stage = "live" BY <1>2 DEF Subscription
<1>8. /\ server' = server /\ published' = published /\ store' = store
      /\ subs' = new /\ down' = z
  BY DEF Accept
<1> HIDE DEF a, b, n
<1>9. more \in Seq(Message) /\ DOMAIN more = {1, 2} /\ more[1] = a /\ more[2] = b BY <1>4
<1> HIDE DEF more
<1>10. EventsFit(server, published, store, z) /\ MailFits(published, store, z)
 <2>1. \A k \in DOMAIN more :
         more[k].kind # "page" /\ (more[k].kind = "event" => more[k].summary = Summary(server))
   BY <1>5, <1>6, <1>9
 <2> QED BY <1>1, <1>9, <2>1, Notes
<1>11. /\ z \in Seq(Message) /\ \A i \in DOMAIN down : i \in DOMAIN z /\ z[i] = down[i]
       /\ \A i \in DOMAIN z : i \in DOMAIN down \/ \E k \in DOMAIN more : z[i] = more[k]
       /\ \E i \in DOMAIN z : z[i] = a
 <2>1. /\ z \in Seq(Message) /\ \A i \in DOMAIN down : i \in DOMAIN z /\ z[i] = down[i]
       /\ \A i \in DOMAIN z : i \in DOMAIN down \/ \E k \in DOMAIN more : z[i] = more[k]
       /\ \A k \in DOMAIN more : Len(down) + k \in DOMAIN z /\ z[Len(down) + k] = more[k]
   BY <1>1, <1>9, Behind
 <2>2. 1 \in DOMAIN more BY <1>9
 <2>3. Len(down) + 1 \in DOMAIN z /\ z[Len(down) + 1] = a BY <1>9, <2>1, <2>2
 <2> QED BY <2>1, <2>3
<1> HIDE DEF z
<1>12. \A i \in DOMAIN z :
         \/ i \in DOMAIN down /\ z[i] = down[i]
         \/ z[i].kind \in {"result", "event"} /\ z[i].generation = s.generation
  BY <1>5, <1>6, <1>9, <1>11
<1>13. SubsFit(new, store, z)
 <2>1. IsFiniteSet(new) BY <1>1, FS_AddElement, FS_RemoveElement DEF SubsFit
 <2>2. new \subseteq Subscription /\ \A x, y \in new : x.generation = y.generation => x = y
   BY <1>1, <1>7 DEF SubsFit
 <2>3. \A x \in new : x.generation <= g /\ (x.generation = g => store.active)
   BY <1>1, <1>7 DEF SubsFit
 <2>4. LiveIn(subs, g) => LiveIn(new, g) BY <1>2 DEF LiveIn
 <2>5. \A i \in DOMAIN z : z[i].kind # "page" => z[i].generation <= g
   BY <1>1, <1>2, <1>12 DEF SubsFit
 <2>6. \A i \in DOMAIN z : z[i].kind \notin {"page", "refused"} /\ z[i].generation = g =>
         LiveIn(new, g)
  <3> TAKE i \in DOMAIN z
  <3> HAVE z[i].kind \notin {"page", "refused"} /\ z[i].generation = g
  <3>1. CASE i \in DOMAIN down /\ z[i] = down[i] BY <1>1, <2>4, <3>1 DEF SubsFit
  <3>2. CASE z[i].generation = s.generation BY <1>7, <3>2 DEF LiveIn
  <3> QED BY <1>12, <3>1, <3>2
 <2>7. \A i \in DOMAIN z : z[i].kind = "refused" => \A x \in new : x.generation # z[i].generation
  <3> TAKE i \in DOMAIN z
  <3> HAVE z[i].kind = "refused"
  <3>1. i \in DOMAIN down /\ z[i] = down[i] BY <1>12
  <3>2. \A x \in subs : x.generation # z[i].generation BY <1>1, <3>1 DEF SubsFit
  <3> QED BY <1>7, <3>2
 <2>8. \A x \in new : x.stage = "live" =>
         \/ x.generation = g /\ store.unsubscribe = x.generation
         \/ \E i \in DOMAIN z : z[i].kind = "result" /\ z[i].generation = x.generation
  <3> TAKE x \in new
  <3> HAVE x.stage = "live"
  <3>1. CASE x = n BY <1>5, <1>7, <1>11, <3>1
  <3>2. CASE x \in subs
   <4>1. \/ x.generation = g /\ store.unsubscribe = x.generation
         \/ \E i \in DOMAIN down : down[i].kind = "result" /\ down[i].generation = x.generation
     BY <1>1, <3>2 DEF SubsFit
   <4> QED BY <1>11, <4>1
  <3> QED BY <3>1, <3>2
 <2> QED BY <1>1, <2>1, <2>2, <2>3, <2>4, <2>5, <2>6, <2>7, <2>8 DEF SubsFit
<1> HIDE DEF new
<1>14. Fits(server', published', subs', store', down') BY <1>1, <1>8, <1>10, <1>11, <1>13 DEF Fits
<1> QED BY <1>8, <1>14 DEF IInv, StoreFits, TaskFits

(* One message of a subscription, not a page, that tells of no view and    *)
(* of no result.                                                           *)
LEMMA Fault ==
  ASSUME IInv, NEW m \in Message, m.kind \in {"refused", "invalid"},
         NEW new, new \subseteq subs,
         LiveIn(subs, store.generation) => LiveIn(new, store.generation),
         m.generation <= store.generation,
         m.kind = "refused" => \A x \in new : x.generation # m.generation,
         m.kind = "invalid" /\ m.generation = store.generation => LiveIn(new, store.generation),
         server' = server, published' = published, store' = store, subs' = new,
         down' = Append(down, m)
  PROVE  StoreFits'
<1> DEFINE more == <<m>>
           z == down \o more
           g == store.generation
<1>1. /\ store \in Store /\ down \in Seq(Message) /\ SubsFit(subs, store, down)
      /\ Fits(server, published, subs, store, down) /\ ServerFits(server, published)
  BY DEF IInv, StoreFits, Fits
<1>2. more \in Seq(Message) /\ DOMAIN more = {1} /\ more[1] = m OBVIOUS
<1>3. down' = z BY <1>1
<1> HIDE DEF more
<1>4. EventsFit(server, published, store, z) /\ MailFits(published, store, z)
 <2>1. \A k \in DOMAIN more :
         more[k].kind # "page" /\ (more[k].kind = "event" => more[k].summary = Summary(server))
   BY <1>2
 <2> QED BY <1>1, <1>2, <2>1, Notes
<1>5. /\ z \in Seq(Message) /\ \A i \in DOMAIN down : i \in DOMAIN z /\ z[i] = down[i]
      /\ \A i \in DOMAIN z : i \in DOMAIN down \/ \E k \in DOMAIN more : z[i] = more[k]
  BY <1>1, <1>2, Behind
<1> HIDE DEF z
<1>6. \A i \in DOMAIN z : (i \in DOMAIN down /\ z[i] = down[i]) \/ z[i] = m BY <1>2, <1>5
<1>7. SubsFit(new, store, z)
 <2>1. IsFiniteSet(new) /\ new \subseteq Subscription BY <1>1, FS_Subset DEF SubsFit
 <2>2. \A x, y \in new : x.generation = y.generation => x = y BY <1>1 DEF SubsFit
 <2>3. \A x \in new : x.generation <= g /\ (x.generation = g => store.active) BY <1>1 DEF SubsFit
 <2>4. \A i \in DOMAIN z : z[i].kind # "page" => z[i].generation <= g BY <1>1, <1>6 DEF SubsFit
 <2>5. \A i \in DOMAIN z : z[i].kind \notin {"page", "refused"} /\ z[i].generation = g =>
         LiveIn(new, g)
  <3> TAKE i \in DOMAIN z
  <3> HAVE z[i].kind \notin {"page", "refused"} /\ z[i].generation = g
  <3>1. CASE i \in DOMAIN down /\ z[i] = down[i] BY <1>1, <3>1 DEF SubsFit
  <3>2. CASE z[i] = m BY <3>2
  <3> QED BY <1>6, <3>1, <3>2
 <2>6. \A i \in DOMAIN z : z[i].kind = "refused" => \A x \in new : x.generation # z[i].generation
   BY <1>1, <1>6 DEF SubsFit
 <2>7. \A x \in new : x.stage = "live" =>
         \/ x.generation = g /\ store.unsubscribe = x.generation
         \/ \E i \in DOMAIN z : z[i].kind = "result" /\ z[i].generation = x.generation
   BY <1>1, <1>5 DEF SubsFit
 <2> QED BY <1>1, <2>1, <2>2, <2>3, <2>4, <2>5, <2>6, <2>7 DEF SubsFit
<1>8. Fits(server', published', subs', store', down') BY <1>1, <1>3, <1>4, <1>5, <1>7 DEF Fits
<1> QED BY <1>8 DEF IInv, StoreFits, TaskFits

(* A subscription is refused.                                              *)
LEMMA RefuseKeeps == ASSUME IInv, NEW s \in subs, Refuse(s) PROVE StoreFits'
<1> DEFINE m == [kind |-> "refused", generation |-> s.generation]
           new == subs \ {s}
<1>1. /\ SubsFit(subs, store, down) BY DEF IInv, StoreFits, Fits
<1>2. s.generation \in Nat /\ s.generation <= store.generation /\ s.stage = "sent"
  BY <1>1 DEF SubsFit, Subscription, Refuse
<1>3. m \in Message /\ m.kind = "refused" /\ m.generation = s.generation BY <1>2 DEF Message
<1>4. /\ server' = server /\ published' = published /\ store' = store
      /\ subs' = new /\ down' = Append(down, m)
  BY DEF Refuse
<1>5. LiveIn(subs, store.generation) => LiveIn(new, store.generation) BY <1>2 DEF LiveIn
<1>6. \A x \in new : x.generation # s.generation BY <1>1 DEF SubsFit
<1> HIDE DEF m
<1> QED BY <1>2, <1>3, <1>4, <1>5, <1>6, Fault

(* A summary of another version is sent.                                   *)
LEMMA SendInvalidKeeps == ASSUME IInv, NEW s \in subs, SendInvalid(s) PROVE StoreFits'
<1>1. /\ SubsFit(subs, store, down) BY DEF IInv, StoreFits, Fits
<1>2. s.generation \in Nat /\ s.generation <= store.generation /\ s.stage = "live"
  BY <1>1 DEF SubsFit, Subscription, SendInvalid
<1>3. PICK version \in BOOLEAN :
        down' = Append(down, [kind |-> "invalid", generation |-> s.generation,
                              version |-> version])
  BY DEF SendInvalid
<1> DEFINE m == [kind |-> "invalid", generation |-> s.generation, version |-> version]
<1>4. m \in Message /\ m.kind = "invalid" /\ m.generation = s.generation BY <1>2 DEF Message
<1>5. /\ server' = server /\ published' = published /\ store' = store
      /\ subs' = subs /\ down' = Append(down, m)
  BY <1>3 DEF SendInvalid
<1>6. s.generation = store.generation => LiveIn(subs, store.generation) BY <1>2 DEF LiveIn
<1> HIDE DEF m
<1> QED BY <1>2, <1>4, <1>5, <1>6, Fault

-----------------------------------------------------------------------------
(* Messages arrive *)

(* The result of a subscription: the store keeps it, or closes it again.   *)
LEMMA SubscribedGood ==
  ASSUME NEW st, NEW ss, NEW q, Fits(server, published, ss, st, q), st.out = <<>>,
         TaskFits(st), q # <<>>, q[1].kind = "result",
         NEW new, NEW u,
         IF q[1].generation = st.generation
         THEN new = ss /\ u = [st EXCEPT !.unsubscribe = q[1].generation]
         ELSE new = {s \in ss : s.generation # q[1].generation} /\ u = st
  PROVE  Good(new, u, Tail(q)) /\ TaskFits(u)
<1> DEFINE m == q[1]
           z == Tail(q)
           g == st.generation
<1>1. /\ st \in Store /\ q \in Seq(Message) /\ SubsFit(ss, st, q) /\ ReadsFit(published, st)
      /\ ShownFits(server, published, st)
  BY DEF Fits
<1>2. ~IsNews(m, g) BY DEF IsNews
<1>3. z \in Seq(Message) /\ EventsFit(server, published, st, z) /\ MailFits(published, st, z)
  BY <1>2, TailRest
<1>4. /\ \A i \in DOMAIN z : i + 1 \in DOMAIN q /\ z[i] = q[i + 1]
      /\ \A j \in DOMAIN q : j = 1 \/ (j - 1 \in DOMAIN z /\ z[j - 1] = q[j])
      /\ 1 \in DOMAIN q /\ m \in Message
  BY <1>1, TailFacts
<1>5. m.generation \in Nat /\ m.kind = "result" BY <1>4, MessageIs
<1> HIDE DEF z, m
<1>6. /\ u \in Store /\ u.active = st.active /\ u.generation = g /\ u.catalog = st.catalog
      /\ u.status = st.status /\ u.data = st.data /\ u.baseline = st.baseline
      /\ u.reads = st.reads /\ u.micro = st.micro /\ u.out = st.out /\ u.task = st.task
      /\ u.unsubscribe = IF m.generation = g THEN m.generation ELSE st.unsubscribe
 <2>1. CASE m.generation = g
  <3>1. u = [st EXCEPT !.unsubscribe = m.generation] BY <2>1 DEF m
  <3>2. u \in Store BY <1>1, <1>5, <3>1 DEF Store
  <3> QED BY <1>1, <2>1, <3>1, <3>2 DEF Store
 <2>2. CASE m.generation # g
  <3>1. u = st BY <2>2 DEF m
  <3> QED BY <1>1, <2>2, <3>1
 <2> QED BY <2>1, <2>2
<1>7. new \subseteq ss /\ (LiveIn(ss, g) => LiveIn(new, g))
 <2>1. CASE m.generation = g
  <3>1. new = ss BY <2>1 DEF m
  <3> QED BY <3>1
 <2>2. CASE m.generation # g
  <3>1. new = {s \in ss : s.generation # m.generation} BY <2>2 DEF m
  <3> QED BY <2>2, <3>1 DEF LiveIn
 <2> QED BY <2>1, <2>2
<1>8. m.generation = g => st.active
 <2> SUFFICES ASSUME m.generation = g PROVE st.active OBVIOUS
 <2>1. LiveIn(ss, g) BY <1>1, <1>4, <1>5 DEF SubsFit, m
 <2> QED BY <1>1, <2>1 DEF SubsFit, LiveIn
<1>9. ASSUME NEW s \in new, s.stage = "live"
      PROVE  \/ s.generation = g /\ u.unsubscribe = s.generation
             \/ \E i \in DOMAIN z : z[i].kind = "result" /\ z[i].generation = s.generation
 <2>1. CASE s.generation = m.generation
  <3>1. m.generation = g
   <4> SUFFICES ASSUME m.generation # g PROVE FALSE OBVIOUS
   <4>1. new = {x \in ss : x.generation # m.generation} BY DEF m
   <4> QED BY <1>9, <2>1, <4>1
  <3> QED BY <1>6, <2>1, <3>1
 <2>2. CASE s.generation # m.generation
  <3>1. s \in ss BY <1>7
  <3>2. CASE s.generation = g /\ st.unsubscribe = s.generation BY <1>6, <2>2, <3>2
  <3>3. CASE ~ (s.generation = g /\ st.unsubscribe = s.generation)
   <4>1. PICK i \in DOMAIN q : q[i].kind = "result" /\ q[i].generation = s.generation
     BY <1>1, <1>9, <3>1, <3>3 DEF SubsFit
   <4>2. i # 1 BY <2>2, <4>1 DEF m
   <4> QED BY <1>4, <4>1, <4>2
  <3> QED BY <3>2, <3>3
 <2> QED BY <2>1, <2>2
<1>10. SubsFit(new, u, z)
 <2>1. IsFiniteSet(new) /\ new \subseteq Subscription BY <1>1, <1>7, FS_Subset DEF SubsFit
 <2>2. \A s, x \in new : s.generation = x.generation => s = x BY <1>1, <1>7 DEF SubsFit
 <2>3. \A s \in new : s.generation <= g /\ (s.generation = g => st.active) BY <1>1, <1>7 DEF SubsFit
 <2>4. u.unsubscribe # None => st.active /\ u.unsubscribe = g BY <1>1, <1>6, <1>8 DEF SubsFit
 <2>5. st.status = "current" => LiveIn(new, g) BY <1>1, <1>7 DEF SubsFit
 <2>6. \A i \in DOMAIN z : z[i].kind # "page" => z[i].generation <= g BY <1>1, <1>4 DEF SubsFit
 <2>7. \A i \in DOMAIN z : z[i].kind \notin {"page", "refused"} /\ z[i].generation = g =>
         LiveIn(new, g)
   BY <1>1, <1>4, <1>7 DEF SubsFit
 <2>8. \A i \in DOMAIN z : z[i].kind = "refused" => \A s \in new : s.generation # z[i].generation
   BY <1>1, <1>4, <1>7 DEF SubsFit
 <2> QED BY <1>6, <1>9, <2>1, <2>2, <2>3, <2>4, <2>5, <2>6, <2>7, <2>8 DEF SubsFit
<1>11. ShownFits(server, published, u) /\ EventsFit(server, published, u, z)
  BY <1>1, <1>3, <1>6 DEF ShownFits, EventsFit
<1>12. (\A t : Current(u, t) = Current(st, t)) /\ (\A x : Moves(u, x) = Moves(st, x))
  BY <1>6 DEF Current, Moves
<1>13. ReadsFit(published, u)
 <2>1. \A t : ReadFits(published, st, t) => ReadFits(published, u, t)
   BY <1>6, <1>12 DEF ReadFits, Going, Collected, Holds, Waits
 <2>2. \A x : MicroFits(published, st, x) => MicroFits(published, u, x) BY <1>6, <1>12 DEF MicroFits
 <2> QED BY <1>1, <1>6, <2>1, <2>2 DEF ReadsFit
<1>14. MailFits(published, u, z) BY <1>3, <1>6, <1>12 DEF MailFits
<1>15. Fits(server, published, new, u, z) BY <1>3, <1>6, <1>10, <1>11, <1>13, <1>14 DEF Fits
<1>16. Sent(u, z) = z BY <1>3, <1>6, SentNone
<1>17. TaskFits(u) BY <1>6 DEF TaskFits
<1> QED BY <1>3, <1>15, <1>16, <1>17 DEF Good, z

(* The first message under way arrives: a page, a result or news.          *)
LEMMA DeliverKeeps == ASSUME IInv, Deliver PROVE StoreFits'
<1> DEFINE m == down[1]
           q == Tail(down)
<1>1. /\ Fits(server, published, subs, store, down) /\ store.out = <<>> /\ TaskFits(store)
      /\ ServerFits(server, published) /\ down \in Seq(Message)
  BY DEF IInv, StoreFits, Fits
<1>2. down # <<>> /\ server' = server /\ published' = published BY DEF Deliver
<1>3. Head(down) = m BY <1>1, <1>2
<1>4. CASE DeliverPage(m)
 <2>1. m.kind = "page" /\ subs' = subs BY <1>4 DEF DeliverPage
 <2>2. PICK answer \in {m.answer, Failure("fault")} : Client(Resolved(store, m, answer), q)
   BY <1>4 DEF DeliverPage
 <2> DEFINE u == Resolved(store, m, answer)
 <2>3. Good(subs, u, q) /\ TaskFits(u) BY <1>1, <1>2, <2>1, ResolvedGood
 <2>4. Client(u, q) BY <2>2
 <2> HIDE DEF u, q, m
 <2> QED BY <1>2, <2>1, <2>3, <2>4, ClientFits
<1>5. CASE m.kind = "result" /\ Subscribed(m.generation)
 <2>1. CASE m.generation = store.generation
  <3> DEFINE u == [store EXCEPT !.unsubscribe = m.generation]
  <3>1. Client(u, q) /\ subs' = subs BY <1>5, <2>1 DEF Subscribed
  <3>2. Good(subs, u, q) /\ TaskFits(u) BY <1>1, <1>2, <1>5, <2>1, SubscribedGood
  <3> HIDE DEF u, q, m
  <3> QED BY <1>2, <3>1, <3>2, ClientFits
 <2>2. CASE m.generation # store.generation
  <3> DEFINE new == {s \in subs : s.generation # m.generation}
  <3>1. Client(store, q) /\ subs' = new BY <1>5, <2>2 DEF Subscribed
  <3>2. Good(new, store, q) /\ TaskFits(store) BY <1>1, <1>2, <1>5, <2>2, SubscribedGood
  <3> HIDE DEF new, q, m
  <3> QED BY <1>2, <3>1, <3>2, ClientFits
 <2> QED BY <2>1, <2>2
<1>6. CASE m.kind \in {"event", "refused", "invalid"} /\ Client(Handled(store, m), q) /\ subs' = subs
 <2> DEFINE u == Handled(store, m)
 <2>1. Good(subs, u, q) /\ TaskFits(u) BY <1>1, <1>2, <1>6, HandledGood
 <2>2. Client(u, q) BY <1>6
 <2> HIDE DEF u, q, m
 <2> QED BY <1>2, <1>6, <2>1, <2>2, ClientFits
<1>7. \/ DeliverPage(m)
      \/ m.kind = "result" /\ Subscribed(m.generation)
      \/ m.kind \in {"event", "refused", "invalid"} /\ Client(Handled(store, m), q) /\ subs' = subs
  BY <1>3 DEF Deliver
<1> QED BY <1>4, <1>5, <1>6, <1>7

-----------------------------------------------------------------------------
(* The connection drops and comes back *)

(* The requests that a dropped connection rejects.                         *)
Pending(st) ==
  UNION {{[task |-> t.id, page |-> i, answer |-> Failure("lost")] : i \in t.asked} :
           t \in st.reads}

(* They are finitely many, each of a page that a read has asked for.       *)
LEMMA PendingFacts ==
  ASSUME NEW st \in Store, NEW pub, ReadsFit(pub, st)
  PROVE  /\ IsFiniteSet(Pending(st)) /\ Pending(st) \subseteq Settled
         /\ \A x \in Pending(st) : \E t \in st.reads : t.id = x.task /\ x.page \in 1 .. t.next - 1
<1> DEFINE item(t, i) == [task |-> t.id, page |-> i, answer |-> Failure("lost")]
           P(t) == {item(t, i) : i \in t.asked}
           F == {P(t) : t \in st.reads}
<1>1. \A t \in st.reads : t \in Read /\ t.next \in Nat \ {0} /\ t.id \in Nat
                          /\ t.asked \subseteq 1 .. t.next - 1
  BY DEF ReadsFit, ReadFits, Store, Read
<1>2. Failure("lost") \in Answer BY DEF Failure, Answer, Codes
<1>3. ASSUME NEW t \in st.reads PROVE IsFiniteSet(P(t)) /\ P(t) \subseteq Settled
 <2>1. IsFiniteSet(1 .. t.next - 1) BY <1>1, FS_Interval
 <2>2. IsFiniteSet(t.asked) BY <1>1, <2>1, FS_Subset
 <2> DEFINE f == [i \in t.asked |-> item(t, i)]
 <2>3. f \in Surjection(t.asked, P(t)) BY DEF Surjection
 <2>4. IsFiniteSet(P(t)) BY <2>2, <2>3, FS_Surjection
 <2>5. P(t) \subseteq Settled BY <1>1, <1>2 DEF Settled
 <2> QED BY <2>4, <2>5
<1>4. IsFiniteSet(F)
 <2> HIDE DEF P
 <2> DEFINE f == [t \in st.reads |-> P(t)]
 <2>1. f \in Surjection(st.reads, F) BY DEF Surjection
 <2> QED BY <2>1, FS_Surjection DEF ReadsFit
<1>5. Pending(st) = UNION F BY DEF Pending
<1>6. IsFiniteSet(UNION F) /\ UNION F \subseteq Settled
 <2> HIDE DEF P
 <2>1. \A T \in F : IsFiniteSet(T) /\ T \subseteq Settled BY <1>3
 <2> HIDE DEF F
 <2> QED BY <1>4, <2>1, FS_UNION
<1>7. ASSUME NEW x \in UNION F
      PROVE  \E t \in st.reads : t.id = x.task /\ x.page \in 1 .. t.next - 1
 <2>1. PICK t \in st.reads : x \in P(t) BY <1>7
 <2>2. PICK i \in t.asked : x = item(t, i) BY <2>1
 <2>3. x.task = t.id /\ x.page = i BY <2>2
 <2> QED BY <1>1, <2>3
<1> QED BY <1>5, <1>6, <1>7

Severed(st, u, ss, new) ==
  /\ u = IF st.active THEN Disconnected(Lost(st)) ELSE Lost(st)
  /\ new = {[s EXCEPT !.stage = "sent"] : s \in ss}

(* What is left of a store when the connection drops, whatever the server  *)
(* publishes when it comes back: nothing current.                          *)
LEMMA LostFits ==
  ASSUME NEW sv, NEW pub, NEW ss, NEW st, NEW q, Fits(sv, pub, ss, st, q), TaskFits(st),
         NEW u, NEW new, Severed(st, u, ss, new), NEW to, NEW w
  PROVE  Fits(to, w, new, u, <<>>) /\ TaskFits(u) /\ u.out = st.out
<1> DEFINE more == SetToSeq(Pending(st))
           micro == st.micro \o more
           rest(t) == [t EXCEPT !.asked = {}]
           reads == {rest(t) : t \in st.reads}
           a == Lost(st)
<1>1. /\ st \in Store /\ ShownFits(sv, pub, st) /\ SubsFit(ss, st, q) /\ ReadsFit(pub, st)
  BY DEF Fits
<1>2. /\ IsFiniteSet(Pending(st)) /\ Pending(st) \subseteq Settled
      /\ \A x \in Pending(st) : \E t \in st.reads : t.id = x.task /\ x.page \in 1 .. t.next - 1
  BY <1>1, PendingFacts
<1>3. more \in Seq(Pending(st)) BY <1>2, SetToSeqFacts
<1>4. micro \in Seq(Settled) /\ \A i \in DOMAIN micro :
        (i \in DOMAIN st.micro /\ micro[i] = st.micro[i]) \/ micro[i] \in Pending(st)
 <2> HIDE DEF more
 <2>1. more \in Seq(Settled) /\ st.micro \in Seq(Settled) BY <1>1, <1>2, <1>3 DEF Store
 <2>2. micro \in Seq(Settled) BY <2>1
 <2>3. ASSUME NEW i \in DOMAIN micro, i \notin DOMAIN st.micro PROVE micro[i] \in Pending(st)
  <3>1. i - Len(st.micro) \in DOMAIN more /\ micro[i] = more[i - Len(st.micro)] BY <2>1, <2>3
  <3> QED BY <1>3, <3>1
 <2>4. \A i \in DOMAIN st.micro : micro[i] = st.micro[i] BY <2>1
 <2> QED BY <2>2, <2>3, <2>4
<1>5. \A t \in st.reads :
        /\ t \in Read /\ rest(t) \in Read /\ rest(t).id = t.id /\ rest(t).token = t.token
        /\ rest(t).next = t.next /\ rest(t).pages = t.pages /\ rest(t).asked = {}
        /\ rest(t).settled = t.settled
  BY <1>1 DEF Store, Read
<1>6. a = [st EXCEPT !.micro = micro, !.reads = reads] BY DEF Lost, Pending
<1>7. IsFiniteSet(reads) /\ reads \subseteq Read
 <2> HIDE DEF rest
 <2> DEFINE f == [t \in st.reads |-> rest(t)]
 <2>1. f \in Surjection(st.reads, reads) BY DEF Surjection
 <2> QED BY <1>1, <1>5, <2>1, FS_Surjection DEF ReadsFit
<1> HIDE DEF micro, reads, a
<1>8. /\ a \in Store /\ a.micro = micro /\ a.reads = reads
      /\ a.active = st.active /\ a.generation = st.generation /\ a.catalog = st.catalog
      /\ a.unsubscribe = st.unsubscribe /\ a.out = st.out /\ a.status = st.status
      /\ a.baseline = st.baseline /\ a.task = st.task
  BY <1>1, <1>4, <1>6, <1>7 DEF Store
<1>9. st.catalog \in Nat BY <1>1 DEF Store
<1>10. /\ u \in Store /\ u.micro = micro /\ u.reads = reads
       /\ u.active = st.active /\ u.generation = st.generation
       /\ u.catalog \in Nat /\ st.catalog <= u.catalog
       /\ u.unsubscribe = st.unsubscribe /\ u.out = st.out
       /\ u.status # "current" /\ u.baseline = None /\ u.task \in {NoTask, st.task}
 <2>1. CASE st.active
  <3> DEFINE c == a.catalog + 1
             b == [a EXCEPT !.baseline = None, !.catalog = c, !.task = NoTask,
                            !.wanted = FALSE, !.status = "disconnected"]
  <3>1. u = Update(b) BY <2>1 DEF Severed, Disconnected, a
  <3>2. c \in Nat /\ st.catalog <= c BY <1>8, <1>9
  <3> HIDE DEF c
  <3>3. b \in Store BY <1>8, <3>2 DEF Store, Statuses, NoTask
  <3>4. /\ b.micro = micro /\ b.reads = reads
        /\ b.active = st.active /\ b.generation = st.generation /\ b.catalog = c
        /\ b.unsubscribe = st.unsubscribe /\ b.out = st.out
        /\ b.status = "disconnected" /\ b.baseline = None /\ b.task = NoTask
    BY <1>8 DEF Store
  <3> HIDE DEF b
  <3>5. Ensure(b) = b BY <3>4 DEF Ensure
  <3>6. u = b BY <3>1, <3>5 DEF Update, Rendered
  <3> QED BY <3>2, <3>3, <3>4, <3>6
 <2>2. CASE ~st.active
  <3>1. u = a BY <2>2 DEF Severed, a
  <3>2. st.status # "current" /\ st.baseline = None BY <1>1, <2>2 DEF ShownFits
  <3>3. st.catalog <= st.catalog BY <1>9
  <3> QED BY <1>8, <1>9, <3>1, <3>2, <3>3
 <2> QED BY <2>1, <2>2
<1>11. ShownFits(to, w, u) BY <1>10 DEF ShownFits
<1>12. SubsFit(new, u, <<>>)
 <2> DEFINE sent(s) == [s EXCEPT !.stage = "sent"]
 <2>1. \A s \in ss : /\ s \in Subscription /\ sent(s) \in Subscription
                     /\ sent(s).generation = s.generation /\ sent(s).stage = "sent"
   BY <1>1 DEF SubsFit, Subscription
 <2>2. new = {sent(s) : s \in ss} BY DEF Severed
 <2> HIDE DEF sent
 <2>3. IsFiniteSet(new)
  <3> DEFINE f == [s \in ss |-> sent(s)]
  <3>1. f \in Surjection(ss, new) BY <2>2 DEF Surjection
  <3> QED BY <1>1, <3>1, FS_Surjection DEF SubsFit
 <2>4. new \subseteq Subscription /\ \A s \in new : s.stage = "sent" BY <2>1, <2>2
 <2>5. \A s, x \in new : s.generation = x.generation => s = x BY <1>1, <2>1, <2>2 DEF SubsFit
 <2>6. \A s \in new : s.generation <= st.generation /\ (s.generation = st.generation => st.active)
   BY <1>1, <2>1, <2>2 DEF SubsFit
 <2>7. st.unsubscribe # None => st.active /\ st.unsubscribe = st.generation BY <1>1 DEF SubsFit
 <2> QED BY <1>10, <2>3, <2>4, <2>5, <2>6, <2>7 DEF SubsFit
<1>13. EventsFit(to, w, u, <<>>) /\ MailFits(w, u, <<>>) BY <1>10 DEF EventsFit, MailFits
<1>14. ReadsFit(w, u)
 <2>1. ASSUME NEW x \in reads PROVE ReadFits(w, u, x)
  <3>1. PICK t \in st.reads : x = rest(t) BY DEF reads
  <3>2. /\ t \in Read /\ x.token = t.token /\ x.next = t.next /\ x.pages = t.pages /\ x.asked = {}
    BY <1>5, <3>1
  <3>3. t.token \in Nat /\ t.token <= st.catalog /\ t.next <= Len(t.pages) + 1
    BY <1>1, <3>2 DEF ReadsFit, ReadFits, Read
  <3>4. t.token <= u.catalog BY <1>9, <1>10, <3>3
  <3>5. ~Current(u, x) BY <1>10 DEF Current
  <3> QED BY <3>2, <3>3, <3>4, <3>5 DEF ReadFits
 <2>2. ASSUME NEW x \in reads, NEW y \in reads, x.id = y.id PROVE x = y
  <3>1. PICK t \in st.reads : x = rest(t) BY DEF reads
  <3>2. PICK v \in st.reads : y = rest(v) BY DEF reads
  <3>3. t.id = v.id BY <1>5, <2>2, <3>1, <3>2
  <3>4. t = v BY <1>1, <3>3 DEF ReadsFit
  <3> QED BY <3>1, <3>2, <3>4
 <2>3. ASSUME NEW i \in DOMAIN micro PROVE MicroFits(w, u, micro[i])
  <3>1. PICK t \in st.reads : t.id = micro[i].task /\ micro[i].page \in 1 .. t.next - 1
    BY <1>1, <1>2, <1>4 DEF ReadsFit, MicroFits
  <3>2. rest(t) \in u.reads /\ rest(t).id = t.id /\ rest(t).next = t.next BY <1>5, <1>10 DEF reads
  <3>3. ~Current(u, rest(t)) BY <1>10 DEF Current
  <3> QED BY <3>1, <3>2, <3>3 DEF MicroFits
 <2> QED BY <1>7, <1>10, <2>1, <2>2, <2>3 DEF ReadsFit
<1>15. TaskFits(u)
 <2> SUFFICES ASSUME u.task # NoTask PROVE \E t \in u.reads : t.id = u.task /\ ~t.settled
   BY DEF TaskFits
 <2>1. PICK t \in st.reads : t.id = u.task /\ ~t.settled BY <1>10 DEF TaskFits
 <2>2. rest(t) \in u.reads /\ rest(t).id = t.id /\ ~rest(t).settled BY <1>5, <1>10, <2>1 DEF reads
 <2> QED BY <2>1, <2>2
<1>16. <<>> \in Seq(Message) OBVIOUS
<1> QED BY <1>10, <1>11, <1>12, <1>13, <1>14, <1>15, <1>16 DEF Fits

(* The connection drops, and the server perhaps starts again.              *)
LEMMA DisconnectKeeps == ASSUME IInv, NEW restart, Disconnect(restart) PROVE StoreFits'
<1> DEFINE next == IF store.active THEN Disconnected(Lost(store)) ELSE Lost(store)
           u == [next EXCEPT !.out = <<>>]
<1>1. Fits(server, published, subs, store, down) /\ TaskFits(store) /\ store.out = <<>>
  BY DEF IInv, StoreFits
<1>2. Client(next, <<>>) /\ subs' = {[s EXCEPT !.stage = "sent"] : s \in subs} BY DEF Disconnect
<1>3. Fits(server', published', subs', next, <<>>) /\ TaskFits(next) /\ next.out = <<>>
 <2>1. Severed(store, next, subs, subs') BY <1>2 DEF Severed
 <2> HIDE DEF next
 <2> QED BY <1>1, <2>1, LostFits
<1> HIDE DEF next
<1>4. next \in Store BY <1>3 DEF Fits
<1>5. next = u BY <1>3, <1>4 DEF Store
<1>6. store' = next /\ down' = <<>> BY <1>2, <1>3, <1>5 DEF Client
<1> QED BY <1>3, <1>6 DEF StoreFits

(* The announcement that the connection is back.                           *)
LEMMA ReadyKeeps == ASSUME IInv, Ready PROVE StoreFits'
<1> DEFINE b == [store EXCEPT !.status = "loading"]
<1>1. /\ Good(subs, store, down) /\ TaskFits(store) /\ store \in Store
      /\ ServerFits(server, published) /\ Fits(server, published, subs, store, down)
      /\ store.out = <<>> /\ down \in Seq(Message)
  BY AtRest DEF IInv, StoreFits, Fits
<1>2. server' = server /\ published' = published /\ subs' = subs BY DEF Ready
<1>3. CASE store.active /\ store.status = "disconnected"
 <2> DEFINE u == Update(b)
 <2>1. Client(u, down) BY <1>3 DEF Ready
 <2>2. /\ b \in Store /\ b.status = "loading" /\ b.baseline = store.baseline
       /\ b.active = store.active /\ b.generation = store.generation
       /\ b.unsubscribe = store.unsubscribe /\ b.reads = store.reads /\ b.micro = store.micro
       /\ b.catalog = store.catalog /\ b.out = store.out /\ b.task = store.task
   BY <1>1 DEF Store, Statuses
 <2>3. store.baseline = None /\ store.catalog <= store.catalog
   BY <1>1, <1>3 DEF Fits, ShownFits, Store
 <2> HIDE DEF b
 <2>4. Fits(server, published, subs, b, down) BY <1>1, <2>2, <2>3, Lapses
 <2>5. Sent(b, down) = down BY <1>1, <2>2, SentNone
 <2>6. Good(subs, b, down) /\ TaskBut(b, NoTask)
   BY <1>1, <2>2, <2>4, <2>5 DEF Good, TaskFits, TaskBut
 <2>7. Good(subs, u, down) /\ TaskBut(u, NoTask) BY <1>1, <2>6, UpdateGood
 <2> HIDE DEF u
 <2>8. TaskFits(u) BY <2>7 DEF TaskBut, TaskFits
 <2> QED BY <1>2, <2>1, <2>7, <2>8, ClientFits
<1>4. CASE ~ (store.active /\ store.status = "disconnected")
 <2>1. Client(store, down) BY <1>4 DEF Ready
 <2> QED BY <1>1, <1>2, <2>1, ClientFits
<1> QED BY <1>3, <1>4

-----------------------------------------------------------------------------
(* Publications *)

Heard(to) == {Event(s.generation, Summary(to)) : s \in Live}

(* Every live subscription hears of it.                                    *)
LEMMA BroadcastTells ==
  ASSUME NEW to, NEW w, ServerFits(to, w),
         IsFiniteSet(subs), subs \subseteq Subscription
  PROVE  LET more == SetToSeq(Heard(to))
         IN /\ more \in Seq(Message)
            /\ \A k \in DOMAIN more : /\ more[k].kind = "event" /\ more[k].summary = Summary(to)
                                      /\ \E s \in subs : s.stage = "live"
                                                         /\ s.generation = more[k].generation
            /\ \A s \in subs : s.stage = "live" =>
                 \E k \in DOMAIN more : more[k].generation = s.generation
<1> DEFINE event(s) == Event(s.generation, Summary(to))
           events == Heard(to)
           more == SetToSeq(events)
<1>1. IsFiniteSet(Live) /\ \A s : s \in Live <=> s \in subs /\ s.stage = "live"
  BY FS_Subset DEF Live
<1>2. \A s \in Live : /\ event(s).kind = "event" /\ event(s).summary = Summary(to)
                      /\ event(s).generation = s.generation
  BY DEF Event
<1>3. \A s \in Live : event(s) \in Message
 <2>1. Summary(to) \in Summaries BY SummaryIs
 <2>2. \A s \in Live : s.generation \in Nat BY <1>1 DEF Subscription
 <2> QED BY <2>1, <2>2 DEF Event, Message
<1>4. events = {event(s) : s \in Live} BY DEF Heard
<1> HIDE DEF event, events
<1>5. IsFiniteSet(events)
 <2> DEFINE f == [s \in Live |-> event(s)]
 <2>1. f \in Surjection(Live, events) BY <1>4 DEF Surjection
 <2> QED BY <1>1, <2>1, FS_Surjection
<1>6. events \subseteq Message BY <1>3, <1>4
<1>7. more \in Seq(events) /\ \A x \in events : \E i \in DOMAIN more : more[i] = x
  BY <1>5, SetToSeqFacts
<1> HIDE DEF more
<1>8. \A k \in DOMAIN more : \E s \in Live : more[k] = event(s)
 <2> TAKE k \in DOMAIN more
 <2>1. more[k] \in events BY <1>7
 <2> QED BY <1>4, <2>1
<1>9. more \in Seq(Message) BY <1>6, <1>7
<1>10. \A s \in Live : \E k \in DOMAIN more : more[k] = event(s) BY <1>4, <1>7
<1>11. ASSUME NEW k \in DOMAIN more
       PROVE  /\ more[k].kind = "event" /\ more[k].summary = Summary(to)
              /\ \E s \in subs : s.stage = "live" /\ s.generation = more[k].generation
 <2>1. PICK s \in Live : more[k] = event(s) BY <1>8
 <2> QED BY <1>1, <1>2, <2>1
<1>12. ASSUME NEW s \in subs, s.stage = "live"
       PROVE  \E k \in DOMAIN more : more[k].generation = s.generation
 <2>1. s \in Live BY <1>1, <1>12
 <2>2. PICK k \in DOMAIN more : more[k] = event(s) BY <1>10, <2>1
 <2> QED BY <1>2, <2>1, <2>2
<1> QED BY <1>9, <1>11, <1>12 DEF more, events

(* The record of the server goes on with what they hear of it.             *)
LEMMA BroadcastKeeps ==
  ASSUME IInv, NEW to, NEW w, ServerFits(to, w), Extends(server, published, to, w),
         server' = to, published' = w, subs' = subs, store' = store, Broadcast(to)
  PROVE  StoreFits'
<1> DEFINE more == SetToSeq(Heard(to))
<1>1. /\ Fits(server, published, subs, store, down) /\ ServerFits(server, published)
      /\ TaskFits(store) /\ store.out = <<>>
      /\ IsFiniteSet(subs) /\ subs \subseteq Subscription
  BY DEF IInv, StoreFits, Fits, SubsFit
<1>2. down' = down \o more BY DEF Broadcast, Heard
<1>3. /\ more \in Seq(Message)
      /\ \A k \in DOMAIN more : /\ more[k].kind = "event" /\ more[k].summary = Summary(to)
                                /\ \E s \in subs : s.stage = "live"
                                                   /\ s.generation = more[k].generation
      /\ \A s \in subs : s.stage = "live" =>
           \E k \in DOMAIN more : more[k].generation = s.generation
  BY <1>1, BroadcastTells
<1> HIDE DEF more
<1>4. Fits(to, w, subs, store, down \o more) BY <1>1, <1>3, Tidings
<1>5. Fits(server', published', subs', store', down') BY <1>2, <1>4
<1> QED BY <1>1, <1>5 DEF StoreFits, TaskFits

(* The server's own record.                                                *)
LEMMA PublicationFits ==
  ASSUME ServerFits(server, published), NEW content \in Contents, NEW e \in Evidence,
         NEW d, d = Publication(content, e), d.revision <= MaxRevision,
         NEW w, w = [published EXCEPT ![d.revision] = d.content]
  PROVE  ServerFits(d, w) /\ Extends(server, published, d, w)
<1> DEFINE changes == Changes(server.content, content)
           equal == /\ server.indexed /\ Representable(server.content, content)
                    /\ \A s \in Sections : changes[s] = [upsert |-> {}, remove |-> {}]
           small == /\ server.indexed /\ ~equal /\ Representable(server.content, content)
                    /\ ChangedRows(changes) <= PageRows
           delta == IF small THEN [from |-> server.revision, changes |-> changes] ELSE None
           r == IF equal THEN server.revision ELSE server.revision + 1
           c == IF equal THEN server.content ELSE content
<1>1. /\ server \in Server /\ published \in [Revisions -> Contents \cup {None}]
      /\ server.indexed = server.available
      /\ server.available => server.content \in Contents
                             /\ published[server.revision] = server.content
      /\ \A n \in Revisions : n > server.revision => published[n] = None
  BY DEF ServerFits
<1>2. /\ MaxRevision \in Nat /\ Revisions = 0 .. MaxRevision /\ server.revision \in Revisions
      /\ server.revision \in Nat
      /\ None \notin Contents /\ server.content \in [Sections -> Seq(AllRows)]
      /\ content \in [Sections -> Seq(AllRows)] /\ server.indexed \in BOOLEAN
  BY <1>1, CatalogAssumption DEF Revisions, Server
<1>3. d = [server EXCEPT !.available = TRUE, !.indexed = TRUE, !.evidence = e,
                         !.content = c, !.revision = r, !.delta = delta]
  BY <1>1 DEF Publication, Server
<1>4. changes \in [Sections -> Difference] BY <1>2, ChangesType
<1>5. small => server.indexed /\ Representable(server.content, content) /\ ~equal OBVIOUS
<1>6. equal => server.indexed OBVIOUS
<1> HIDE DEF equal, small, changes
<1>7. /\ d.available = TRUE /\ d.indexed = TRUE /\ d.evidence = e /\ d.content = c
      /\ d.revision = r /\ d.delta = delta
  BY <1>1, <1>3 DEF Server
<1>8. r \in Revisions /\ server.revision <= r /\ r \in Nat BY <1>2, <1>7
<1>9. c \in Contents /\ c \in [Sections -> Seq(AllRows)] BY <1>1, <1>2, <1>6
<1>10. delta \in Delta \cup {None} BY <1>2, <1>4 DEF Delta
<1> HIDE DEF c, r, delta
<1>11. d \in Server BY <1>1, <1>2, <1>3, <1>8, <1>9, <1>10 DEF Server
<1>12. w = [published EXCEPT ![r] = c] BY <1>7
<1>13. w \in [Revisions -> Contents \cup {None}] /\ w[r] = c
       /\ \A n \in Revisions : n # r => w[n] = published[n]
  BY <1>1, <1>8, <1>9, <1>12
<1>14. published[r] \in Contents => w[r] = published[r]
 <2>1. CASE equal BY <1>1, <1>6, <1>13, <2>1 DEF c, r
 <2>2. CASE ~equal
  <3>1. r > server.revision BY <1>2, <2>2 DEF r
  <3> QED BY <1>1, <1>2, <1>8, <3>1
 <2> QED BY <2>1, <2>2
<1>15. Extends(server, published, d, w) BY <1>7, <1>8, <1>13, <1>14 DEF Extends
<1>16. \A n \in Revisions : n > d.revision => w[n] = None
 <2> TAKE n \in Revisions
 <2> HAVE n > d.revision
 <2>1. n # r /\ n > server.revision BY <1>2, <1>7, <1>8
 <2> QED BY <1>1, <1>13, <2>1
<1>17. d.delta # None => DeltaFits(w, d.delta, d.revision)
 <2> SUFFICES ASSUME d.delta # None PROVE DeltaFits(w, d.delta, d.revision) OBVIOUS
 <2>1. small /\ d.delta = [from |-> server.revision, changes |-> changes] BY <1>7 DEF delta
 <2>2. ~equal /\ server.indexed /\ Representable(server.content, content) BY <1>5, <2>1
 <2>3. r = server.revision + 1 /\ c = content BY <2>2 DEF r, c
 <2>4. server.revision # r BY <1>2, <2>3
 <2>5. w[server.revision] = server.content /\ server.content \in Contents
   BY <1>1, <1>2, <1>13, <2>2, <2>4
 <2>6. w[d.revision] = content BY <1>7, <1>13, <2>3
 <2>7. d.delta.from = server.revision /\ d.delta.changes = Changes(server.content, content)
   BY <2>1 DEF changes
 <2> QED BY <1>2, <2>2, <2>5, <2>6, <2>7 DEF DeltaFits
<1> QED BY <1>7, <1>9, <1>11, <1>13, <1>15, <1>16, <1>17 DEF ServerFits

(* Discovery publishes a catalog and its evidence.                         *)
LEMMA PublishKeeps ==
  ASSUME IInv, NEW content \in Contents, NEW e \in Evidence, Publish(content, e)
  PROVE  StoreFits' /\ ServerFits(server, published)'
<1> DEFINE d == Publication(content, e)
           w == [published EXCEPT ![d.revision] = d.content]
<1>1. /\ server' = d /\ published' = w /\ subs' = subs /\ store' = store /\ Broadcast(d)
      /\ d.revision <= MaxRevision
  BY DEF Publish
<1>2. ServerFits(server, published) BY DEF IInv
<1>3. ServerFits(d, w) /\ Extends(server, published, d, w) BY <1>1, <1>2, PublicationFits
<1> HIDE DEF d, w
<1>4. StoreFits' BY <1>1, <1>3, BroadcastKeeps
<1> QED BY <1>1, <1>3, <1>4

(* Monitoring stops.                                                       *)
LEMMA PublishUnavailableKeeps ==
  ASSUME IInv, PublishUnavailable
  PROVE  StoreFits' /\ ServerFits(server, published)'
<1> DEFINE d == Unavailability
<1>1. /\ server' = d /\ published' = published /\ subs' = subs /\ store' = store /\ Broadcast(d)
  BY DEF PublishUnavailable
<1>2. ServerFits(server, published) /\ server \in Server BY DEF IInv, ServerFits
<1>3. [s \in Sections |-> <<>>] \in [Sections -> Seq(AllRows)] OBVIOUS
<1>4. d \in Server /\ d.available = FALSE /\ d.indexed = FALSE /\ d.delta = None
      /\ d.revision = server.revision
  BY <1>2, <1>3 DEF Unavailability, Server
<1> HIDE DEF d
<1>5. ServerFits(d, published) BY <1>2, <1>4 DEF ServerFits
<1>6. server.revision <= d.revision BY <1>2, <1>4, CatalogAssumption DEF Server
<1>7. Extends(server, published, d, published) BY <1>6 DEF Extends
<1>8. StoreFits' BY <1>1, <1>5, <1>7, BroadcastKeeps
<1> QED BY <1>1, <1>5, <1>8

-----------------------------------------------------------------------------
(* The invariant *)

(* A panel that opens on a running installation.                           *)
LEMMA InitFits == Init => IInv
<1> SUFFICES ASSUME Init PROVE IInv OBVIOUS
<1>1. /\ MaxRevision \in Nat \ {0} /\ Opening \in Contents /\ None \notin Contents /\ None \notin Nat
      /\ Contents \subseteq [Sections -> Seq(AllRows)]
      /\ (CHOOSE e \in Evidence : TRUE) \in Evidence
  BY CatalogAssumption
<1>2. CardsFit(cards) BY DEF Init, CardsFit
<1>3. /\ server.available = TRUE /\ server.revision = 1 /\ server.content = Opening
      /\ server.indexed = TRUE /\ server.delta = None /\ server \in Server
 <2> DEFINE e == CHOOSE e \in Evidence : TRUE
 <2>1. server = [available |-> TRUE, revision |-> 1, content |-> Opening, indexed |-> TRUE,
                 delta |-> None, evidence |-> e]
   BY DEF Init, Unpublished
 <2>2. e \in Evidence BY <1>1
 <2> HIDE DEF e
 <2>3. Opening \in [Sections -> Seq(AllRows)] /\ 1 \in 0 .. MaxRevision BY <1>1
 <2> QED BY <2>1, <2>2, <2>3 DEF Server
<1>4. ServerFits(server, published)
 <2>1. published = [r \in 0 .. MaxRevision |-> IF r = 1 THEN Opening ELSE None] BY DEF Init
 <2>2. published \in [Revisions -> Contents \cup {None}] BY <1>1, <2>1 DEF Revisions
 <2>3. published[1] = Opening BY <1>1, <2>1
 <2>4. \A r \in Revisions : r > 1 => published[r] = None BY <1>1, <2>1 DEF Revisions
 <2> QED BY <1>1, <1>3, <2>2, <2>3, <2>4 DEF ServerFits
<1>5. /\ store \in Store /\ store.status = "loading" /\ store.baseline = None /\ store.task = NoTask
      /\ store.reads = {} /\ store.micro = <<>> /\ store.out = <<>> /\ store.unsubscribe = None
 <2>1. store = [active |-> FALSE, generation |-> 0, catalog |-> 0, status |-> "loading",
                data |-> None, baseline |-> None, error |-> None, wanted |-> FALSE,
                task |-> NoTask, reads |-> {}, unsubscribe |-> None, micro |-> <<>>,
                out |-> <<>>]
   BY DEF Init
 <2>2. <<>> \in Seq(Settled) /\ <<>> \in Seq(Asked) OBVIOUS
 <2> QED BY <2>1, <2>2 DEF Store, Statuses, NoTask
<1>6. subs = {} /\ down = <<>> BY DEF Init
<1>7. SubsFit({}, store, <<>>)
 <2>1. IsFiniteSet({}) BY FS_EmptySet
 <2> QED BY <1>5, <2>1 DEF SubsFit
<1>8. ReadsFit(published, store)
 <2>1. IsFiniteSet({}) BY FS_EmptySet
 <2> QED BY <1>5, <2>1 DEF ReadsFit
<1>9. /\ ShownFits(server, published, store) /\ EventsFit(server, published, store, <<>>)
      /\ MailFits(published, store, <<>>) /\ <<>> \in Seq(Message)
  BY <1>5 DEF ShownFits, EventsFit, MailFits
<1>10. StoreFits BY <1>5, <1>6, <1>7, <1>8, <1>9 DEF StoreFits, Fits, TaskFits
<1> QED BY <1>2, <1>4, <1>10 DEF IInv

(* A server that starts again has published nothing yet.                   *)
LEMMA RestartFits == ServerFits(Unpublished, [r \in 0 .. MaxRevision |-> None])
<1> DEFINE e == CHOOSE e \in Evidence : TRUE
           rows == [s \in Sections |-> <<>>]
           pub == [r \in 0 .. MaxRevision |-> None]
<1>1. e \in Evidence /\ rows \in [Sections -> Seq(AllRows)] /\ 0 \in 0 .. MaxRevision
  BY CatalogAssumption
<1>2. Unpublished = [available |-> FALSE, revision |-> 0, content |-> rows,
                     indexed |-> FALSE, delta |-> None, evidence |-> e]
  BY DEF Unpublished
<1> HIDE DEF e, rows
<1>3. Unpublished \in Server BY <1>1, <1>2 DEF Server
<1>4. pub \in [Revisions -> Contents \cup {None}] /\ \A r \in Revisions : pub[r] = None
  BY DEF Revisions
<1> QED BY <1>2, <1>3, <1>4 DEF ServerFits

(* What every step keeps of the server and of the cards.                   *)
LEMMA ServerKeeps ==
  ASSUME IInv, [Next]_vars
  PROVE  ServerFits(server, published)'
<1>1. ServerFits(server, published) BY DEF IInv
<1>2. ASSUME server' = server, published' = published PROVE ServerFits(server, published)'
  BY <1>1, <1>2
<1>3. ASSUME NEW content \in Contents, NEW e \in Evidence, Publish(content, e)
      PROVE  ServerFits(server, published)'
  BY <1>3, PublishKeeps
<1>4. CASE PublishUnavailable BY <1>4, PublishUnavailableKeeps
<1>5. ASSUME NEW restart, Disconnect(restart) PROVE ServerFits(server, published)'
 <2>1. CASE restart
  <3>1. server' = Unpublished /\ published' = [r \in 0 .. MaxRevision |-> None]
    BY <1>5, <2>1 DEF Disconnect
  <3>2. ServerFits(server', published') BY <3>1, RestartFits
  <3> QED BY <3>2
 <2>2. CASE ~restart
  <3>1. server' = server /\ published' = published BY <1>5, <2>2 DEF Disconnect
  <3> QED BY <1>2, <3>1
 <2> QED BY <2>1, <2>2
<1>6. ASSUME \/ \E c \in Cards : View(c) \/ Unlisten(c) \/ \E viewing \in BOOLEAN : Listen(c, viewing)
             \/ StopCheck \/ Retry \/ RetryCatalog \/ Continue
             \/ \E t \in store.reads : Install(t)
             \/ \E s \in subs : Accept(s) \/ Refuse(s) \/ SendInvalid(s)
             \/ Deliver \/ Reconnect \/ Ready \/ UNCHANGED vars
      PROVE  ServerFits(server, published)'
 <2>1. server' = server /\ published' = published
   BY <1>6 DEF View, Unlisten, Listen, StopCheck, Retry, RetryCatalog, Continue, Install,
               Accept, Refuse, SendInvalid, Deliver, Reconnect, Ready, vars
 <2> QED BY <1>2, <2>1
<1> QED BY <1>3, <1>4, <1>5, <1>6 DEF Next

(* A card that needs the catalog listens.                                  *)
LEMMA CardsKeep ==
  ASSUME IInv, [Next]_vars
  PROVE  CardsFit(cards)'
<1>1. CardsFit(cards) BY DEF IInv
<1>2. ASSUME cards' = cards PROVE CardsFit(cards)' BY <1>1, <1>2
<1>3. ASSUME NEW c \in Cards, NEW viewing \in BOOLEAN, Listen(c, viewing) PROVE CardsFit(cards)'
  BY <1>1, <1>3 DEF Listen, CardsFit
<1>4. ASSUME NEW c \in Cards, View(c) PROVE CardsFit(cards)' BY <1>1, <1>4 DEF View, CardsFit
<1>5. ASSUME NEW c \in Cards, Unlisten(c) PROVE CardsFit(cards)'
  BY <1>1, <1>5 DEF Unlisten, CardsFit
<1>6. CASE StopCheck BY <1>1, <1>6 DEF StopCheck, CardsFit
<1>7. ASSUME \/ \E content \in Contents, e \in Evidence : Publish(content, e)
             \/ PublishUnavailable \/ Retry \/ RetryCatalog \/ Continue
             \/ \E t \in store.reads : Install(t)
             \/ \E s \in subs : Accept(s) \/ Refuse(s) \/ SendInvalid(s)
             \/ Deliver \/ (\E restart \in BOOLEAN : Disconnect(restart))
             \/ Reconnect \/ Ready \/ UNCHANGED vars
      PROVE  CardsFit(cards)'
 <2>1. cards' = cards
   BY <1>7 DEF Publish, PublishUnavailable, Retry, RetryCatalog, Continue, Install,
               Accept, Refuse, SendInvalid, Deliver, Disconnect, Reconnect, Ready, vars
 <2> QED BY <1>2, <2>1
<1> QED BY <1>3, <1>4, <1>5, <1>6, <1>7 DEF Next

(* Every step leaves the store, its reads and what is under way fitting.   *)
LEMMA StoreKeeps ==
  ASSUME IInv, [Next]_vars
  PROVE  StoreFits'
<1>1. ASSUME server' = server, published' = published, subs' = subs, store' = store, down' = down
      PROVE  StoreFits'
  BY <1>1 DEF IInv, StoreFits, TaskFits
<1>2. ASSUME NEW c \in Cards, Unlisten(c) PROVE StoreFits' BY <1>1, <1>2 DEF Unlisten
<1>3. CASE Reconnect BY <1>1, <1>3 DEF Reconnect
<1>4. CASE UNCHANGED vars BY <1>1, <1>4 DEF vars
<1>5. ASSUME NEW content \in Contents, NEW e \in Evidence, Publish(content, e) PROVE StoreFits'
  BY <1>5, PublishKeeps
<1>6. CASE PublishUnavailable BY <1>6, PublishUnavailableKeeps
<1>7. ASSUME NEW c \in Cards, View(c) PROVE StoreFits' BY <1>7, ViewKeeps
<1>8. ASSUME NEW c \in Cards, NEW viewing \in BOOLEAN, Listen(c, viewing) PROVE StoreFits'
  BY <1>8, ListenKeeps
<1>9. CASE StopCheck BY <1>9, StopCheckKeeps
<1>10. CASE Retry BY <1>10, RetryKeeps
<1>11. CASE RetryCatalog BY <1>11, RetryCatalogKeeps
<1>12. CASE Continue BY <1>12, ContinueKeeps
<1>13. ASSUME NEW t \in store.reads, Install(t) PROVE StoreFits' BY <1>13, InstallKeeps
<1>14. ASSUME NEW s \in subs, Accept(s) PROVE StoreFits' BY <1>14, AcceptKeeps
<1>15. ASSUME NEW s \in subs, Refuse(s) PROVE StoreFits' BY <1>15, RefuseKeeps
<1>16. ASSUME NEW s \in subs, SendInvalid(s) PROVE StoreFits' BY <1>16, SendInvalidKeeps
<1>17. CASE Deliver BY <1>17, DeliverKeeps
<1>18. ASSUME NEW restart \in BOOLEAN, Disconnect(restart) PROVE StoreFits'
  BY <1>18, DisconnectKeeps
<1>19. CASE Ready BY <1>19, ReadyKeeps
<1> QED BY <1>2, <1>3, <1>4, <1>5, <1>6, <1>7, <1>8, <1>9, <1>10, <1>11, <1>12, <1>13, <1>14, <1>15,
     <1>16, <1>17, <1>18, <1>19 DEF Next

(* The store, what is under way to it and the server fit in every          *)
(* reachable state, whatever is published, lost, refused or asked again.   *)
THEOREM StoreInvariant == Spec => []IInv
<1>1. IInv /\ [Next]_vars => IInv' BY ServerKeeps, CardsKeep, StoreKeeps DEF IInv
<1> QED BY InitFits, <1>1, PTL DEF Spec

-----------------------------------------------------------------------------
(* What follows *)

(* The invariant contains what the cards rely on.                          *)
LEMMA InvariantIsSound == IInv => CatalogSound
<1> SUFFICES ASSUME IInv PROVE CatalogSound OBVIOUS
<1>1. /\ CardsFit(cards) /\ ServerFits(server, published)
      /\ store \in Store /\ ShownFits(server, published, store)
      /\ SubsFit(subs, store, down) /\ TaskFits(store)
  BY DEF IInv, StoreFits, Fits
<1>2. TypeOK
  BY <1>1 DEF TypeOK, CardsFit, ServerFits, Server, Store, Statuses, SubsFit, Subscription, TaskFits
<1>3. store.baseline # None => ViewFits(server, published, store.baseline) BY <1>1 DEF ShownFits
<1>4. CatalogCoherent BY <1>3, CatalogAssumption DEF CatalogCoherent, ViewFits, Whole
<1>5. CompleteWhileStale BY <1>3 DEF CompleteWhileStale, ViewFits, Older
<1>6. ShownIsBaseline
 <2>1. store.status = "current" => store.baseline \in Views /\ store.data = store.baseline
   BY <1>1 DEF ShownFits, ViewFits
 <2> QED BY <2>1, ViewIs DEF ShownIsBaseline
<1>7. NoStraySubscription
 <2> SUFFICES ASSUME NEW s \in Live
              PROVE  \/ store.active /\ s.generation = store.generation
                     \/ \E i \in DOMAIN down :
                          down[i].kind = "result" /\ down[i].generation = s.generation
   BY DEF NoStraySubscription
 <2>1. s \in subs /\ s.stage = "live" BY DEF Live
 <2> QED BY <1>1, <2>1 DEF SubsFit
<1> QED BY <1>2, <1>4, <1>5, <1>6, <1>7 DEF CatalogSound

(* What the panel shows as complete and current is one publication of the  *)
(* server, a stale view is still a whole one, the cards show the baseline  *)
(* events are merged into, and no subscription streams to nobody, for any  *)
(* catalogs, page size, number of workers, cards and bounds.               *)
THEOREM CatalogIsSound == Spec => []CatalogSound
  BY StoreInvariant, InvariantIsSound, PTL

(* A read that a newer revision, a stop or a dropped connection made       *)
(* obsolete never shows as an error, whatever its requests come back with. *)
THEOREM FaultsAlone == Spec => []OnlyFaultsReported
<1>1. IInv => OnlyFaultsReported BY DEF IInv, StoreFits, Fits, Store, OnlyFaultsReported
<1> QED BY StoreInvariant, <1>1, PTL
=============================================================================
