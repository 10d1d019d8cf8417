--------------------------- MODULE DashboardStore ---------------------------
(***************************************************************************)
(* The panel's copy of the monitoring state: frontend/model.mjs, class     *)
(* DashboardStore, with the publication in dashboard.py that feeds it.     *)
(* One connection carries a stream of evidence events in order; the source *)
(* catalog is read beside it in pages, several requests at a time, while   *)
(* revisions change, monitoring stops, cards come and go, the connection   *)
(* drops and Home Assistant restarts.                                      *)
(***************************************************************************)
EXTENDS Integers, FiniteSets, Sequences, SequencesExt

CONSTANTS
  Cards,        \* the cards that may share the store
  Sections,     \* the pageable sections of the catalog
  History,      \* the section that only grows (enrollment_changes)
  Contents,     \* the catalogs discovery may produce: section -> sequence of rows
  Opening,      \* the catalog published when the panel opens
  Evidence,     \* the current monitoring evidence, apart from the catalog
  ContextIds,   \* the ids of the rows each evidence needs beside it
  PageRows,     \* rows of a page, and the largest change sent as a delta
  Workers,      \* page requests of one read at a time (4 in the code)
  None,
  MaxRevision, MaxQueue,        \* bounds of the instance: revisions, messages under way,
  MaxPublications, MaxFaults, MaxTurns, MaxSpent  \* and the budgets, singly and in all

VARIABLES
  server,       \* Dashboard: available, revision, content, indexed, delta, evidence
  published,    \* the content of every revision of this server, for the properties
  link,         \* the connection: up, ready (event still to fire)
  subs,         \* subscriptions of the connection: generation and stage
  down,         \* messages under way to the panel, in order
  cards,        \* listening, viewing (a page that needs the catalog), check
  store,        \* the DashboardStore with its catalog reads and microtasks
  spent         \* publications, faults and turns of cards so far

vars == <<server, published, link, subs, down, cards, store, spent>>

Spend(kind, limit) ==
  /\ spent[kind] < limit
  /\ spent.publications + spent.faults + spent.turns < MaxSpent
  /\ spent' = [spent EXCEPT ![kind] = @ + 1]

Publishing == Spend("publications", MaxPublications)
Faulty == Spend("faults", MaxFaults)
Turn == Spend("turns", MaxTurns)

-----------------------------------------------------------------------------
(* Rows, deltas and pages *)

RowsOf(rows) == {rows[i] : i \in DOMAIN rows}

IdsOf(rows) == {r.id : r \in rows}

AllRows == UNION {RowsOf(c[s]) : c \in Contents, s \in Sections}

(* What the store holds of an available dashboard. *)
Views ==
  [available: {TRUE}, loaded: BOOLEAN, stale: BOOLEAN, revision: Nat,
   rows: [Sections -> SUBSET AllRows], totals: [Sections -> Nat], evidence: Evidence]

(* A catalog has a row of each id at most once in a section (_SECTION_KEYS *)
(* and the appended records of the history), requests have at least one    *)
(* worker and a row.                                                       *)
ASSUME CatalogAssumption ==
  /\ IsFiniteSet(Sections) /\ History \in Sections
  /\ Opening \in Contents /\ Evidence # {}
  /\ Contents \subseteq [Sections -> Seq(AllRows)]
  /\ \A c \in Contents, s \in Sections :
       \A i, j \in DOMAIN c[s] : c[s][i].id = c[s][j].id => i = j
  /\ PageRows \in Nat \ {0} /\ Workers \in Nat \ {0}
  /\ MaxRevision \in Nat \ {0}
  /\ None \notin Contents \cup Nat \cup Views

(* catalog_changes: by identity, and by appended records for the history. *)
Change(section, before, now) ==
  [upsert |-> RowsOf(now) \ RowsOf(before),
   remove |-> IF section = History THEN {}
              ELSE IdsOf(RowsOf(before)) \ IdsOf(RowsOf(now))]

Changes(before, now) == [s \in Sections |-> Change(s, before[s], now[s])]

(* No one-step representation when the history was not extended in place. *)
Representable(before, now) == IsPrefix(before[History], now[History])

ChangedRows(changes) ==
  FoldSet(LAMBDA s, n : n + Cardinality(changes[s].upsert) + Cardinality(changes[s].remove),
          0, Sections)

PatchRows(rows, change) ==
  {r \in rows : r.id \notin change.remove \cup IdsOf(change.upsert)} \cup change.upsert

Overlay(saved, current) ==
  {r \in saved : r.id \notin IdsOf(current)} \cup current

(* One page of the sections now published, as websocket_catalog cuts it. *)
PageItems(page, rows) ==
  RowsOf(SubSeq(rows, page.offset + 1,
                IF page.offset + PageRows < Len(rows) THEN page.offset + PageRows
                ELSE Len(rows)))

(* The pages a read asks for, from the section lengths it starts with. *)
PagesOf(totals) ==
  SetToSeq(UNION {{[section |-> s, offset |-> i * PageRows] :
                     i \in {j \in 0..totals[s] : j * PageRows < totals[s]}} :
                  s \in Sections})

-----------------------------------------------------------------------------
(* The server's publication *)

Unpublished ==
  [available |-> FALSE, revision |-> 0, content |-> [s \in Sections |-> <<>>],
   indexed |-> FALSE, delta |-> None, evidence |-> CHOOSE e \in Evidence : TRUE]

ContextRows(content, evidence) ==
  [s \in Sections |-> IF s = History THEN {}
                      ELSE {r \in RowsOf(content[s]) : r.id \in ContextIds[evidence]}]

(* panel_summary: what subscribe sends, first and on every publication. *)
Summary(d) ==
  [available |-> d.available, revision |-> d.revision, delta |-> d.delta,
   totals |-> [s \in Sections |-> Len(d.content[s])],
   evidence |-> d.evidence, context |-> ContextRows(d.content, d.evidence)]

(* Dashboard.publish over an available runtime with this static inventory. *)
Publication(content, evidence) ==
  LET changes == Changes(server.content, content)
      equal == /\ server.indexed /\ Representable(server.content, content)
               /\ \A s \in Sections : changes[s] = [upsert |-> {}, remove |-> {}]
      small == /\ server.indexed /\ ~equal /\ Representable(server.content, content)
               /\ ChangedRows(changes) <= PageRows
  IN [server EXCEPT
        !.available = TRUE, !.indexed = TRUE, !.evidence = evidence,
        !.content = IF equal THEN @ ELSE content,
        !.revision = IF equal THEN @ ELSE @ + 1,
        !.delta = IF small THEN [from |-> server.revision, changes |-> changes]
                  ELSE None]

(* Dashboard.publish with no available runtime: starting, stopped, failed. *)
Unavailability ==
  [server EXCEPT !.available = FALSE, !.indexed = FALSE, !.delta = None,
                 !.content = [s \in Sections |-> <<>>]]

Live == {s \in subs : s.stage = "live"}

Event(generation, summary) ==
  [kind |-> "event", generation |-> generation, summary |-> summary]

Broadcast(d) ==
  down' = down \o SetToSeq({Event(s.generation, Summary(d)) : s \in Live})

Publish(content, evidence) ==
  LET d == Publication(content, evidence) IN
  /\ Len(down) < MaxQueue
  /\ d.revision <= MaxRevision
  /\ server # d
  /\ Publishing
  /\ server' = d
  /\ published' = [published EXCEPT ![d.revision] = d.content]
  /\ Broadcast(d)
  /\ UNCHANGED <<link, subs, cards, store>>

PublishUnavailable ==
  /\ Len(down) < MaxQueue
  /\ server.available /\ server.revision < MaxRevision
  /\ Publishing
  /\ server' = Unavailability
  /\ Broadcast(Unavailability)
  /\ UNCHANGED <<published, link, subs, cards, store>>

-----------------------------------------------------------------------------
(* The store: one record, and operators from record to record *)

NoTask == 0

FreshTask(st) ==
  CHOOSE n \in 1..Cardinality(st.reads) + 1 : n \notin {t.id : t \in st.reads}

(* A catalog is known to be missing or out of date. *)
Lacking(data) == data # None /\ data.available /\ (~data.loaded \/ data.stale)

(* A read of the baseline's revision.  Its first requests, one per worker, *)
(* are on their way: the code sends them in the next microtask.            *)
NewRead(st) ==
  LET pages == PagesOf(st.baseline.totals)
      first == IF Len(pages) < Workers THEN Len(pages) ELSE Workers
  IN [id |-> FreshTask(st), token |-> st.catalog, revision |-> st.baseline.revision,
      pages |-> pages, next |-> first + 1, asked |-> 1..first, settled |-> FALSE,
      got |-> [s \in Sections |-> {}]]

Requests(t) == [i \in 1..Cardinality(t.asked) |-> [task |-> t, page |-> i]]

(* ensureCatalog without an explicit retry. *)
Ensure(st) ==
  IF st.task # NoTask THEN [st EXCEPT !.wanted = TRUE]
  ELSE IF st.status = "current" /\ Lacking(st.baseline) /\ st.error = None
       THEN [st EXCEPT !.wanted = TRUE, !.task = FreshTask(st),
                       !.reads = @ \cup {NewRead(st)}, !.out = @ \o Requests(NewRead(st))]
       ELSE st

(* A page that needs the catalog asks for what is lacking as it renders    *)
(* the current view, or the last one while the connection returns.         *)
Rendered(st) ==
  IF Lacking(st.data) /\ st.status \in {"current", "loading", "disconnected"}
  THEN Ensure(st) ELSE st

(* update: every listening card hears of it and renders. *)
Update(st) == IF cards.viewing # {} THEN Rendered(st) ELSE st

(* start and stop, without the subscription they open or close. *)
Started(st) ==
  [st EXCEPT !.active = TRUE, !.generation = @ + 1, !.status = "loading"]

Stopped(st) ==
  [st EXCEPT !.active = FALSE, !.baseline = None, !.catalog = @ + 1,
             !.wanted = FALSE, !.task = NoTask, !.generation = @ + 1,
             !.unsubscribe = None, !.status = "loading", !.error = None,
             !.data = IF @ # None /\ @.available THEN @ ELSE None]

-----------------------------------------------------------------------------
(* Merging an event into the baseline (mergeDashboard, applyCatalogDelta) *)

Entry(p, loaded, stale, rows) ==
  [available |-> TRUE, loaded |-> loaded, stale |-> stale, revision |-> p.revision,
   rows |-> rows, totals |-> p.totals, evidence |-> p.evidence]

Patched(previous, p) ==
  [s \in Sections |-> PatchRows(previous.rows[s], p.delta.changes[s])]

\* Mutant: a delta is laid over whatever is shown.
DeltaTrusted(previous, p) == p.delta # None /\ p.revision # previous.revision

DeltaApplies(previous, p) ==
  /\ p.delta # None /\ ~previous.stale
  /\ p.delta.from = previous.revision /\ p.revision # previous.revision
  /\ \A s \in Sections : Cardinality(Patched(previous, p)[s]) = p.totals[s]

\* Mutant: an event of the revision already shown is taken as no news.
MergedByRevision(previous, p) ==
  IF previous = None \/ ~previous.loaded THEN Entry(p, FALSE, FALSE, p.context)
  ELSE IF previous.revision = p.revision THEN previous
  ELSE Entry(p, TRUE, TRUE,
             [s \in Sections |-> Overlay(previous.rows[s], p.context[s])])

Merged(previous, p) ==
  IF previous = None \/ ~previous.loaded THEN Entry(p, FALSE, FALSE, p.context)
  ELSE IF DeltaApplies(previous, p) THEN Entry(p, TRUE, FALSE, Patched(previous, p))
  ELSE IF previous.stale \/ previous.revision # p.revision
  THEN Entry(p, TRUE, TRUE,
             [s \in Sections |-> Overlay(previous.rows[s], p.context[s])])
  ELSE Entry(p, TRUE, FALSE, previous.rows)

Unavailable == [available |-> FALSE]

(* The subscription's callback. *)
Received(st, p) ==
  LET moved == ~p.available \/ st.baseline = None \/ st.baseline.revision # p.revision
      cleared == IF moved THEN [st EXCEPT !.catalog = @ + 1, !.error = None] ELSE st
      data == IF p.available THEN Merged(cleared.baseline, p) ELSE Unavailable
  IN Update([cleared EXCEPT
               !.data = data,
               !.baseline = IF p.available THEN data ELSE None,
               !.status = IF p.available THEN "current" ELSE "unavailable"])

(* After an update of the integration under an open panel: a summary of    *)
(* another version leaves the old view beside the error, an incomplete one *)
(* clears it.                                                              *)
Rejected(st, version) ==
  Update(IF version THEN [st EXCEPT !.baseline = None, !.status = "error"]
         ELSE [st EXCEPT !.catalog = @ + 1, !.error = None, !.baseline = None,
                         !.status = "error", !.data = None])

-----------------------------------------------------------------------------
(* A panel opens on a running installation. *)
Init ==
  /\ server = [Unpublished EXCEPT !.available = TRUE, !.indexed = TRUE,
                                  !.revision = 1, !.content = Opening]
  /\ published = [r \in 0..MaxRevision |-> IF r = 1 THEN Opening ELSE None]
  /\ link = [up |-> TRUE, ready |-> FALSE]
  /\ subs = {}
  /\ down = <<>>
  /\ cards = [listening |-> {}, viewing |-> {}, check |-> FALSE]
  /\ store = [active |-> FALSE, generation |-> 0, catalog |-> 0, status |-> "loading",
              data |-> None, baseline |-> None, error |-> None, wanted |-> FALSE,
              task |-> NoTask, reads |-> {}, unsubscribe |-> None, micro |-> <<>>, out |-> <<>>]
  /\ spent = [publications |-> 0, faults |-> 0, turns |-> 0]

-----------------------------------------------------------------------------
(* Requests and replies.  A request is answered from the publication at    *)
(* the moment it is made: the server cannot tell when within the flight    *)
(* of a request it published, and the panel sees the same messages in the  *)
(* same order if all the delay is on the way down.                         *)

Page(revision, items) == [ok |-> TRUE, revision |-> revision, items |-> items]
Failure(code) == [ok |-> FALSE, code |-> code]

(* websocket_catalog: a page of exactly the revision now published. *)
CatalogReply(request) ==
  LET page == request.task.pages[request.page]
  IN IF ~server.available THEN Failure("not_ready")
     ELSE IF server.revision # request.task.revision THEN Failure("stale_catalog")
     ELSE Page(server.revision, PageItems(page, server.content[page.section]))

Reply(request) ==
  [kind |-> "page", task |-> request.task.id, page |-> request.page,
   answer |-> CatalogReply(request)]

(* The browser's step: the store becomes [st], its requests leave. *)
Client(next, queue) ==
  \E st \in {next} :
    /\ store' = [st EXCEPT !.out = <<>>]
    /\ down' = queue \o [i \in DOMAIN st.out |-> Reply(st.out[i])]

(* Microtasks run before anything else of the browser but the rest of the  *)
(* frame that queued them.                                                 *)
Ended(st, t) ==
  /\ ~t.settled /\ t.asked = {}
  /\ \A i \in DOMAIN st.micro : st.micro[i].task # t.id

Calm == store.micro = <<>> /\ ~\E t \in store.reads : Ended(store, t)

Idle == Calm /\ ~cards.check

-----------------------------------------------------------------------------
(* Cards *)

Opened(st) == [generation |-> st.generation, stage |-> "sent"]

Closed == {s \in subs : s.generation # store.unsubscribe}

(* A card appears, perhaps already on a page that needs the catalog. *)
Listen(c, viewing) ==
  /\ Turn /\ Calm /\ c \notin cards.listening
  /\ cards' = [cards EXCEPT !.listening = @ \cup {c},
                            !.viewing = IF viewing THEN @ \cup {c} ELSE @]
  /\ LET shown == IF viewing THEN Rendered(store) ELSE store IN
     IF store.active THEN Client(shown, down) /\ UNCHANGED subs
     ELSE Client(Started(shown), down) /\ subs' = subs \cup {Opened(Started(store))}
  /\ UNCHANGED <<server, published, link>>

(* A listening card goes to a page that needs the catalog, or leaves it. *)
View(c) ==
  /\ Turn /\ Idle /\ c \in cards.listening
  /\ cards' = [cards EXCEPT !.viewing = IF c \in @ THEN @ \ {c} ELSE @ \cup {c}]
  /\ Client(IF c \in cards.viewing THEN store ELSE Rendered(store), down)
  /\ UNCHANGED <<server, published, link, subs>>

Unlisten(c) ==
  /\ Turn /\ Calm /\ c \in cards.listening
  /\ cards' = [cards EXCEPT !.listening = @ \ {c}, !.viewing = @ \ {c},
                            !.check = TRUE]
  /\ UNCHANGED <<server, published, link, subs, down, store>>

(* Cards replaced within the same turn keep the stream. *)
StopCheck ==
  /\ cards.check
  /\ cards' = [cards EXCEPT !.check = FALSE]
  /\ IF cards.listening = {}
     THEN store' = Stopped(store) /\ subs' = Closed
     ELSE UNCHANGED <<store, subs>>
  /\ UNCHANGED <<server, published, link, down, spent>>

(* The button beside an error. *)
Retry ==
  /\ Turn /\ Idle /\ cards.listening # {} /\ store.status = "error"
  /\ Client(Update(Started(Stopped(store))), down)
  /\ subs' = Closed \cup {Opened(Started(Stopped(store)))}
  /\ UNCHANGED <<server, published, link, cards>>

RetryCatalog ==
  /\ Turn /\ Idle /\ cards.viewing # {} /\ store.error # None
  /\ Client(Update(Ensure([store EXCEPT !.error = None])), down)
  /\ UNCHANGED <<server, published, link, subs, cards>>

-----------------------------------------------------------------------------
(* Catalog reads *)

Current(st, t) == t.token = st.catalog /\ st.active /\ st.status = "current"

\* Mutant: what was asked for during an obsolete read is forgotten.
FinallyForgets(st, t) ==
  IF st.task # t.id THEN st ELSE [st EXCEPT !.task = NoTask, !.wanted = FALSE]

(* The end of a read, whatever its outcome. *)
Finally(st, t) ==
  LET over == [st EXCEPT !.task = NoTask]
  IN IF st.task # t.id THEN st
     ELSE IF t.token # st.catalog /\ st.wanted THEN Ensure(over)
     ELSE [over EXCEPT !.wanted = FALSE]

(* The read goes on as [now], or is gone with its last request. *)
Replace(st, t, now) ==
  LET rest == st.reads \ {t}
      over == /\ now.settled /\ now.asked = {}
              /\ \A i \in DOMAIN st.micro : st.micro[i].task # t.id
  IN [st EXCEPT !.reads = IF over THEN rest ELSE rest \cup {now}]

(* fetchPages goes round: the next page, unless the read is out of date. *)
Asking(st, t, now) ==
  IF now.next <= Len(now.pages)
  THEN LET more == [now EXCEPT !.next = @ + 1, !.asked = @ \cup {now.next}]
       IN [Replace(st, t, more) EXCEPT !.out = Append(@, [task |-> now, page |-> now.next])]
  ELSE Replace(st, t, now)

\* Mutant: the failure of an obsolete read is reported too.
FailAlways(st, t, code) ==
  LET ended == Replace(st, t, [t EXCEPT !.settled = TRUE])
  IN IF t.settled THEN ended ELSE Finally(Update([ended EXCEPT !.error = code]), t)

(* The first failure settles the read; its other workers run on. *)
Fail(st, t, code) ==
  LET ended == Replace(st, t, [t EXCEPT !.settled = TRUE])
      shown == IF Current(st, t) THEN Update([ended EXCEPT !.error = code]) ELSE ended
  IN IF t.settled THEN ended ELSE Finally(shown, t)

(* A worker goes on with its answer [m]. *)
Take(st, t, m) ==
  LET section == t.pages[m.page].section
  IN IF ~m.answer.ok THEN Fail(st, t, m.answer.code)
     ELSE IF ~Current(st, t) THEN Replace(st, t, t)
     ELSE IF m.answer.revision # t.revision THEN Fail(st, t, "incomplete")
     ELSE Asking(st, t, [t EXCEPT !.got[section] = @ \cup m.answer.items])

Continue ==
  /\ ~cards.check /\ store.micro # <<>>
  /\ LET m == Head(store.micro)
         t == CHOOSE x \in store.reads : x.id = m.task
     IN Client(Take([store EXCEPT !.micro = Tail(@)], t, m), down)
  /\ UNCHANGED <<server, published, link, subs, cards, spent>>

(* All the workers are through: the pages become the catalog at once, over *)
(* the newest evidence, or are dropped.                                    *)
Complete(st, t) ==
  LET ended == Replace(st, t, [t EXCEPT !.settled = TRUE])
      data == Entry(st.baseline, TRUE, FALSE, t.got)
  IN IF Current(st, t)
     THEN Finally(Update([ended EXCEPT !.baseline = data, !.data = data, !.error = None]), t)
     ELSE Finally(ended, t)

Install(t) ==
  /\ ~cards.check /\ Ended(store, t)
  /\ Client(Complete(store, t), down)
  /\ UNCHANGED <<server, published, link, subs, cards, spent>>

-----------------------------------------------------------------------------
(* The connection (external: Home Assistant's websocket client) *)

(* websocket_subscribe: the result, then the view as it is now. *)
Accept(s) ==
  /\ link.up /\ s.stage = "sent" /\ Len(down) < MaxQueue
  /\ subs' = (subs \ {s}) \cup {[s EXCEPT !.stage = "live"]}
  /\ down' = down \o <<[kind |-> "result", generation |-> s.generation],
                       Event(s.generation, Summary(server))>>
  /\ UNCHANGED <<server, published, link, cards, store, spent>>

Refuse(s) ==
  /\ link.up /\ s.stage = "sent" /\ Len(down) < MaxQueue
  /\ Faulty
  /\ subs' = subs \ {s}
  /\ down' = Append(down, [kind |-> "refused", generation |-> s.generation])
  /\ UNCHANGED <<server, published, link, cards, store>>

(* A summary the panel's version cannot read. *)
SendInvalid(s) ==
  /\ s.stage = "live" /\ Len(down) < MaxQueue
  /\ Faulty
  /\ \E version \in BOOLEAN :
       down' = Append(down, [kind |-> "invalid", generation |-> s.generation,
                             version |-> version])
  /\ UNCHANGED <<server, published, link, subs, cards, store>>

(* The promise of a subscription: kept by its generation, or closed again. *)
Subscribed(generation) ==
  IF generation = store.generation
  THEN Client([store EXCEPT !.unsubscribe = generation], Tail(down)) /\ UNCHANGED subs
  ELSE /\ Client(store, Tail(down))
       /\ subs' = {s \in subs : s.generation # generation}

Handled(st, m) ==
  IF m.generation # st.generation THEN st
  ELSE CASE m.kind = "event" -> Received(st, m.summary)
         [] m.kind = "invalid" -> Rejected(st, m.version)
         [] m.kind = "refused" -> Update([st EXCEPT !.status = "error"])

(* A reply resolves its request; the worker goes on in a microtask.        *)
Resolved(st, m, answer) ==
  LET t == CHOOSE x \in st.reads : x.id = m.task
      queued == [st EXCEPT !.micro = Append(@, [task |-> m.task, page |-> m.page,
                                                answer |-> answer])]
  IN Replace(queued, t, [t EXCEPT !.asked = @ \ {m.page}])

DeliverPage(m) ==
  /\ m.kind = "page" /\ UNCHANGED subs
  /\ \/ Client(Resolved(store, m, m.answer), Tail(down)) /\ UNCHANGED spent
     \/ Client(Resolved(store, m, Failure("fault")), Tail(down)) /\ Faulty

Deliver ==
  /\ down # <<>> /\ ~cards.check
  /\ LET m == Head(down) IN
     \/ DeliverPage(m)
     \/ m.kind = "result" /\ Subscribed(m.generation) /\ UNCHANGED spent
     \/ /\ m.kind \in {"event", "refused", "invalid"}
        /\ Client(Handled(store, m), Tail(down)) /\ UNCHANGED <<subs, spent>>
  /\ UNCHANGED <<server, published, link, cards>>

(* A dropped connection rejects the requests under way, then is announced. *)
Lost(st) ==
  LET pending == UNION {{[task |-> t.id, page |-> i, answer |-> Failure("lost")] : i \in t.asked} :
                          t \in st.reads}
  IN [st EXCEPT !.micro = @ \o SetToSeq(pending),
                !.reads = {[t EXCEPT !.asked = {}] : t \in @}]

Disconnected(st) ==
  Update([st EXCEPT !.baseline = None, !.catalog = @ + 1, !.task = NoTask,
                    !.wanted = FALSE, !.status = "disconnected"])

Disconnect(restart) ==
  /\ link.up /\ Idle
  /\ Faulty
  /\ link' = [up |-> FALSE, ready |-> FALSE]
  /\ subs' = {[s EXCEPT !.stage = "sent"] : s \in subs}
  /\ Client(IF store.active THEN Disconnected(Lost(store)) ELSE Lost(store), <<>>)
  /\ IF restart
     THEN server' = Unpublished /\ published' = [r \in 0..MaxRevision |-> None]
     ELSE UNCHANGED <<server, published>>
  /\ UNCHANGED cards

(* The subscriptions are sent again, and "ready" is announced. *)
Reconnect ==
  /\ ~link.up
  /\ link' = [up |-> TRUE, ready |-> TRUE]
  /\ UNCHANGED <<server, published, subs, down, cards, store, spent>>

Ready ==
  /\ link.ready /\ Idle
  /\ link' = [link EXCEPT !.ready = FALSE]
  /\ Client(IF store.active /\ store.status = "disconnected"
            THEN Update([store EXCEPT !.status = "loading"]) ELSE store, down)
  /\ UNCHANGED <<server, published, subs, cards, spent>>

-----------------------------------------------------------------------------
Next ==
  \/ \E content \in Contents, e \in Evidence : Publish(content, e)
  \/ PublishUnavailable
  \/ \E c \in Cards : View(c) \/ Unlisten(c) \/ \E viewing \in BOOLEAN : Listen(c, viewing)
  \/ StopCheck \/ Retry \/ RetryCatalog \/ Continue
  \/ \E t \in store.reads : Install(t)
  \/ \E s \in subs : Accept(s) \/ Refuse(s) \/ SendInvalid(s)
  \/ Deliver
  \/ \E restart \in BOOLEAN : Disconnect(restart)
  \/ Reconnect \/ Ready

(* Work of the browser and the socket under way: exactly when one of the   *)
(* steps that spend nothing is enabled.                                    *)
Busy ==
  \/ cards.check \/ store.micro # <<>> \/ down # <<>> \/ ~link.up \/ link.ready
  \/ \E t \in store.reads : Ended(store, t)
  \/ \E s \in subs : s.stage = "sent"

Step == UNCHANGED spent

(* Weak fairness of those steps, WF_vars(Next /\ Step) with its enabling   *)
(* condition written out: microtasks run, messages and replies arrive and  *)
(* a dropped connection comes back.  Nothing is assumed of the user, of    *)
(* discovery or of faults.                                                 *)
Fairness == []<>~Busy \/ []<><<Step>>_vars

Spec == Init /\ [][Next]_vars /\ Fairness

-----------------------------------------------------------------------------
(* Properties *)

(* Types of the store and its environment. *)
TypeOK ==
  /\ server.revision \in 0..MaxRevision
  /\ store.status \in {"loading", "current", "disconnected", "unavailable", "error"}
  /\ store.task \in {NoTask} \cup {t.id : t \in store.reads}
  /\ \A s \in subs : s.stage \in {"sent", "live"}
  /\ cards.viewing \subseteq cards.listening

(* The catalog a panel shows as complete and current is exactly the one    *)
(* the server published at its revision, in every section: pages of two    *)
(* revisions never mix, and a delta is only laid over the revision it      *)
(* starts from.                                                            *)
CatalogCoherent ==
  (store.baseline # None /\ store.baseline.loaded /\ ~store.baseline.stale) =>
    LET content == published[store.baseline.revision]
    IN content # None /\ \A s \in Sections : store.baseline.rows[s] = RowsOf(content[s])

(* While a newer revision is being read, the tree on the screen is still a *)
(* whole one: every entry of some earlier revision is in it, never only    *)
(* the pages that happen to have arrived.                                  *)
CompleteWhileStale ==
  (store.baseline # None /\ store.baseline.stale) =>
    \E r \in 0..store.baseline.revision :
      /\ published[r] # None
      /\ \A s \in Sections :
           IdsOf(RowsOf(published[r][s])) \subseteq IdsOf(store.baseline.rows[s])

(* What the cards show as current is the baseline the next event is        *)
(* merged into.                                                            *)
ShownIsBaseline ==
  store.status = "current" => store.baseline # None /\ store.data = store.baseline

(* A catalog that moved on, or monitoring that stopped, is never reported  *)
(* as a failure to load: only a real fault asks the user to retry.         *)
OnlyFaultsReported == store.error \in {None, "fault"}

(* Leaving the page while a subscription is still being opened does not    *)
(* leave it streaming to nobody: what the store no longer owns is closed   *)
(* as soon as its result is read.                                          *)
NoStraySubscription ==
  \A s \in Live :
    \/ store.active /\ s.generation = store.generation
    \/ \E i \in DOMAIN down :
         down[i].kind = "result" /\ down[i].generation = s.generation
    \/ cards.check

(* Put together: what the store shows, keeps and has subscribed to agrees  *)
(* with what the server published, at every point of overlapping reads.    *)
CatalogSound ==
  TypeOK /\ CatalogCoherent /\ CompleteWhileStale /\ ShownIsBaseline /\ NoStraySubscription

(* A card that needs the catalog of a connected, current dashboard is not  *)
(* left waiting for it: it arrives, or an error offers a retry.            *)
Waiting ==
  /\ cards.viewing # {} /\ store.status = "current" /\ link.up
  /\ Lacking(store.data) /\ store.error = None

CatalogArrives == Waiting ~> ~Waiting

(* When publishing and faults are over, a listening panel comes to show    *)
(* what the server last published, unless it shows an error instead.       *)
Agrees ==
  \/ cards.listening = {} \/ store.status = "error"
  \/ ~server.available /\ store.status = "unavailable"
  \/ /\ server.available /\ store.status = "current"
     /\ store.baseline.revision = server.revision
     /\ store.baseline.evidence = server.evidence

PanelConverges == []<>Agrees
=============================================================================
