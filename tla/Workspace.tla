----------------------------- MODULE Workspace ------------------------------
(* Issues, sources and Stop Monitoring together (homeostatic.js,              *)
(* issue-monitoring.mjs, source-monitoring.mjs, sources-workspace.mjs and     *)
(* scoped-configuration.mjs).  An issue's dialog or a source's details offer  *)
(* to stop the availability checks of the entities that are unavailable now:  *)
(* the card freezes a plan against its copy of the settings, shows it, and    *)
(* saves it, while reports, source lists, other administrators and the user   *)
(* go on.                                                                     *)
(*                                                                            *)
(* A saved policy is its set of excluded entities; the other scopes a save    *)
(* may have are the subject of ScopedSettings.  A failed save's text is left  *)
(* out, whom it is shown to is not.                                           *)
EXTENDS MonitoringPage

CONSTANTS
    Policies,   \* the availability policies, all enabled
    Evidence,   \* what the integration may report, [current, issues]
    States,     \* what Home Assistant's live states may be, entity -> state
    Scopes      \* the issues of a notification, or None for all of them

VARIABLES
    server,    \* [excluded, revision], the saved settings
    config,    \* [excluded, revision, stale], the card's copy
    report,    \* [evidence, excluded, revision], what was published last
    live,      \* Home Assistant's states in the browser
    dialog,    \* None, or the device or the issue it shows
    review,    \* [plan, owner], the plan of a dialog
    offer,     \* [plan, context], the plan of the details and whom it is shown to
    members,   \* [device, ids], the entities ticked in a device's details
    saving,    \* None, or [stage, plan, owner], the save under way
    reading,   \* None, or whose refresh of the settings is under way
    made       \* the plans made, which tell one from another

(* A failing report or finding says so, and a source has one check; an entity *)
(* that is not provided is an issue of its own.                               *)
Healthy == {"loaded", "available", "value_unknown"}
EvidenceSound(evidence) ==
    /\ \A id \in DOMAIN evidence.current :
           LET r == evidence.current[id] IN r # None /\ Failing(r.status) => r.reason \notin Healthy
    /\ \A i \in evidence.issues :
           /\ MembersOf(i) \subseteq DOMAIN evidence.current
           /\ \A f \in i.reasons : Failing(f.status) => f.reason \notin Healthy
           /\ \A f, g \in i.reasons : f.node = g.node => f = g
NotProvidedSound(evidence, rows) ==
    \A i \in evidence.issues :
        i.anchor \in DOMAIN rows /\ rows[i.anchor].kind = "entity_not_provided" =>
            LET r == evidence.current[i.anchor]
            IN  /\ \A f \in i.reasons : f.node = i.anchor /\ (Failing(f.status) => Failing(i.status))
                /\ r # None /\ Failing(r.status) => r.status = "warn" /\ r.reason = "entity_not_provided"
ASSUME EvidenceAssumption ==
    \A e \in DOMAIN Evidence :
        /\ EvidenceSound(Evidence[e])
        /\ \A i \in DOMAIN Inventories : NotProvidedSound(Evidence[e], Inventories[i].rows)
ASSUME OpeningsAssumption ==
    \A o \in Openings : /\ o.inventory \in DOMAIN Inventories /\ o.evidence \in DOMAIN Evidence
                        /\ o.excluded = [p \in Policies |-> o.excluded[p]]

settings == <<server, config>>
reviewVars == <<dialog, review, offer, members, saving, reading, made>>
vars == <<pageVars, settings, report, live, reviewVars, left>>

----------------------------------------------------------------------------
(* The data on the screen. *)

\* A check is watched unless its entity was excluded when this was published.
Rows == Lists[catalog.inventory].rows
Data ==
    LET off == {i \in DOMAIN Rows : /\ Rows[i].policy \in Policies
                                    /\ Rows[i].source \in report.excluded[Rows[i].policy]}
        list == Lists[catalog.inventory]
        evidence == Evidence[report.evidence]
    IN  [rows |-> list.rows, registry |-> list.registry, areas |-> list.areas,
         floors |-> list.floors, canonical |-> list.canonical, off |-> off,
         current |-> evidence.current,
         issues |-> {i \in evidence.issues : MembersOf(i) \cap off = {}}]

Busy == saving # None \/ reading # None
Blocked == Busy \/ ~catalog.loaded

----------------------------------------------------------------------------
(* What can be stopped. *)

Watching(s) ==
    LET d == Data
    IN  {Rows[i].policy : i \in {i \in DOMAIN Rows : /\ Rows[i].kind = "entity" /\ Rows[i].policy \in Policies
                                                     /\ Watched(d, i) /\ Rows[i].source = s}}
Active(s) == {p \in Watching(s) : s \notin config.excluded[p]}
Excluding(s) == {p \in Policies : s \in config.excluded[p]}
Affected(mode, s) == IF mode = "stop" THEN Active(s) ELSE Excluding(s)

UnavailableNow(d, i) ==
    LET s == d.rows[i].source
    IN  IF s \in DOMAIN live THEN live[s] = "unavailable"
        ELSE d.current[i] # None /\ Failing(d.current[i].status) /\ d.current[i].reason = "unavailable"

\* The monitored entities of these issues that are unavailable now.
IssueSources(issues) ==
    LET d == Data
        ids == UNION {{i.anchor} \cup {f.node : f \in i.reasons} : i \in issues}
    IN  {d.rows[i].source : i \in {i \in ids \cap DOMAIN d.rows :
            /\ d.rows[i].policy \in Policies /\ Watched(d, i) /\ d.rows[i].kind = "entity"
            /\ d.rows[i].source \in DOMAIN d.rows /\ ~d.rows[d.rows[i].source].disabled
            /\ d.rows[i].source \notin config.excluded[d.rows[i].policy]
            /\ UnavailableNow(d, i)}}

OpenedIssues == IF dialog = None THEN {} ELSE Dialog(Data, dialog)

\* The plan: the sources that change, and the policies before and after.
Plan(mode, selected) ==
    LET of(p) == {s \in selected : p \in Affected(mode, s)}
        touched == {p \in Policies : of(p) # {}}
    IN  [id |-> made + 1, revision |-> config.revision, catalog |-> report.revision, mode |-> mode,
         sources |-> UNION {of(p) : p \in touched},
         changes |-> [p \in touched |->
             [before |-> config.excluded[p],
              after |-> IF mode = "stop" THEN config.excluded[p] \cup of(p)
                        ELSE config.excluded[p] \ of(p)]]]
Plannable(mode, selected) == catalog.loaded /\ \E s \in selected : Affected(mode, s) # {}

----------------------------------------------------------------------------
(* The save. *)

NoReview == [plan |-> None, owner |-> None]
Shown == <<dialog, review, offer, members>>
IsDialog(context) == context # None /\ context[1] \in {"device", "issue"}

\* A review ends with its dialog.
Reset == /\ review' = NoReview
         /\ offer' = IF IsDialog(offer.context) THEN [offer EXCEPT !.context = None] ELSE offer

\* A variant: after a refresh the plan is saved over whatever was read.
ProposedOver(plan, conf) == catalog.loaded

\* What a plan asks the server to save, if the card still agrees with it.
Proposed(plan, conf) ==
    /\ plan.revision = conf.revision
    /\ \A p \in DOMAIN plan.changes : conf.excluded[p] = plan.changes[p].before
    /\ catalog.loaded /\ plan.catalog = report.revision
Candidate(plan, conf) ==
    [p \in Policies |-> IF p \in DOMAIN plan.changes THEN plan.changes[p].after ELSE conf.excluded[p]]

Stale(plan) == plan # None /\ (plan.revision # config'.revision \/ plan.catalog # report.revision)

\* The review that was answered ends with its dialog, and nothing else does.
DialogAnswered(owner, plan, saved) ==
    /\ UNCHANGED members
    /\ IF dialog # owner \/ review.plan # plan THEN UNCHANGED <<dialog, review, offer>>
       ELSE IF saved THEN dialog' = None /\ Reset
       ELSE /\ review' = IF Stale(plan) THEN [review EXCEPT !.plan = None] ELSE review
            /\ UNCHANGED <<dialog, offer>>

DetailsAnswered(saved) ==
    /\ offer' = IF saved \/ Stale(offer.plan) THEN [offer EXCEPT !.plan = None] ELSE offer
    /\ members' = IF saved THEN None ELSE members
    /\ UNCHANGED <<dialog, review>>

\* The save ends; the plan is done if the settings read since are as it left them.
Finish(s, saved) ==
    LET done == saved /\ \A p \in DOMAIN s.plan.changes :
                             config'.excluded[p] = s.plan.changes[p].after
    IN  /\ saving' = None
        /\ IF IsDialog(s.owner) THEN DialogAnswered(s.owner, s.plan, done) ELSE DetailsAnswered(done)
Fail(s, stale) == config' = [config EXCEPT !.stale = stale] /\ Finish(s, FALSE)

\* A failure may have a code, and only one of those asks for a refresh.
MayFail(s) == \E stale \in BOOLEAN : Fail(s, stale)

\* Send what is proposed; nothing to send is a success.
Propose(s, conf) ==
    IF ~Proposed(s.plan, conf) THEN config' = [conf EXCEPT !.stale = TRUE] /\ Finish(s, FALSE)
    ELSE /\ config' = conf
         /\ IF Candidate(s.plan, conf) = conf.excluded THEN Finish(s, TRUE)
            ELSE saving' = [s EXCEPT !.stage = "save"] /\ UNCHANGED Shown

\* Saving starts with the settings, when the card's copy may be old.
Start(plan, owner) ==
    LET s == [stage |-> "refresh", plan |-> plan, owner |-> owner]
    IN  IF config.stale THEN saving' = s /\ UNCHANGED <<config, Shown>> ELSE Propose(s, config)

Fresh == [excluded |-> server.excluded, revision |-> server.revision, stale |-> FALSE]

SaveRefreshed ==
    /\ saving # None /\ saving.stage = "refresh"
    /\ Propose(saving, Fresh) \/ MayFail(saving)
    /\ UNCHANGED server

(* The server saves for the revision it has; the answer may be lost.          *)
SaveAnswered ==
    LET current == config.revision = server.revision
        accepted == [excluded |-> Candidate(saving.plan, config), revision |-> server.revision + 1]
    IN  /\ saving # None /\ saving.stage = "save"
        /\ \/ /\ current /\ server' = accepted
              /\ saving' = [saving EXCEPT !.stage = "reload"] /\ UNCHANGED <<config, Shown>>
           \/ current /\ server' = accepted /\ MayFail(saving)
           \/ UNCHANGED server /\ MayFail(saving)

SaveReloaded ==
    /\ saving # None /\ saving.stage = "reload"
    /\ (config' = Fresh /\ Finish(saving, TRUE)) \/ Fail(saving, TRUE)
    /\ UNCHANGED server

----------------------------------------------------------------------------
(* The user. *)

Act == Spend("acts") /\ UNCHANGED <<pageVars, report, live>>
Quiet == UNCHANGED <<settings, saving, reading>>

\* Where a source's details lead: its device's issues, and the others it is in.
SourceButtons ==
    LET d == Data
        at == Place(catalog, page, topology, page.showDisabled, page.selection)
        device == IF at.source \in DOMAIN d.rows /\ d.rows[at.source].kind = "device"
                  THEN DeviceOf(d.rows[at.source]) ELSE None
        ids == IF at = NoPlace THEN {}
               ELSE SourceIds(d, TreeOf(catalog, page, topology, page.showDisabled), Append(at.parents, at.key))
        related == {i \in VisibleIssues(d) : MembersOf(i) \cap ids # {}} \ RelatedDeviceIssues(d, device)
    IN  {RowTarget(d, None, i) : i \in related}
        \cup IF RelatedDeviceIssues(d, device) # {} THEN {<<"device", device>>} ELSE {}

OpenDialog(target) ==
    /\ Act /\ target # dialog
    /\ dialog' = target /\ Reset
    /\ Quiet /\ UNCHANGED <<members, made>>

CloseDialog ==
    /\ Act /\ dialog # None /\ dialog' = None /\ Reset
    /\ Quiet /\ UNCHANGED <<members, made>>

Review ==
    LET selected == IssueSources(OpenedIssues)
    IN  /\ Act /\ dialog # None /\ ~Blocked /\ review.plan = None /\ selected # {}
        /\ review' = [plan |-> IF Plannable("stop", selected) THEN Plan("stop", selected) ELSE None,
                      owner |-> dialog]
        /\ offer' = [offer EXCEPT !.context = dialog] /\ made' = made + 1
        /\ Quiet /\ UNCHANGED <<dialog, members>>

CancelReview ==
    /\ Act /\ dialog # None /\ ~Busy /\ review.plan # None /\ review.owner = dialog /\ Reset
    /\ Quiet /\ UNCHANGED <<dialog, members, made>>

\* Other entities are unavailable now than were reviewed: review again.
ConfirmReview ==
    /\ Act /\ dialog # None /\ ~Blocked /\ OpenedIssues # {}
    /\ review.plan # None /\ review.owner = dialog
    /\ IF IssueSources(OpenedIssues) = review.plan.sources THEN Start(review.plan, dialog)
       ELSE /\ review' = [review EXCEPT !.plan = None]
            /\ offer' = [offer EXCEPT !.context = dialog]
            /\ UNCHANGED <<config, saving, dialog, members>>
    /\ UNCHANGED <<server, reading, made>>

Details == Place(catalog, page, topology, page.showDisabled, page.selection).source
Entity(s) == s \in DOMAIN Rows /\ Rows[s].kind = "entity" /\ ~Rows[s].disabled
MembersOfDevice(s) == {e \in DOMAIN Rows : Entity(e) /\ Rows[e].policy = None /\ s \in DOMAIN Rows
                                           /\ DeviceOf(Rows[e]) = DeviceOf(Rows[s])}
Offered(s) == offer.plan # None /\ offer.context = <<"source", s>>
DetailsAct(s) == Act /\ s # None /\ Details = s /\ dialog = None /\ ~Blocked

\* A plan for the entity, or for those ticked in its device's details.
Offer(s, mode) ==
    LET chosen == IF Entity(s) THEN {s} ELSE IF members # None /\ members.device = s THEN members.ids ELSE {}
    IN  /\ DetailsAct(s) /\ (Entity(s) => ~Offered(s))
        /\ Plannable(mode, chosen)
        /\ offer' = [plan |-> Plan(mode, chosen), context |-> <<"source", s>>] /\ made' = made + 1
        /\ Quiet /\ UNCHANGED <<dialog, review, members>>

ChooseMembers(s) ==
    /\ DetailsAct(s) /\ Rows[s].kind = "device" /\ ~Offered(s)
    /\ members' = IF members # None /\ members.device = s THEN None ELSE [device |-> s, ids |-> {}]
    /\ offer' = [plan |-> IF members' = None THEN None ELSE offer.plan, context |-> <<"source", s>>]
    /\ Quiet /\ UNCHANGED <<dialog, review, made>>

TickMember(s, e) ==
    /\ DetailsAct(s) /\ members # None /\ members.device = s /\ e \in MembersOfDevice(s)
    /\ members' = [members EXCEPT !.ids = SymDiff(@, {e})]
    /\ offer' = [offer EXCEPT !.plan = None]
    /\ Quiet /\ UNCHANGED <<dialog, review, made>>

CancelOffer(s) ==
    /\ DetailsAct(s) /\ Offered(s) /\ offer' = [offer EXCEPT !.plan = None]
    /\ Quiet /\ UNCHANGED <<dialog, review, members, made>>

ConfirmOffer(s) ==
    /\ DetailsAct(s) /\ Offered(s) /\ Start(offer.plan, <<"source", s>>)
    /\ UNCHANGED <<server, reading, made>>

\* Refresh saved monitoring, offered where a save may have failed.
ReadSaved(owner) ==
    /\ Act /\ ~Busy /\ config.stale
    /\ owner = offer.context /\ owner \in {dialog, <<"source", Details>>} \ {None}
    /\ reading' = owner
    /\ UNCHANGED <<settings, saving, Shown, made>>

ReadDone ==
    /\ reading # None /\ reading' = None /\ config' = Fresh
    /\ IF IsDialog(reading)
       THEN IF dialog = reading /\ offer.context = reading THEN Reset ELSE UNCHANGED <<review, offer>>
       ELSE offer' = [offer EXCEPT !.plan = None] /\ UNCHANGED review
    /\ UNCHANGED <<server, saving, dialog, members, made>>

\* A link in a dialog leads to the source's details and closes the dialog.
FollowLink(s) ==
    /\ SourceLink(s) /\ dialog' = None /\ Reset
    /\ Quiet /\ UNCHANGED <<report, live, members, made>>

----------------------------------------------------------------------------
(* Everything else. *)

\* The first source list is not counted as a change.
Change == (IF catalog.loaded THEN Spend("changes") ELSE UNCHANGED left) /\ UNCHANGED reviewVars

OtherSave(p, s) ==
    /\ Change /\ catalog.loaded
    /\ server' = [excluded |-> [server.excluded EXCEPT ![p] = SymDiff(@, {s})],
                  revision |-> server.revision + 1]
    /\ UNCHANGED <<pageVars, config, report, live>>

LiveChange(states) ==
    /\ Change /\ catalog.loaded /\ states # live /\ live' = states
    /\ UNCHANGED <<pageVars, settings, report>>

\* The integration reports, under the settings it has by now.
Publish(evidence) ==
    /\ Change /\ catalog.loaded
    /\ report' = [evidence |-> evidence, excluded |-> server.excluded,
                  revision |-> report.revision + IF report.excluded = server.excluded THEN 0 ELSE 1]
    /\ report' # report
    /\ UNCHANGED <<pageVars, settings, live>>

SourcesChange(i) ==
    /\ Change /\ (CatalogArrives(i) \/ CatalogChanges(i))
    /\ report' = [report EXCEPT !.revision = @ + IF i = catalog.inventory THEN 0 ELSE 1]
    /\ UNCHANGED <<settings, live>>

Browsing ==
    LET nodes == PageNodes(page, Data, UNION Range(config.excluded))
        onScreen == RowsOnScreen(nodes)
    IN  \/ \E g \in Groupings : GroupBy(g)
        \/ \E n \in onScreen : SelectRow(Key(n))
        \/ \E n \in {n \in onScreen : Children(nodes, n.path) # {}} : Toggle(Key(n))
        \/ \E n \in {n \in onScreen : HasMore(nodes, n)} : More(Key(n))
        \/ Collapse \/ ShowDisabled \/ Reconnect
        \/ \E q \in Queries \cup {None} : Search(q)
        \/ \E f \in {"review", "excludedOnly"} : FilterBy([page.filter EXCEPT ![f] = ~@])
        \/ \E m \in {"all", "monitored", "unmonitored"} : FilterBy([page.filter EXCEPT !.monitoring = m])
PageStep ==
    /\ \/ dialog = None /\ left.browse > 0 /\ Browsing
       \/ \E t \in Responses : TopologyReply(t)
    /\ UNCHANGED <<settings, report, live, reviewVars>>

Init ==
    \E opening \in Openings :
        /\ PageInit(opening)
        /\ server = [excluded |-> opening.excluded, revision |-> 0]
        /\ config = [excluded |-> opening.excluded, revision |-> 0, stale |-> FALSE]
        /\ report = [evidence |-> opening.evidence, excluded |-> opening.excluded, revision |-> 0]
        /\ live = opening.live
        /\ dialog = None /\ review = NoReview /\ offer = [plan |-> None, context |-> None]
        /\ members = None /\ saving = None /\ reading = None /\ made = 0

UserStep ==
    /\ left.acts > 0
    /\ \/ \E target \in SourceButtons \cup UNION {Buttons(Data, scope) : scope \in Scopes} : OpenDialog(target)
       \/ CloseDialog \/ Review \/ CancelReview \/ ConfirmReview
       \/ \E mode \in {"stop", "resume"} : Offer(Details, mode)
       \/ ChooseMembers(Details) \/ CancelOffer(Details) \/ ConfirmOffer(Details)
       \/ \E e \in DOMAIN Rows : TickMember(Details, e)
       \/ \E owner \in {dialog, <<"source", Details>>} : ReadSaved(owner)
LinkStep == left.browse > 0 /\ \E s \in DOMAIN Rows : FollowLink(s)

CardStep ==
    /\ SaveRefreshed \/ SaveAnswered \/ SaveReloaded
    /\ UNCHANGED <<pageVars, report, live, reading, made, left>>

ReadStep == ReadDone /\ UNCHANGED <<pageVars, report, live, left>>

OtherStep ==
    \/ \E p \in Policies : \E s \in DOMAIN live : OtherSave(p, s)
    \/ \E states \in States : LiveChange(states)
    \/ \E e \in DOMAIN Evidence : Publish(e)
    \/ \E i \in DOMAIN Inventories : SourcesChange(i)

Next == PageStep \/ LinkStep \/ UserStep \/ CardStep \/ ReadStep \/ OtherStep
Spec == Init /\ [][Next]_vars

----------------------------------------------------------------------------
(* Every source has a place: whatever the grouping, each source the page may  *)
(* show is in the tree (or beside the device of its connection), every old    *)
(* link to one of its checks leads to it, and a grouping by locations nobody  *)
(* can use is left (sources-workspace.mjs:180, 263; homeostatic.js:249, 283). *)
EverySourceListed ==
    LET d == Lists[catalog.inventory]
        nodes == TreeOf(catalog, page, topology, page.showDisabled)
        sources == DOMAIN Shows[<<catalog.inventory, page.showDisabled>>]
    IN  /\ sources \subseteq UNION {{n.source, n.connection} : n \in nodes}
        /\ \A i \in DOMAIN d.rows : d.canonical[i] \in sources =>
               Place(catalog, page, topology, page.showDisabled, SourceKey(i)).source = d.canonical[i]
GroupingUsable ==
    catalog.loaded /\ topology.loaded /\ page.grouping = "topomation" => Usable(topology.response)
SourcesReachable == catalog.loaded => EverySourceListed /\ GroupingUsable

(* Every issue the list is about has a button that opens a dialog with it,    *)
(* and a current failure is never hidden (issues-workspace.mjs:33;            *)
(* docs/spec.md:842).  A failure nobody reports on now counts as current,     *)
(* except that of a missing entity (entity-not-provided.mjs:17).              *)
CurrentFault(d, issue) ==
    \E f \in issue.reasons :
        /\ Failing(f.status)
        /\ IF d.current[f.node] = None THEN Kind(d, issue.anchor) # "entity_not_provided"
           ELSE Failing(d.current[f.node].status)
FaultsStayVisible == LET d == Data IN \A i \in d.issues : CurrentFault(d, i) => Visible(d, i)
EveryIssueOpens ==
    LET d == Data
    IN  \A scope \in Scopes : \A i \in Listing(d, scope) :
            \E target \in Buttons(d, scope) : i \in Dialog(d, target)

(* What a listed issue says agrees with what is known: a connection that runs *)
(* never makes its issue look as if it were recovering, a device is called    *)
(* available only on the word of all its own checks, a row below a device     *)
(* tells of that device alone, and a dialog names every source that Stop      *)
(* Monitoring would take from it (docs/spec.md:588, 605, 609).                *)
RowTruthful(d, issue, device) ==
    LET row == RowUnder(d, issue, device)
        said == Condition(d, row)
    IN  /\ Kind(d, issue.anchor) = "integration" => said # <<"confirming recovery">>
        /\ said = <<"available">> =>
               \A id \in Contributors(d, issue) : DeviceContext(d, id) = device =>
                   d.current[id] # None /\ d.current[id].status = "pass"
        /\ device # None /\ said[1] \in {"attention", "unavailable"} =>
               \A m \in said[2] : DeviceContext(d, m) = device
        /\ device # None => RowDevice(d, row) \in {None, device}
RowsTruthful ==
    LET d == Data
    IN  \A i \in VisibleIssues(d) :
            LET headings == Headings(d, i)
            IN  /\ \A device \in headings : RowTruthful(d, i, device)
                /\ None \notin headings =>
                       DialogTitle(d, i) \in headings \cup {Canonical(d, i.anchor), "Entity availability"}
StopsNamed ==
    dialog # None =>
        IssueSources(OpenedIssues) \subseteq UNION {DialogSources(Data, i) : i \in OpenedIssues}

(* Put together: an issue is listed, opens, and says what is known.           *)
IssuesPresented == FaultsStayVisible /\ EveryIssueOpens /\ RowsTruthful /\ StopsNamed

(* A link to a source leaves the row it leads to on the screen: the groups    *)
(* above it are open and a long branch shows it beyond its limit, when no     *)
(* filter hides it (sources-workspace.mjs:701, docs/spec.md:655).  A device   *)
(* of two integrations has a row with each, and the link leads to the first.  *)
(* Where sources are hidden because they are disabled, see LinkRevealed.      *)
SelectedOnScreen(p) ==
    LET nodes == PageNodes(p, Data, UNION Range(config.excluded))
        at == Place(catalog, p, topology, p.showDisabled, p.selection)
        Selected(n) == Key(n) = at.key \/ (n.connection # None /\ n.connection = at.source)
    IN  at # NoPlace =>
            \A n \in nodes : Front(n.path) = at.parents /\ Selected(n) => OnScreen(p, nodes, n)
NothingHidden == page.showDisabled \/ \A r \in Range(Rows) : ~r.disabled
LinkShown ==
    [][(\E s \in DOMAIN Rows : FollowLink(s)) /\ NothingHidden => SelectedOnScreen(page')]_vars

(* The same with disabled sources hidden, which docs/spec.md:655 promises and *)
(* the code does not do: the groups are opened in the tree with them, where   *)
(* the source may be below another group.                                     *)
LinkRevealed == [][(\E s \in DOMAIN Rows : FollowLink(s)) => SelectedOnScreen(page')]_vars

(* Stop Monitoring does what was reviewed, in the dialog where it was: a      *)
(* review belongs to the dialog that is open; the server's settings change by *)
(* exactly the plan, and only where they were as it was made; and an answer   *)
(* that comes late closes no other review (issue-monitoring.mjs:78, 140;      *)
(* scoped-configuration.mjs:171; docs/spec.md:643).                           *)
ReviewBelongsToDialog == review.plan # None => dialog # None /\ review.owner = dialog
SavesReviewed ==
    saving # None /\ saving' # saving /\ server' # server =>
        \A p \in Policies :
            IF p \in DOMAIN saving.plan.changes
            THEN /\ server.excluded[p] = saving.plan.changes[p].before
                 /\ SymDiff(server.excluded[p], server'.excluded[p]) \subseteq saving.plan.sources
            ELSE server'.excluded[p] = server.excluded[p]
ClosesAnswered ==
    saving # None /\ saving' = None /\ dialog # None /\ dialog' = None =>
        dialog = saving.owner /\ review.plan = saving.plan
StopsReviewed == []ReviewBelongsToDialog /\ [][SavesReviewed /\ ClosesAnswered]_vars
=============================================================================
