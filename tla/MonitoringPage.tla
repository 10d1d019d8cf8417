--------------------------- MODULE MonitoringPage ---------------------------
(* Browsing the Monitoring page (sourcesBrowser in sources-workspace.mjs and  *)
(* its handlers in homeostatic.js): grouping, selection, filters, expanded    *)
(* groups, and the TopoMation locations, which arrive on their own and may    *)
(* arrive before the source list.                                             *)
(*                                                                            *)
(* A search text names one source.  The page is taken as connected; focus,    *)
(* scrolling and the phone layout are left out.                               *)
EXTENDS IssueRows, Integers

CONSTANTS
    Inventories,  \* the source lists, [rows, registry, areas, floors] by name
    Responses,    \* the answers of the TopoMation integration, <<>> if none
    Caches,       \* the code's caches of what these show (Built)
    Queries,      \* the sources a search may name
    Limit,        \* the children a branch shows at first (80 in the code)
    Openings      \* how a session may begin, [inventory, evidence, excluded,
                  \* live, left], with its bounds: how often the user browses
                  \* and acts in dialogs, locations arrive, others change things

VARIABLES
    catalog,   \* [inventory, loaded], the source list the card has
    topology,  \* [response, loaded, loading]
    page,      \* [grouping, selection, expanded, limits, showDisabled, filter]
    left       \* what is left of the session, [browse, replies, acts, changes]

ASSUME OrderAssumption == Order \in Seq(Range(Order))
ASSUME InventoriesAssumption ==
    \A i \in DOMAIN Inventories :
        LET d == Inventories[i]
        IN  /\ ChecksAreCopies(d.rows) /\ IsFiniteSet(DOMAIN d.rows)
            /\ IsFiniteSet(DOMAIN d.areas) /\ IsFiniteSet(d.floors)
ASSUME ResponsesAssumption == <<>> \in Responses /\ \A t \in Responses : t \in Seq(Range(t))

pageVars == <<catalog, topology, page>>

Groupings == {"integration", "location", "topomation"}
NoFilter == [query |-> None, review |-> FALSE, monitoring |-> "all", excludedOnly |-> FALSE]

(* What the code's caches hold: each list with its sources, its trees and the *)
(* places of everything in them.  They are worked out once for a list, and    *)
(* given as a constant so that TLC does the same.                             *)
Table(f) == f @@ <<>>

ListOf(inventory, canonical) ==
    [rows |-> inventory.rows, registry |-> inventory.registry, areas |-> inventory.areas,
     floors |-> inventory.floors, off |-> {}, canonical |-> canonical]
CanonicalIn(inventory) == [r \in DOMAIN inventory.rows |-> CanonicalId(inventory, r)]
PlacesIn(d, tree) ==
    LET names == {SourceKey(r) : r \in DOMAIN d.rows} \cup {Key(n) : n \in tree}
    IN  [name \in names |-> Find(d, tree, name)]
Built ==
    LET lists == Table([i \in DOMAIN Inventories |->
                           ListOf(Inventories[i], Table(CanonicalIn(Inventories[i])))])
        trees == Table([k \in (DOMAIN lists) \X Groupings \X Responses \X BOOLEAN |->
                            Tree(lists[k[1]], k[2], k[3], k[4])])
    IN  [lists |-> lists, trees |-> trees,
         places |-> Table([k \in DOMAIN trees |-> Table(PlacesIn(lists[k[1]], trees[k]))]),
         shows |-> Table([k \in (DOMAIN lists) \X BOOLEAN |-> Table(Sources(lists[k[1]], k[2]))])]

Lists == Caches.lists
Shows == Caches.shows
Trees == Caches.trees
Places == Caches.places

ASSUME CachesAreBuilt ==
    \A i \in DOMAIN Inventories :
        LET d == Lists[i]
        IN  /\ d = ListOf(Inventories[i], CanonicalIn(Inventories[i]))
            /\ \A s \in BOOLEAN :
                   /\ Shows[<<i, s>>] = Sources(d, s)
                   /\ \A g \in Groupings, t \in Responses :
                          LET k == <<i, g, t, s>>
                          IN  Trees[k] = Tree(d, g, t, s) /\ Places[k] = PlacesIn(d, Trees[k])

TreeOf(cat, p, top, showDisabled) ==
    Trees[<<cat.inventory, p.grouping, top.response, showDisabled>>]
Place(cat, p, top, showDisabled, selection) ==
    LET places == Places[<<cat.inventory, p.grouping, top.response, showDisabled>>]
    IN  IF selection \in DOMAIN places THEN places[selection] ELSE NoPlace

----------------------------------------------------------------------------
(* Revealing the selection. *)

IsPlace(key) == key # None /\ key[1] \in {"area", "floor", "group", "location", "section"}

\* The place of the other grouping that is the same area, if there is one.
SamePlace(top, grouping, key) ==
    LET t == top.response
        OfArea == {i \in DOMAIN t : t[i].area = key[2] /\ t[i].area # None}
    IN  CASE key[1] = "area" /\ grouping = "topomation" /\ OfArea # {} ->
               <<"location", t[CHOOSE i \in OfArea : \A j \in OfArea : i <= j].id>>
          [] key[1] = "location" /\ grouping = "location" /\ key[2] \in Locations(t) ->
               <<"area", LocationOf(t, key[2]).area>>
          [] OTHER -> None

FirstKey(tree) ==
    IF tree = {} THEN None
    ELSE Key(CHOOSE n \in tree : \A m \in tree : m = n \/ ~Before(m.path, n.path))

\* A variant: the groups above the selection stay as they were.
RevealSelection(p, cat, top) ==
    IF ~cat.loaded \/ Place(cat, p, top, TRUE, p.selection) = NoPlace THEN p
    ELSE [p EXCEPT !.selection = Place(cat, p, top, TRUE, p.selection).key]

\* The selection under its name in this grouping, with the groups above it open.
Reveal(p, cat, top) ==
    IF ~cat.loaded THEN p
    ELSE LET At(key) == Place(cat, p, top, TRUE, key)
             known == IF At(p.selection) # NoPlace THEN At(p.selection).key ELSE p.selection
             same == SamePlace(top, p.grouping, known)
             key == CASE ~(IsPlace(known) /\ At(known) = NoPlace) -> known
                      [] IsPlace(known) /\ At(known) = NoPlace /\ At(same) # NoPlace -> same
                      [] OTHER -> FirstKey(TreeOf(cat, p, top, TRUE))
         IN  [p EXCEPT !.selection = key,
                       !.expanded = @ \cup {Last(SubSeq(At(key).parents, 1, i)) :
                                            i \in DOMAIN At(key).parents}]

\* The groups above everything the search text names are opened as well.
RevealSearch(p, cat, top) ==
    LET at == Place(cat, p, top, TRUE, SourceKey(p.filter.query))
    IN  IF p.filter.query = None \/ at = NoPlace THEN p
        ELSE [p EXCEPT !.expanded = @ \cup Range(at.parents)]

\* TopoMation locations are left when they cannot be used.
LeaveTopology(p, cat, top) ==
    IF p.grouping = "topomation" /\ top.loaded /\ cat.loaded /\ ~Usable(top.response)
    THEN [p EXCEPT !.grouping = "location"] ELSE p

----------------------------------------------------------------------------
(* The rows on the screen. *)

FilterNow(p, d, excluded) ==
    LET issueSources == UNION {{d.canonical[id] : id \in MembersOf(i) \cap DOMAIN d.rows} :
                               i \in VisibleIssues(d)}
    IN  p.filter @@ [issues |-> issueSources, excluded |-> excluded]

PageNodes(p, d, excluded) ==
    Filtered(d, TreeOf(catalog, p, topology, p.showDisabled),
             Shows[<<catalog.inventory, p.showDisabled>>], FilterNow(p, d, excluded))

Children(nodes, path) == {n \in nodes : n.path # <<>> /\ Front(n.path) = path}
Opened(p, key) == p.filter.query # None \/ key \in p.expanded
LimitOf(p, key) == IF key \in DOMAIN p.limits THEN p.limits[key] ELSE Limit

\* The first child that is the selection, has it as its connection or is above it.
Linked(p, nodes, path) ==
    LET at == Place(catalog, p, topology, p.showDisabled, p.selection)
        hits == {n \in Children(nodes, path) :
                    \/ at # NoPlace /\ Key(n) = at.key
                    \/ n.connection # None /\ n.connection = at.source
                    \/ at # NoPlace /\ Key(n) \in Range(at.parents)}
    IN  {n \in hits : \A m \in hits : ~Before(m.path, n.path)}

ShownUnder(p, nodes, path) ==
    LET children == Children(nodes, path)
        Rank(n) == Cardinality({m \in children : Before(m.path, n.path)})
    IN  IF path = <<>> THEN children
        ELSE {n \in children : Rank(n) < LimitOf(p, Last(path))} \cup Linked(p, nodes, path)

OnScreen(p, nodes, n) ==
    \A k \in 1..Len(n.path) :
        /\ \E m \in ShownUnder(p, nodes, SubSeq(n.path, 1, k - 1)) : m.path = SubSeq(n.path, 1, k)
        /\ k < Len(n.path) => Opened(p, n.path[k])

\* The buttons: rows, groups to open or close, and branches with more to show.
RowsOnScreen(nodes) == {n \in nodes : OnScreen(page, nodes, n)}
HasMore(nodes, n) ==
    Opened(page, Key(n)) /\ ShownUnder(page, nodes, n.path) # Children(nodes, n.path)

----------------------------------------------------------------------------
PageInit(opening) ==
    /\ catalog = [inventory |-> opening.inventory, loaded |-> FALSE]
    /\ topology = [response |-> <<>>, loaded |-> FALSE, loading |-> TRUE]
    /\ page \in [grouping : Groupings, selection : {None}, expanded : {{}}, limits : {<<>>},
                 showDisabled : {FALSE}, filter : {NoFilter}]
    /\ left = opening.left

Spend(what) == left[what] > 0 /\ left' = [left EXCEPT ![what] = @ - 1]
Browse == catalog.loaded /\ Spend("browse")
Page(p) == page' = p /\ UNCHANGED <<catalog, topology>>

\* Another grouping; TopoMation is offered when its locations can be used.
GroupBy(g) ==
    /\ Browse /\ g # page.grouping /\ (g = "topomation" => Usable(topology.response))
    /\ Page(Reveal([page EXCEPT !.grouping = g], catalog, topology))

SelectRow(key) ==
    /\ Browse
    /\ Page(Reveal([page EXCEPT !.selection = key], catalog, topology))

\* A link of an issue, a notification or another source.
SourceLink(s) ==
    /\ Browse
    /\ Page(Reveal([page EXCEPT !.selection = SourceKey(s)], catalog, topology))

Toggle(key) ==
    /\ Browse
    /\ Page([page EXCEPT !.expanded = SymDiff(@, {key})])
Collapse == Browse /\ page.expanded # {} /\ Page([page EXCEPT !.expanded = {}])
More(key) ==
    /\ Browse
    /\ Page([page EXCEPT !.limits = [k \in {key} \cup DOMAIN @ |->
                                        IF k = key THEN LimitOf(page, key) + Limit ELSE @[k]]])

ShowDisabled == Browse /\ Page([page EXCEPT !.showDisabled = ~@])
FilterBy(f) == Browse /\ f # page.filter /\ Page([page EXCEPT !.filter = f])
Search(s) ==
    /\ Browse /\ s # page.filter.query
    /\ Page(RevealSearch([page EXCEPT !.filter.query = s], catalog, topology))

----------------------------------------------------------------------------
(* What arrives. *)

\* The last request's answer; one that was not asked last is dropped.
TopologyReply(t) ==
    LET top == [response |-> t, loaded |-> TRUE, loading |-> FALSE]
    IN  /\ topology.loading
        /\ topology' = top
        /\ page' = Reveal(LeaveTopology(page, catalog, top), catalog, top)
        /\ Spend("replies") /\ UNCHANGED catalog

\* A card that is shown again asks for the locations again.
Reconnect ==
    /\ ~topology.loading /\ Spend("browse")
    /\ topology' = [topology EXCEPT !.loading = TRUE]
    /\ UNCHANGED <<catalog, page>>

\* The complete source list, after which the selection can be found.
CatalogArrives(i) ==
    LET cat == [inventory |-> i, loaded |-> TRUE]
        revealed == Reveal(page, cat, topology)
        searched == RevealSearch(revealed, cat, topology)
        kept == LeaveTopology(searched, cat, topology)
    IN  /\ catalog.loaded <=> i # catalog.inventory
        /\ catalog' = cat
        /\ page' = IF kept = searched THEN kept ELSE Reveal(kept, cat, topology)
        /\ UNCHANGED topology

\* A small change of a list the card has, which reveals nothing again.
CatalogChanges(i) ==
    /\ catalog.loaded /\ i # catalog.inventory
    /\ catalog' = [catalog EXCEPT !.inventory = i]
    /\ page' = LeaveTopology(page, catalog, topology)
    /\ UNCHANGED topology
=============================================================================
