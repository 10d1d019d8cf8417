---------------------------- MODULE SourceTrees ----------------------------
(* The trees of the Monitoring page (sources-workspace.mjs, configuration.mjs,*)
(* model.mjs, source-coverage.mjs), as functions of the data they show.       *)
(*                                                                            *)
(* A tree is a set of nodes; a node's path is the sequence of keys from its   *)
(* root, so a tree is closed under prefixes, and the lists the page shows are *)
(* ordered by Order, which stands for the names.  Every row of the inventory  *)
(* (an entity, a check of it, a device, a connection...) is a function's      *)
(* argument: d.rows maps its identity to its record, d.canonical to the source*)
(* it describes (CanonicalId, worked out once for a list), and d.off is the   *)
(* set of the checks that are excluded.  Wording, icons and the counts in the *)
(* headings are left out.                                                     *)
EXTENDS FiniteSets, Functions, Naturals, Sequences, SequencesExt

CONSTANTS
    None,   \* no source, device, area, policy...
    Order   \* all the identifiers, in the order of their names

\* What has no name in the order comes last.
Index(id) ==
    IF \E i \in DOMAIN Order : Order[i] = id THEN CHOOSE i \in DOMAIN Order : Order[i] = id
    ELSE Len(Order) + 1
First(ids) == CHOOSE id \in ids : \A other \in ids : Index(id) <= Index(other)

----------------------------------------------------------------------------
(* One source for the rows that describe the same thing. *)

\* Checks that are listed with the entity they read.
TemperatureChecks == {"temperature_limit", "thermostat"}

(* A check of a policy is a copy of a listed source but for what it checks.   *)
ChecksAreCopies(rows) ==
    /\ None \notin DOMAIN rows
    /\ \A i \in DOMAIN rows : rows[i].source # None =>
           LET s == rows[i].source
           IN  /\ rows[i].policy # None
               /\ s \in DOMAIN rows /\ rows[s].source = None /\ rows[s].devices = rows[i].devices
               /\ rows[s].kind \notin TemperatureChecks

\* The row of an entity itself, which a temperature check belongs to.
EntityRow(d, entity) ==
    {i \in DOMAIN d.rows : d.rows[i].kind = "entity" /\ d.rows[i].policy = None
                           /\ d.rows[i].entity = entity}

CanonicalId(d, i) ==
    LET row == d.rows[i]
        entity == EntityRow(d, row.entity)
    IN  IF row.source # None THEN row.source
        ELSE IF row.kind \in TemperatureChecks /\ entity # {} THEN First(entity) ELSE i

Aliases(d, s) == {i \in DOMAIN d.rows : d.canonical[i] = s}

Watched(d, i) == d.rows[i].watched /\ i \notin d.off

(* The canonical sources, each with its aliases and its checks; without       *)
(* disabled ones unless `showDisabled`.                                       *)
Sources(d, showDisabled) ==
    LET source(s) == LET rows == Aliases(d, s)
                     IN  d.rows[IF s \in rows THEN s ELSE First(rows)]
        ids == Range(d.canonical)
    IN  [s \in {s \in ids : showDisabled \/ ~source(s).disabled} |-> source(s)]

OfKind(c, kinds) == {s \in DOMAIN c : c[s].kind \in kinds}
DeviceOf(row) == IF row.devices = <<>> THEN None ELSE Head(row.devices)
Devices(c, sources) == {DeviceOf(c[s]) : s \in sources} \ {None}
Readings == {"entity", "battery", "vacuum"}

----------------------------------------------------------------------------
(* Nodes. *)

SourceKey(s) == <<"source", s>>
Node(path, s) == [path |-> path, source |-> s, connection |-> None]
Leaf(path, s) == Node(Append(path, SourceKey(s)), s)
Leaves(path, sources) == {Leaf(path, s) : s \in sources}
Key(node) == Last(node.path)

\* A device with the readings under it, named after its summary row if it has one.
DeviceNodes(c, path, device, summaries, readings, connection) ==
    LET summary == {s \in summaries : DeviceOf(c[s]) = device}
        key == IF summary = {} THEN <<"device", device>> ELSE SourceKey(First(summary))
        at == Append(path, key)
    IN  {[path |-> at, source |-> IF summary = {} THEN None ELSE First(summary),
          connection |-> connection]}
        \cup Leaves(at, {s \in readings : DeviceOf(c[s]) = device})

\* A titled list at the top of the tree, left out when it is empty.
Section(id, sources) ==
    IF sources = {} THEN {}
    ELSE {Node(<<<<"section", id>>>>, None)} \cup Leaves(<<<<"section", id>>>>, sources)

----------------------------------------------------------------------------
(* By integration: the connections of one domain are a family. *)

Connections(c) == OfKind(c, {"integration"})
Readable(c) == OfKind(c, Readings \cup {"lock", "ups"})
GroupOf(c, s) == IF c[s].owner \in Connections(c) THEN c[s].owner ELSE None
Grouped(c, groups) == {s \in Readable(c) : GroupOf(c, s) \in groups}

\* A device belongs to the groups of its readings, or to its own without any.
GroupDevices(c, groups) ==
    LET summaries == {s \in OfKind(c, {"device"}) : DeviceOf(c[s]) \notin Devices(c, Readable(c))
                                                    /\ GroupOf(c, s) \in groups}
    IN  Devices(c, Grouped(c, groups) \cup summaries)

FamilyOf(c, group) ==
    CASE group = None -> "other"
      [] group # None /\ c[group].domain # None -> c[group].domain
      [] OTHER -> group

FamilyNodes(d, c, groups) ==
    LET entries == groups \ {None}
        single == Cardinality(entries) = 1
        devices == GroupDevices(c, groups)
        Loose(some) == {s \in Grouped(c, some) : DeviceOf(c[s]) = None}
        Owned(e) == {v \in devices : v \in DOMAIN d.registry /\ d.registry[v] = e}
        summaries == OfKind(c, {"device"})
        Summarised(v) == \E s \in summaries : DeviceOf(c[s]) = v
        Paired(e) == /\ Loose({e}) = {}
                     /\ \E v \in devices : Owned(e) = {v} /\ Summarised(v)
        root == IF single THEN Node(<<SourceKey(First(entries))>>, First(entries))
                ELSE Node(<<<<"family", FamilyOf(c, CHOOSE g \in groups : TRUE)>>>>, None)
        Under(path, v, connection) ==
            DeviceNodes(c, path, v, summaries, Grouped(c, groups), connection)
        Connection(e) ==
            IF Paired(e) THEN Under(root.path, CHOOSE v \in Owned(e) : TRUE, e)
            ELSE LET own == Leaf(root.path, e)
                 IN  {own} \cup Leaves(own.path, Loose({e}))
                     \cup UNION {Under(own.path, v, None) : v \in Owned(e)}
    IN  {root} \cup
        IF Cardinality(entries) > 1
        THEN (UNION {Connection(e) : e \in entries}) \cup Leaves(root.path, Loose(groups \ entries))
             \cup UNION {Under(root.path, v, None) :
                         v \in {v \in devices : \A e \in entries : v \notin Owned(e)}}
        ELSE LET pair == single /\ Paired(First(entries)) /\ Cardinality(devices) = 1
             IN  Leaves(root.path, Loose(groups))
                 \cup UNION {Under(root.path, v, IF pair THEN First(entries) ELSE None) : v \in devices}

IntegrationTree(d, c) ==
    LET stray == Grouped(c, {None}) # {} \/ GroupDevices(c, {None}) # {}
        groups == Connections(c) \cup IF stray THEN {None} ELSE {}
    IN  UNION {FamilyNodes(d, c, {g \in groups : FamilyOf(c, g) = f}) :
               f \in {FamilyOf(c, g) : g \in groups}}

----------------------------------------------------------------------------
(* By Home Assistant location: floors list their areas, areas their sources. *)

Located(c) == OfKind(c, Readings \cup {"device", "lock"})
InArea(d, c, area) == {s \in Located(c) : area \in Range(c[s].areas)}
Unplaced(d, c) == {s \in Located(c) : Range(c[s].areas) \cap DOMAIN d.areas = {}}

\* The devices the registry names, with their readings, and everything else.
PlaceNodes(d, c, path, place, sources) ==
    LET at == Append(path, place)
        known == Devices(c, sources) \cap DOMAIN d.registry
        readings == {s \in sources : c[s].kind \in Readings}
    IN  {Node(at, None)}
        \cup Leaves(at, {s \in readings : DeviceOf(c[s]) \notin known})
        \cup UNION {DeviceNodes(c, at, v, {s \in sources : c[s].kind = "device"}, readings, None) : v \in known}

AreaNodes(d, c, path, areas) ==
    UNION {PlaceNodes(d, c, path, <<"area", a>>, InArea(d, c, a)) : a \in areas}

ConnectionSection(c) == Section("connections", Connections(c))

LocationTree(d, c) ==
    LET On(floor) == {a \in DOMAIN d.areas : d.areas[a] = floor}
        floorless == {a \in DOMAIN d.areas : d.areas[a] \notin d.floors}
    IN  (UNION {{Node(<<<<"floor", f>>>>, None)} \cup AreaNodes(d, c, <<<<"floor", f>>>>, On(f)) : f \in d.floors})
        \cup (IF floorless = {} THEN {}
              ELSE {Node(<<<<"group", "floorless">>>>, None)}
                   \cup AreaNodes(d, c, <<<<"group", "floorless">>>>, floorless))
        \cup (IF Unplaced(d, c) = {} THEN {}
              ELSE PlaceNodes(d, c, <<>>, <<"group", "unassigned">>, Unplaced(d, c)))
        \cup ConnectionSection(c)

----------------------------------------------------------------------------
(* By TopoMation location: a list of [id, parent, area, entities] records. *)

Locations(t) == {t[i].id : i \in DOMAIN t}
LocationOf(t, id) == t[CHOOSE i \in DOMAIN t : t[i].id = id]

\* The locations above one, itself first, as far as the list goes.
Above(t, id) ==
    LET up[n \in 0..Len(t)] ==
            IF n = 0 THEN <<id>>
            ELSE LET parent == LocationOf(t, Last(up[n - 1])).parent
                 IN  IF parent \in Locations(t) THEN Append(up[n - 1], parent) ELSE up[n - 1]
    IN  up[Len(t)]

\* A list with a repeated identity or a cycle is refused as a whole.
Usable(t) ==
    /\ t # <<>>
    /\ Cardinality(Locations(t)) = Len(t)
    /\ \A id \in Locations(t) : IsInjective(Above(t, id))

\* The location that names the entity, or the first one of an area of the source.
LocationFor(c, t, s) ==
    LET First1(P(_)) == {i \in DOMAIN t : P(t[i]) /\ \A j \in 1..(i - 1) : ~P(t[j])}
        named == First1(LAMBDA l : c[s].entity \in l.entities)
        OfArea(a) == First1(LAMBDA l : l.area = a)
        mapped == {k \in DOMAIN c[s].areas : OfArea(c[s].areas[k]) # {}}
    IN  CASE named # {} -> t[CHOOSE i \in named : TRUE].id
          [] named = {} /\ mapped # {} ->
               t[CHOOSE i \in OfArea(c[s].areas[CHOOSE k \in mapped : \A m \in mapped : k <= m]) : TRUE].id
          [] OTHER -> None

TopologyTree(c, t) ==
    LET placed == OfKind(c, Readings \cup {"device"})
        PathTo(id) == [i \in DOMAIN Above(t, id) |-> <<"location", Reverse(Above(t, id))[i]>>]
        AtLocation(id) ==
            LET sources == {s \in placed : LocationFor(c, t, s) = id}
                readings == {s \in sources : c[s].kind # "device"}
            IN  {Node(PathTo(id), None)}
                \cup Leaves(PathTo(id), {s \in sources : DeviceOf(c[s]) = None})
                \cup UNION {DeviceNodes(c, PathTo(id), v, sources \ readings, readings, None) :
                            v \in Devices(c, sources)}
    IN  (UNION {AtLocation(id) : id \in Locations(t)})
        \cup Section("unassigned", {s \in placed : LocationFor(c, t, s) = None})
        \cup ConnectionSection(c)

----------------------------------------------------------------------------
(* The whole tree, with a place for whatever its grouping leaves out. *)

Listed(d, nodes) ==
    UNION {UNION {Aliases(d, s) \cup {s} : s \in {n.source, n.connection}} : n \in nodes}

GroupedTree(d, c, grouping, t) ==
    CASE grouping = "integration" -> IntegrationTree(d, c)
      [] grouping = "topomation" /\ Usable(t) -> TopologyTree(c, t)
      [] OTHER -> LocationTree(d, c)

\* A variant: only the kinds with a section of their own are added.
TreeWithoutOthers(d, grouping, t, showDisabled) ==
    LET c == Sources(d, showDisabled)
        grouped == GroupedTree(d, c, grouping, t)
        Rest(kinds) == {s \in OfKind(c, kinds) : s \notin Listed(d, grouped)}
    IN  grouped \cup Section("situations", Rest({"situation"}))
        \cup Section("automations", Rest({"broken_automation"}))
        \cup Section("repairs", Rest({"repair"}))

Tree(d, grouping, t, showDisabled) ==
    LET c == Sources(d, showDisabled)
        grouped == GroupedTree(d, c, grouping, t)
        Rest(nodes, kinds) == {s \in OfKind(c, kinds) : s \notin Listed(d, nodes)}
        named == grouped \cup Section("situations", Rest(grouped, {"situation"}))
                 \cup Section("automations", Rest(grouped, {"broken_automation"}))
                 \cup Section("repairs", Rest(grouped, {"repair"}))
    IN  named \cup Section("other", DOMAIN c \ Listed(d, named))

----------------------------------------------------------------------------
(* Finding a selection in a tree. *)

\* TopoMation's locations come before what is in the one they share.
Position(key) == Index(key[2]) + IF key[1] = "location" THEN 0 ELSE Len(Order) + 1

\* Nodes are met parents first and lists in the order of their names.
Before(p, q) ==
    \/ IsStrictPrefix(p, q)
    \/ \E i \in DOMAIN p \cap DOMAIN q :
         /\ SubSeq(p, 1, i - 1) = SubSeq(q, 1, i - 1)
         /\ Position(p[i]) < Position(q[i])

\* A node answers to its key and its aliases, and for its connection to that one's.
Answers(d, node) ==
    [key |-> Key(node), names |-> {Key(node)} \cup {SourceKey(i) : i \in Aliases(d, node.source)}]
ConnectionAnswers(d, node) ==
    [key |-> SourceKey(node.connection),
     names |-> {SourceKey(i) : i \in Aliases(d, node.connection) \cup {node.connection}}]

NoPlace == [key |-> None, source |-> None, parents |-> <<>>]

\* Where a selection is: its key in this tree, its source and the nodes above it.
Find(d, tree, selection) ==
    LET Direct(n) == selection \in Answers(d, n).names
        hits == {n \in tree : Direct(n)
                     \/ (n.connection # None /\ selection \in ConnectionAnswers(d, n).names)}
    IN  IF hits = {} THEN NoPlace
        ELSE LET n == CHOOSE n \in hits : \A m \in hits : m = n \/ ~Before(m.path, n.path)
                 key == IF Direct(n) THEN Key(n) ELSE SourceKey(n.connection)
             IN  [key |-> key, source |-> IF Direct(n) THEN n.source ELSE n.connection,
                  parents |-> Front(n.path)]

\* What a node and everything under it stands for, to tell whose issues it has.
SourceIds(d, tree, path) ==
    Listed(d, {n \in tree : IsPrefix(path, n.path)}) \ {None}

----------------------------------------------------------------------------
(* Coverage: whether a watched check, or one that reads it, is about a source.*)

ActiveChecks(d) ==
    {i \in DOMAIN d.rows :
        LET row == d.rows[i]
            s == IF row.source = None THEN i ELSE row.source
        IN  /\ Watched(d, i) /\ ~row.disabled /\ row.kind # "device"
            /\ s \in DOMAIN d.rows => ~d.rows[s].disabled}

Covers(d, i, s, row) ==
    LET check == d.rows[i]
    IN  \/ i \in Aliases(d, s) \/ check.source = s
        \/ row.kind = "device" /\ check.kind # "integration" /\ DeviceOf(check) = DeviceOf(row)
           /\ DeviceOf(row) # None
        \/ row.kind = "entity" /\ row.entity # None /\ row.entity \in {check.entity} \cup check.inputs

Monitored(d, s, row) == ~row.disabled /\ \E i \in ActiveChecks(d) : Covers(d, i, s, row)

----------------------------------------------------------------------------
(* What the filters leave. *)

\* The nodes that pass, with the nodes above them.
Branches(tree, passing) == {n \in tree : \E m \in passing : IsPrefix(n.path, m.path)}

\* A match of a node matches everything under it too.
SearchMatches(tree, hits, n) ==
    \E m \in tree : IsPrefix(m.path, n.path) /\ {m.source, m.connection} \cap hits # {}

Filtered(d, tree, c, filter) ==
    LET About(n) == {n.source, n.connection} \cap DOMAIN c
        found == Branches(tree, {n \in tree :
                    /\ filter.query # None => SearchMatches(tree, {filter.query}, n)
                    /\ filter.review => About(n) \cap filter.issues # {}})
        wanted == {s \in DOMAIN c : Monitored(d, s, c[s]) = (filter.monitoring = "monitored")}
        status == IF filter.monitoring = "all" THEN found
                  ELSE Branches(found, {n \in found : About(n) \cap wanted # {}})
    IN  IF filter.excludedOnly THEN Branches(status, {n \in status : n.source \in filter.excluded})
        ELSE status
=============================================================================
