---------------------------- MODULE MCSelection ----------------------------
(* A lock and a temperature sensor on one device, a diagnostic lock, a window *)
(* in an area, a disk, an integration, and two checks of one UPS; catalogs    *)
(* that lose or disable some of them; the policies the code creates or keeps  *)
(* from older versions.                                                       *)
EXTENDS SourceSelection, TLC

None == [f \in {"domain", "device_class", "area", "label", "device", "integration",
                "entity", "entity_category"} |-> {}]
Entity(id, domain, class, area, device, category) ==
    [kind |-> "entity", check |-> "availability",
     attributes |-> [None EXCEPT !["domain"] = {domain}, !["device_class"] = class,
                       !["area"] = area, !["device"] = device,
                       !["integration"] = {"i1"}, !["entity"] = {id}, !["entity_category"] = category]]
Ups(check) ==
    [kind |-> "ups", check |-> check, attributes |-> [None EXCEPT !["device"] = {"u"}]]

MCCandidate ==
    "e1" :> Entity("e1", "lock", {}, {"a"}, {"d"}, {})
    @@ "e2" :> Entity("e2", "sensor", {"temperature"}, {}, {"d"}, {})
    @@ "e3" :> Entity("e3", "lock", {}, {}, {}, {"diagnostic"})
    @@ "e4" :> Entity("e4", "binary_sensor", {"window"}, {"a"}, {}, {})
    @@ "h" :> [Entity("h", "sensor", {}, {}, {}, {}) EXCEPT !.check = "host_storage"]
    @@ "i1" :> [kind |-> "integration", check |-> "availability",
                attributes |-> [None EXCEPT !["integration"] = {"i1"}]]
    @@ "p" :> Ups("ups_power")
    @@ "f" :> Ups("ups_fault")

MCCatalogs ==
    {[present |-> DOMAIN MCCandidate, disabled |-> {}],
     [present |-> DOMAIN MCCandidate \ {"e1", "i1"}, disabled |-> {"e4"}]}

Base == [check |-> "availability", kind |-> "entity", match |-> NoMatch,
         matchAny |-> {}, matchNone |-> {}, included |-> {}, excluded |-> {}]
Locks == "domain" :> {"lock"}
MCPolicies ==
    {Base,
     [Base EXCEPT !.match = Locks],
     [Base EXCEPT !.matchAny = {Locks}],
     [Base EXCEPT !.matchNone = {Locks}, !.excluded = {"d:d"}],
     [Base EXCEPT !.match = "entity" :> {"e1", "e3"}],
     [Base EXCEPT !.match = "area" :> {"a"}, !.included = {"e3"}],
     [Base EXCEPT !.check = "entity_not_provided"],
     [Base EXCEPT !.check = "temperature_limit", !.excluded = {"d:d"}],
     [Base EXCEPT !.check = "left_open", !.match = "entity" :> {"e4"}],
     [Base EXCEPT !.check = "host_storage", !.match = "entity" :> {}],
     [Base EXCEPT !.kind = "integration"],
     [Base EXCEPT !.kind = "ups", !.check = "ups_power"]}

MCCategories == {Locks}
MCExcluding == "d" :> "d:d" @@ "u" :> "d:u"
MCGroups == "area" :> {"a", "b"}
MCSearches == {{"e1", "e4"}}
=============================================================================
