---------------------------- MODULE MCWorkspace -----------------------------
(* A home with two connections of one integration: hub, which has a lamp with *)
(* a summary and two readings, and spare, which has a sensor in another area. *)
(* One list has the spare connection disabled, and one has another instead,   *)
(* of an integration that reads the lamp's signal too.                        *)
EXTENDS Workspace

Row(kind, entity, owner, devices, areas) ==
    [kind |-> kind, source |-> None, entity |-> entity, owner |-> owner, domain |-> None,
     devices |-> devices, areas |-> areas, disabled |-> FALSE, watched |-> FALSE,
     policy |-> None, inputs |-> {}, check |-> None]
CheckOf(row, s, policy) ==
    [row EXCEPT !.source = s, !.policy = policy, !.watched = TRUE, !.check = "availability"]
Connection(domain) == [Row("integration", None, None, <<>>, <<>>) EXCEPT
                          !.domain = domain, !.watched = TRUE, !.check = "availability"]

Light == Row("entity", "light", "hub", <<"lamp">>, <<"hall">>)
Power == Row("entity", "power", "hub", <<"lamp">>, <<"hall">>)
Warmth == Row("entity", "warmth", "spare", <<"sensor">>, <<"yard">>)
HomeRows ==
    [hub |-> Connection("hue"), spare |-> Connection("hue"),
     lamprow |-> Row("device", None, "hub", <<"lamp">>, <<"hall">>),
     light |-> Light, light_check |-> CheckOf(Light, "light", "lights"),
     power |-> Power, power_check |-> CheckOf(Power, "power", "lights"),
     warmth |-> Warmth, warmth_check |-> CheckOf(Warmth, "warmth", "climate"),
     limit |-> [Row("temperature_limit", "warmth", "spare", <<"sensor">>, <<"yard">>) EXCEPT
                   !.watched = TRUE, !.check = "temperature"],
     away |-> [Row("situation", None, None, <<>>, <<>>) EXCEPT !.watched = TRUE, !.inputs = {"light"}],
     notice |-> [Row("repair", None, "hub", <<>>, <<>>) EXCEPT !.watched = TRUE],
     gone |-> [CheckOf(Power, "power", "missing") EXCEPT !.kind = "entity_not_provided",
                                                        !.check = "entity_not_provided"],
     thermostat |-> [Row("thermostat", "climate", "spare", <<"sensor">>, <<"yard">>) EXCEPT !.watched = TRUE]]

AllRows == ("mesh" :> Connection("zwave")) @@
           ("signal" :> Row("entity", "signal", "mesh", <<"lamp">>, <<"hall">>)) @@ HomeRows

Home == [rows |-> HomeRows, registry |-> [lamp |-> "hub", sensor |-> "spare"],
         areas |-> [hall |-> "ground", yard |-> None], floors |-> {"ground"}]
Hidden == [Home EXCEPT !.rows.spare.disabled = TRUE, !.rows.spare.watched = FALSE]
Lost == [Home EXCEPT !.rows = [i \in DOMAIN AllRows \ {"spare"} |-> AllRows[i]],
                     !.registry = [lamp |-> "hub"], !.areas = [hall |-> "ground"]]
MCInventories == [home |-> Home, hidden |-> Hidden, lost |-> Lost]

Place1 == [id |-> "house", parent |-> None, area |-> None, entities |-> {}]
Place2 == [id |-> "room", parent |-> "house", area |-> "hall", entities |-> {"warmth"}]
MCResponses == {<<>>, <<Place1, Place2>>, <<[Place1 EXCEPT !.parent = "room"], Place2>>}

Report(status, reason, failed) == [status |-> status, reason |-> reason, failed |-> failed]
Finding(id, check, status, reason) == [node |-> id, check |-> check, status |-> status, reason |-> reason]
Down(id) == Finding(id, "availability", "fail", "unavailable")
Issue(id, anchor, recorded, reasons, status) ==
    [id |-> id, anchor |-> anchor, recorded |-> recorded, reasons |-> reasons, status |-> status]

Calm == [i \in DOMAIN AllRows |-> CASE i \in {"hub", "spare"} -> Report("pass", "loaded", FALSE)
                                     [] OTHER -> None]
Failed(ids) == [i \in ids |-> Report("fail", "unavailable", TRUE)]
MCEvidence ==
    [calm |-> [current |-> Calm, issues |-> {}],
     outage |->
       [current |-> ("gone" :> Report("warn", "entity_not_provided", TRUE))
                    @@ Failed({"light_check", "warmth_check"}) @@ Calm,
        issues |-> {Issue("lost", "gone", {}, {Finding("gone", "entity_not_provided", "warn", "entity_not_provided")},
                          "warn"),
                    Issue("dark", "light_check", {"power_check"}, {Down("light_check")}, "fail"),
                    Issue("cold", "warmth_check", {}, {Down("warmth_check")}, "fail"),
                    Issue("hubs", "hub", {}, {Down("light_check"), Down("warmth_check")}, "warn")}],
     mixed |->
       [current |-> ("limit" :> Report("unknown", "stale", TRUE))
                    @@ ("warmth_check" :> Report("pass", "available", TRUE)) @@ ("light_check" :> Report("unknown", "stale", FALSE)) @@ Calm,
        issues |-> {Issue("lost", "gone", {}, {Finding("gone", "entity_not_provided", "warn", "entity_not_provided")},
                          "warn"),
                    Issue("dark", "light_check", {}, {Finding("light_check", "availability", "unknown", "stale")}, "unknown"),
                    Issue("lag", "hub", {"warmth_check"}, {Down("power_check")}, "warn"),
                    Issue("stuck", "hub", {"limit"},
                          {Finding("power_check", "availability", "warn", "disconnected")}, "warn"),
                    Issue("hot", "limit", {"light_check"}, {Finding("limit", "temperature", "fail", "too_high")}, "fail"),
                    Issue("fix", "notice", {}, {Finding("notice", "repair", "warn", "reported")}, "warn")}]]

On == [light |-> "on", power |-> "on", warmth |-> "on"]
MCQueries == {"power", "spare"}
BothDown == [On EXCEPT !.light = "unavailable", !.warmth = "unavailable"]
LampDown == [On EXCEPT !.light = "unavailable"]
MCStates == {BothDown, LampDown}
Opening(i, e, excluded, b, r, a, c) ==
    [inventory |-> i, evidence |-> e, live |-> BothDown,
     excluded |-> [lights |-> excluded, climate |-> {}],
     left |-> [browse |-> b, replies |-> r, acts |-> a, changes |-> c]]
MCOpenings ==
    {Opening("home", "outage", {}, 2, 1, 0, 0), Opening("hidden", "mixed", {}, 1, 1, 0, 0),
     Opening("lost", "calm", {}, 2, 0, 0, 0),
     Opening("lost", "outage", {}, 1, 1, 0, 1), Opening("home", "mixed", {}, 0, 0, 3, 1),
     Opening("home", "outage", {"power"}, 0, 0, 4, 0), Opening("home", "outage", {}, 0, 0, 4, 1)}
MCScopes == {None, {"dark"}}
MCPolicies == {"lights", "climate"}
MCOrder == <<"hue", "hub", "zwave", "mesh", "signal", "spare", "lamprow", "light", "light_check", "power", "power_check", "gone", "warmth",
             "warmth_check", "limit", "away", "notice", "thermostat", "lamp", "sensor", "hall", "yard", "ground",
             "house", "room", "other", "unassigned", "floorless", "connections", "situations",
             "automations", "repairs">>
=============================================================================
