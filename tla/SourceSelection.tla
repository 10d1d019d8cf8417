-------------------------- MODULE SourceSelection --------------------------
(* Choosing the sources of a monitoring policy (source-selection.mjs and      *)
(* entity-selection.mjs).  A draft policy holds a scope (match, match_any,    *)
(* match_none), exact references inside it, and lists of included and         *)
(* excluded identities.  The editor shows one list made of the current        *)
(* catalog and of the saved choices the catalog does not have, and every      *)
(* control rewrites the draft; the integration's CatalogRule (rules.py)       *)
(* decides later, from the saved policy, what is monitored.                   *)
(*                                                                            *)
(* A match is a function from the fields it restricts to the accepted         *)
(* values, as in the code.  Names, sorting and wording are left out, labels   *)
(* are one more grouping field like areas, and the reference of a source is   *)
(* the identity of the row that stands for it when it is missing.             *)
EXTENDS FiniteSets, Functions

CONSTANTS
    Candidate,    \* identity -> [kind, check, attributes], what a source is
    Catalogs,     \* what the catalog may hold: [present, disabled] identities
    Policies,     \* the policies a draft starts from
    Categories,   \* the scopes of the named source categories
    Excluding,    \* device -> the identity that excludes the whole device
    Groups,       \* grouping field -> the areas or labels offered
    Searches      \* the sets of identities a search text may leave

VARIABLES policy, catalog, ready, browse
vars == <<policy, catalog, ready, browse>>

Identity == DOMAIN Candidate
NoMatch == [f \in {} |-> {}]
Everything == [hits |-> Identity \cup (UNION {p.included \cup p.excluded : p \in Policies})
                        \cup Range(Excluding) \cup UNION {UNION Range(p.match) : p \in Policies},
               monitoredOnly |-> FALSE]

----------------------------------------------------------------------------
(* What a policy selects, as the editor computes it. *)

Attributes(s) == Candidate[s].attributes
Matches(match, attributes) == \A f \in DOMAIN match : match[f] \cap attributes[f] # {}

Field(p) == CASE p.kind = "integration" -> "integration"
              [] p.kind = "ups" -> "device"
              [] OTHER -> "entity"
Exact(p) == IF Field(p) \in DOMAIN p.match THEN p.match[Field(p)] ELSE {}
Refs(p, s) == Attributes(s)[Field(p)]
Saved(p) == p.included \cup p.excluded
Without(match, fields) == Restrict(match, DOMAIN match \ fields)

EntityPolicy(p) == p.kind = "entity" /\ p.check = "availability"
DeviceExcluded(p, s) == \E d \in Attributes(s)["device"] : Excluding[d] \in p.excluded

\* A variant: an excluded device outweighs an inclusion of its entity.
EntitySelectedDeviceFirst(p, s) ==
    /\ s \notin p.excluded /\ ~DeviceExcluded(p, s)
    /\ s \in p.included
       \/ (Matches(p.match, Attributes(s)) /\ p.matchAny = {} /\ p.matchNone = {})

(* An exclusion first, then an inclusion, an excluded device, the rule that   *)
(* diagnostics are only monitored by reference, and the scope last.           *)
EntitySelected(p, s) ==
    /\ s \notin p.excluded
    /\ s \in p.included
       \/ /\ ~DeviceExcluded(p, s)
          /\ (p.check = "entity_not_provided" \/ Attributes(s)["entity_category"] = {}
              \/ "entity" \in DOMAIN p.match)
          /\ Matches(p.match, Attributes(s))
          /\ (p.matchAny = {} \/ \E m \in p.matchAny : Matches(m, Attributes(s)))
          /\ \A m \in p.matchNone : ~Matches(m, Attributes(s))

ListSelected(p, s) ==
    /\ s \notin p.excluded
    /\ ~DeviceExcluded(p, s)
    /\ Matches(p.match, Attributes(s))

Tree(p) == p.kind = "entity" /\ p.check \in {"availability", "entity_not_provided"}

(* Every source of the list has a reference in the field of its kind, and no  *)
(* other source of its kind has it: the checks of one UPS share its device,   *)
(* with the attributes of that device.  What excludes a device is no source   *)
(* of the list.                                                               *)
ASSUME CandidatesAssumption ==
    /\ \A s \in Identity : Refs(Candidate[s], s) # {}
    /\ \A s, t \in Identity :
          Candidate[s].kind = Candidate[t].kind /\ Refs(Candidate[s], s) \cap Refs(Candidate[s], t) # {}
            => s = t \/ (Candidate[s].kind = "ups" /\ Attributes(s) = Attributes(t))
    /\ \A s \in Identity : \A d \in Attributes(s)["device"] : Excluding[d] \notin Identity

(* A catalog lists sources; they are grouped by area and by label.            *)
ASSUME CatalogsAssumption == \A c \in Catalogs : c.present \subseteq Identity
ASSUME GroupsAssumption == DOMAIN Groups \subseteq {"area", "label"}

(* What parse_policies accepts: inclusions belong to the two entity checks,   *)
(* alternatives to entity availability.                                       *)
Accepted(p) ==
    /\ p = [f \in {"check", "kind", "match", "matchAny", "matchNone", "included", "excluded"} |-> p[f]]
    /\ p.match = [f \in DOMAIN p.match |-> p.match[f]]
    /\ ~Tree(p) => p.included = {}
    /\ ~EntityPolicy(p) => p.matchAny = {} /\ p.matchNone = {}

(* The editor limits future sources in one way at a time, and the policies    *)
(* that come with the integration in none or one.                             *)
OneLimit(p) ==
    \A f, g \in {"area", "label", Field(p)} \cap DOMAIN p.match : f = g

ASSUME PoliciesAssumption == \A p \in Policies : Accepted(p) /\ OneLimit(p)

Selected(p, s) == IF Tree(p) THEN EntitySelected(p, s) ELSE ListSelected(p, s)

(* The category a saved scope stands for; the empty match is "any".           *)
Category(p) ==
    LET typed == {"domain", "device_class"}
        scope == IF p.matchAny = {} THEN Restrict(p.match, DOMAIN p.match \cap typed)
                 ELSE CHOOSE m \in p.matchAny : TRUE
        plain == /\ EntityPolicy(p) /\ p.matchNone = {}
                 /\ Cardinality(p.matchAny) <= 1
                 /\ (p.matchAny # {} => DOMAIN p.match \cap typed = {})
    IN IF plain /\ scope \in Categories THEN scope ELSE NoMatch

(* Which of the two editors a policy opens in.                                *)
InTree(p) == Tree(p) /\ Category(p) = NoMatch

FutureMode(p) ==
    IF "area" \in DOMAIN p.match THEN "area"
    ELSE IF "label" \in DOMAIN p.match THEN "label"
    ELSE IF Field(p) \in DOMAIN p.match THEN "selected" ELSE "all"

----------------------------------------------------------------------------
(* The rows the list shows: sources of the catalog, and saved choices whose   *)
(* source is not there.                                                       *)

(* What a check can be made of, as the list sees it.                          *)
HostChecks == {"host_storage", "host_memory", "host_io", "host_cpu"}
OpeningClasses == {"door", "window", "garage_door", "opening"}
Suits(p, s) ==
    /\ Candidate[s].kind = p.kind
    /\ p.check \in HostChecks => Candidate[s].check = p.check
    /\ p.check = "thermostat" => "climate" \in Attributes(s)["domain"]
    /\ p.check = "temperature_limit" => "temperature" \in Attributes(s)["device_class"]
    /\ p.check = "left_open" => /\ "binary_sensor" \in Attributes(s)["domain"]
                                /\ OpeningClasses \cap Attributes(s)["device_class"] # {}
Eligible(p) == {s \in catalog.present : Suits(p, s)}
Scope(p) == Without(p.match, {Field(p)})
InScope(p, s) == Matches(Scope(p), Attributes(s))

TreeRows(p) == Eligible(p)
FlatRows(p) ==
    {s \in Eligible(p) : \/ s \in Saved(p)
                       \/ Exact(p) \cap Refs(p, s) # {}
                       \/ IF EntityPolicy(p)
                          THEN Matches(Category(p), Attributes(s)) \/ Selected(p, s)
                          ELSE InScope(p, s)}
Rows(p) == IF InTree(p) THEN TreeRows(p) ELSE FlatRows(p)

MissingRows(p) ==
    LET unknown == {r \in Exact(p) : \A s \in Eligible(p) : r \notin Refs(p, s)}
    IN (Saved(p) \ (IF EntityPolicy(p) \/ InTree(p) THEN Eligible(p) ELSE Rows(p))) \cup unknown

Visible(p, s) == s \in browse.hits /\ (browse.monitoredOnly => Selected(p, s))
Enabled(s) == s \notin catalog.disabled

(* The rows whose box can be ticked.                                          *)
Choosable(p) ==
    {s \in Rows(p) : /\ Visible(p, s) /\ Enabled(s)
                     /\ (~Tree(p) => InScope(p, s) /\ ~DeviceExcluded(p, s))}

----------------------------------------------------------------------------
(* What a control does to the draft. *)

\* A variant: a ticked row is included without lifting its exclusion.
ChosenOverExceptions(p, rows, on) ==
    LET needed == {s \in rows : EntitySelected(p, s) # on}
    IN IF on THEN [p EXCEPT !.included = @ \cup needed]
       ELSE [p EXCEPT !.excluded = @ \cup needed]

(* Only an exception that is needed is kept.                                  *)
ChosenEntities(p, rows, on) ==
    LET bare == [p EXCEPT !.included = @ \ rows, !.excluded = @ \ rows]
        needed == {s \in rows : EntitySelected(bare, s) # on}
    IN IF on THEN [bare EXCEPT !.included = @ \cup needed]
       ELSE [bare EXCEPT !.excluded = @ \cup needed]

ChosenInList(p, s, on) ==
    LET bare == [p EXCEPT !.excluded = @ \ {s}] IN
    IF Field(p) \in DOMAIN p.match
    THEN [bare EXCEPT !.match[Field(p)] = IF on THEN @ \cup Refs(p, s) ELSE @ \ Refs(p, s)]
    ELSE IF on THEN bare ELSE [bare EXCEPT !.excluded = @ \cup {s}]

Forgotten(p, id) ==
    LET refs == {id} \cup (IF id \in Eligible(p) THEN Refs(p, id) ELSE {})
        bare == [p EXCEPT !.included = @ \ {id}, !.excluded = @ \ {id}]
    IN IF Field(p) \in DOMAIN p.match
       THEN [bare EXCEPT !.match[Field(p)] = @ \ refs] ELSE bare

Members(p) == {s \in Rows(p) : Selected(p, s) /\ Enabled(s)}

Switched(p, mode) ==
    LET open == Without(p.match, {"area", "label", Field(p)})
        kept == Exact(p) \cup UNION {Refs(p, s) : s \in Members(p)}
        limit == CASE mode = "selected" -> [f \in {Field(p)} |-> kept]
                   [] mode \in {"area", "label"} -> [f \in {mode} |-> {}]
                   [] OTHER -> NoMatch
    IN [p EXCEPT !.match = [f \in DOMAIN open \cup DOMAIN limit |->
                              IF f \in DOMAIN limit THEN limit[f] ELSE open[f]]]

----------------------------------------------------------------------------
(* The controls. *)

Rewrite(p) == policy' = p /\ UNCHANGED <<catalog, ready, browse>>

Tick(s, on) ==
    /\ ready /\ s \in Choosable(policy) /\ on # Selected(policy, s)
    /\ Rewrite(IF Tree(policy) THEN ChosenEntities(policy, {s}, on)
               ELSE ChosenInList(policy, s, on))

(* The box of a device or of an integration stands for the rows shown under   *)
(* it; it is on when all of them are, and a click turns it over.              *)
Branch(field, key) == {s \in Choosable(policy) : key \in Attributes(s)[field]}
TickBranch(field, key) ==
    LET rows == Branch(field, key) IN
    /\ ready /\ InTree(policy) /\ rows # {}
    /\ Rewrite(ChosenEntities(policy, rows, \E s \in rows : ~Selected(policy, s)))

Forgettable(p) ==
    MissingRows(p) \cup (IF Tree(p) THEN {} ELSE {s \in Rows(p) : ~InScope(p, s)})
Forget(id) ==
    /\ ready /\ id \in Forgettable(policy) /\ id \in browse.hits
    /\ (InTree(policy) /\ browse.monitoredOnly => id \notin policy.excluded)
    /\ Rewrite(Forgotten(policy, id))

ChoosesFuture(p) == ~InTree(p) /\ p.check \notin {"left_open"} \cup HostChecks
Modes(p) == {"selected", "all"} \cup (IF p.kind = "integration" THEN {} ELSE DOMAIN Groups)
Future(mode) ==
    /\ ready /\ ChoosesFuture(policy)
    /\ mode \in Modes(policy) /\ mode # FutureMode(policy)
    /\ Rewrite(Switched(policy, mode))

PickGroup(g) ==
    LET mode == FutureMode(policy) IN
    /\ ready /\ ChoosesFuture(policy) /\ mode \in DOMAIN Groups /\ g \in Groups[mode]
    /\ Rewrite([policy EXCEPT !.match[mode] = IF g \in @ THEN @ \ {g} ELSE @ \cup {g}])

(* Browsing and the catalog, which leave the draft alone.                     *)
Browse(hits, only) ==
    /\ browse' = [hits |-> hits, monitoredOnly |-> only]
    /\ UNCHANGED <<policy, catalog, ready>>

NewCatalog(c) ==
    /\ c # catalog /\ catalog' = c
    /\ ready' = TRUE
    /\ UNCHANGED <<policy, browse>>

CatalogStale ==
    /\ ready /\ ready' = FALSE
    /\ UNCHANGED <<policy, catalog, browse>>

CatalogCurrent ==
    /\ ~ready /\ ready' = TRUE
    /\ UNCHANGED <<policy, catalog, browse>>

Init ==
    /\ policy \in Policies
    /\ catalog \in Catalogs
    /\ ready = TRUE
    /\ browse = Everything

Next ==
    \/ \E s \in Identity, on \in BOOLEAN : Tick(s, on)
    \/ \E s \in Identity, f \in {"device", "integration"} :
          \E key \in Attributes(s)[f] : TickBranch(f, key)
    \/ \E id \in Everything.hits : Forget(id)
    \/ \E mode \in {"selected", "all"} \cup DOMAIN Groups : Future(mode)
    \/ \E g \in UNION Range(Groups) : PickGroup(g)
    \/ \E hits \in Searches \cup {Everything.hits}, only \in BOOLEAN : Browse(hits, only)
    \/ \E c \in Catalogs : NewCatalog(c)
    \/ CatalogStale \/ CatalogCurrent

Spec == Init /\ [][Next]_vars

----------------------------------------------------------------------------
(* What the integration will monitor once the policy is saved and enabled     *)
(* (CatalogRule.matches in rules.py), an independent reading of the policy.   *)

(* ordinary_sources, temperature_sources, left_open_sources and               *)
(* host_health_sources (monitoring_runtime.py) say what a check is made of; a *)
(* thermostat counts whatever mode it is in.                                  *)
Checked(p, s) ==
    LET has == Attributes(s) IN
    /\ Candidate[s].kind = p.kind
    /\ p.kind = "ups" \/ p.check \in HostChecks => Candidate[s].check = p.check
    /\ p.check = "thermostat" => has["domain"] = {"climate"}
    /\ p.check = "temperature_limit" =>
          has["domain"] = {"sensor"} /\ has["device_class"] = {"temperature"}
    /\ p.check = "left_open" =>
          has["domain"] = {"binary_sensor"} /\ OpeningClasses \cap has["device_class"] # {}

Monitors(p, s) ==
    IF s \in p.excluded THEN FALSE
    ELSE IF s \in p.included THEN TRUE
    ELSE IF \E d \in Attributes(s)["device"] : Excluding[d] \in p.excluded THEN FALSE
    ELSE IF /\ p.check = "availability" /\ Candidate[s].kind = "entity"
            /\ Attributes(s)["entity_category"] # {} /\ "entity" \notin DOMAIN p.match
         THEN FALSE
    ELSE /\ Matches(p.match, Attributes(s))
         /\ (p.matchAny # {} => \E m \in p.matchAny : Matches(m, Attributes(s)))
         /\ ~\E m \in p.matchNone : Matches(m, Attributes(s))

Monitored(p) == {s \in catalog.present : Checked(p, s) /\ Enabled(s) /\ Monitors(p, s)}

(* The list tells the truth: a box is ticked exactly when the integration     *)
(* will monitor that source under this draft, every monitored source has a    *)
(* row, and every saved exception and exact reference has a row from which    *)
(* it can be undone, however the scope was narrowed around it.                *)
ListIsTruthful ==
    /\ \A s \in Rows(policy) : Checked(policy, s) => (Selected(policy, s) <=> Monitors(policy, s))
    /\ Monitored(policy) \subseteq Rows(policy)
    /\ Saved(policy) \subseteq Rows(policy) \cup MissingRows(policy)
    /\ \A r \in Exact(policy) : r \in MissingRows(policy)
                                \/ \E s \in Rows(policy) : r \in Refs(policy, s)

(* A tick means one thing: what the integration monitors gains or loses the   *)
(* rows ticked, whatever exceptions, exact references and excluded devices    *)
(* the policy held, and nothing else moves; a branch box moves the rows shown *)
(* under it and none that the search hides.  Rows that share the reference    *)
(* of the ticked row (the checks of one UPS) move with it.  Switching to      *)
(* exact sources changes no membership at all.                                *)
Moved(rows, on) ==
    \A s \in {c \in catalog.present : Checked(policy, c) /\ Enabled(c)} :
        IF s \in rows THEN Monitors(policy', s) <=> on
        ELSE (\A r \in rows : Refs(policy, r) \cap Refs(policy, s) = {})
               => (Monitors(policy', s) <=> Monitors(policy, s))
TicksAreExact ==
    [][/\ \A s \in Identity, on \in BOOLEAN : Tick(s, on) => Moved({s}, on)
       /\ \A s \in Identity, f \in {"device", "integration"} :
             \A key \in Attributes(s)[f] : TickBranch(f, key) =>
                Moved(Branch(f, key), \E r \in Branch(f, key) : ~Selected(policy, r))
       /\ Future("selected") => Moved({}, TRUE)]_vars

(* "Browsing never changes membership", and a choice about a source is only   *)
(* undone from its own row while that row can be ticked: an exclusion or an   *)
(* inclusion of a source that is hidden by the search, disabled, or missing   *)
(* from the catalog for now outlives every control but its own removal.       *)
SavedChoicesKept ==
    [][\A id \in Saved(policy) \ Saved(policy') :
          Forget(id) \/ (ready /\ id \in Choosable(policy))]_vars

(* Put together: each control changes the membership it shows, and only that. *)
ChoicesExact == TicksAreExact /\ SavedChoicesKept
=============================================================================
