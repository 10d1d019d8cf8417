--------------------------- MODULE PagesSafety ---------------------------
(* Two parts of the pages of the panel, of which neither uses the other.      *)
(* The list of sources, for any sources, catalogs and policies the            *)
(* integration accepts: it is truthful, and every control changes the         *)
(* membership it shows and nothing else.  The navigation, for any links,      *)
(* issues, definitions and numbers of steps: what a page offers and shows     *)
(* belongs to its address.                                                    *)
EXTENDS SourceSelection, Navigation, TLAPS

----------------------------------------------------------------------------
(* The list of sources. *)

(* What every control keeps of the draft. *)
IInv ==
    /\ Accepted(policy) /\ OneLimit(policy)
    /\ catalog.present \subseteq Identity

----------------------------------------------------------------------------
(* Operators. *)

(* The box of a row and the rule of the integration read a policy alike.      *)
LEMMA SelectedIsMonitored ==
    ASSUME NEW p, Accepted(p), NEW s, Checked(p, s)
    PROVE  Selected(p, s) <=> Monitors(p, s)
<1>1. CASE Tree(p)
 <2>1. Selected(p, s) <=> EntitySelected(p, s) BY <1>1 DEF Selected
 <2>2. EntitySelected(p, s) <=> Monitors(p, s)
   BY <1>1 DEF EntitySelected, Monitors, Tree, Checked, DeviceExcluded
 <2> QED BY <2>1, <2>2
<1>2. CASE ~Tree(p)
 <2>1. Selected(p, s) <=> ListSelected(p, s) BY <1>2 DEF Selected
 <2>2. p.included = {} /\ p.matchAny = {} /\ p.matchNone = {}
   BY <1>2 DEF Accepted, EntityPolicy, Tree
 <2>3. ListSelected(p, s) <=> Monitors(p, s)
   BY <1>2, <2>2 DEF ListSelected, Monitors, Tree, Checked, DeviceExcluded
 <2> QED BY <2>1, <2>3
<1> QED BY <1>1, <1>2

(* A narrower match lets more through. *)
LEMMA MatchWithout ==
    ASSUME NEW match, NEW fields, NEW attributes, Matches(match, attributes)
    PROVE  Matches(Without(match, fields), attributes)
BY DEF Matches, Without, Restrict

(* Every source that will be monitored has a row. *)
LEMMA MonitoredHasRow ==
    ASSUME Accepted(policy)
    PROVE  Monitored(policy) \subseteq Rows(policy)
<1> SUFFICES ASSUME NEW s \in Monitored(policy) PROVE s \in Rows(policy) OBVIOUS
<1> DEFINE p == policy
<1>1. s \in Eligible(p) /\ Checked(p, s) /\ Monitors(p, s) BY DEF Monitored, Checked, Eligible, Suits
<1>2. Selected(p, s) BY <1>1, SelectedIsMonitored
<1>3. CASE InTree(p) BY <1>1, <1>3 DEF Rows, TreeRows
<1>4. CASE ~InTree(p)
 <2>1. CASE EntityPolicy(p) BY <1>1, <1>2, <1>4, <2>1 DEF Rows, FlatRows
 <2>2. CASE ~EntityPolicy(p)
  <3>1. ~Tree(p) BY <1>4, <2>2 DEF InTree, Category
  <3>2. Matches(p.match, Attributes(s)) BY <1>2, <3>1 DEF Selected, ListSelected
  <3>3. InScope(p, s) BY <3>2, MatchWithout DEF InScope, Scope
  <3> QED BY <1>1, <1>4, <2>2, <3>3 DEF Rows, FlatRows
 <2> QED BY <2>1, <2>2
<1> QED BY <1>3, <1>4

(* The list tells the truth about every draft the editor can hold. *)
LEMMA TruthfulList ==
    ASSUME Accepted(policy)
    PROVE  ListIsTruthful
<1> DEFINE p == policy
<1>1. ASSUME NEW s \in Rows(p), Checked(p, s)
      PROVE  Selected(p, s) <=> Monitors(p, s)
  BY <1>1, SelectedIsMonitored
<1>2. Monitored(p) \subseteq Rows(p) BY MonitoredHasRow
<1>3. Saved(p) \subseteq Rows(p) \cup MissingRows(p) BY DEF Rows, MissingRows, TreeRows, FlatRows
<1>4. ASSUME NEW r \in Exact(p), r \notin MissingRows(p)
      PROVE  \E s \in Rows(p) : r \in Refs(p, s)
 <2>1. PICK s \in Eligible(p) : r \in Refs(p, s) BY <1>4 DEF MissingRows
 <2>2. Exact(p) \cap Refs(p, s) # {} BY <2>1
 <2>3. s \in Rows(p) BY <2>2 DEF Rows, TreeRows, FlatRows
 <2> QED BY <2>1, <2>3
<1> QED BY <1>1, <1>2, <1>3, <1>4 DEF ListIsTruthful

----------------------------------------------------------------------------
(* What each control keeps of an accepted draft. *)

LEMMA ChosenAccepted ==
    ASSUME NEW p, Accepted(p), OneLimit(p), Tree(p), NEW rows, NEW on
    PROVE  LET q == ChosenEntities(p, rows, on) IN
             /\ Accepted(q) /\ OneLimit(q)
             /\ q.check = p.check /\ q.kind = p.kind /\ q.match = p.match
             /\ q.matchAny = p.matchAny /\ q.matchNone = p.matchNone
             /\ Saved(p) \ Saved(q) \subseteq rows
<1> DEFINE bare == [p EXCEPT !.included = @ \ rows, !.excluded = @ \ rows]
           needed == {s \in rows : EntitySelected(bare, s) # on}
           q == ChosenEntities(p, rows, on)
<1>1. q = IF on THEN [bare EXCEPT !.included = @ \cup needed]
          ELSE [bare EXCEPT !.excluded = @ \cup needed]
  BY DEF ChosenEntities
<1> HIDE DEF needed
<1>2. q = [p EXCEPT !.included = q.included, !.excluded = q.excluded] BY <1>1 DEF Accepted
<1>3. Saved(p) \ Saved(q) \subseteq rows
 <2>1. bare.included = p.included \ rows /\ bare.excluded = p.excluded \ rows BY DEF Accepted
 <2>2. bare = [f \in {"check", "kind", "match", "matchAny", "matchNone", "included", "excluded"} |-> bare[f]]
   BY DEF Accepted
 <2> HIDE DEF bare
 <2>3. bare.included \subseteq q.included /\ bare.excluded \subseteq q.excluded
  <3>1. CASE on BY <1>1, <2>2, <3>1
  <3>2. CASE ~on BY <1>1, <2>2, <3>2
  <3> QED BY <3>1, <3>2
 <2> QED BY <2>1, <2>3 DEF Saved
<1> HIDE DEF q, bare
<1>4. /\ q.check = p.check /\ q.kind = p.kind /\ q.match = p.match
      /\ q.matchAny = p.matchAny /\ q.matchNone = p.matchNone
  BY <1>2 DEF Accepted
<1>5. q = [f \in {"check", "kind", "match", "matchAny", "matchNone", "included", "excluded"} |-> q[f]]
  BY <1>2 DEF Accepted
<1>6. Accepted(q) /\ OneLimit(q) BY <1>4, <1>5 DEF Accepted, Tree, EntityPolicy, OneLimit, Field
<1> QED BY <1>3, <1>4, <1>6 DEF q

LEMMA ChosenInListAccepted ==
    ASSUME NEW p, Accepted(p), OneLimit(p), NEW s, NEW on
    PROVE  LET q == ChosenInList(p, s, on) IN
             /\ Accepted(q) /\ OneLimit(q)
             /\ Saved(p) \ Saved(q) \subseteq {s}
<1> DEFINE q == ChosenInList(p, s, on)
           chosen == IF on THEN p.match[Field(p)] \cup Refs(p, s)
                     ELSE p.match[Field(p)] \ Refs(p, s)
<1>1. q = [p EXCEPT !.excluded = q.excluded, !.match = q.match]
      /\ q.excluded \in {p.excluded \ {s}, p.excluded \cup {s}, (p.excluded \ {s}) \cup {s}}
      /\ q.match = IF Field(p) \in DOMAIN p.match
                   THEN [p.match EXCEPT ![Field(p)] = chosen] ELSE p.match
  BY DEF ChosenInList, Accepted
<1> HIDE DEF q, chosen
<1>2. /\ q.check = p.check /\ q.kind = p.kind /\ q.included = p.included
      /\ q.matchAny = p.matchAny /\ q.matchNone = p.matchNone
      /\ DOMAIN q.match = DOMAIN p.match
  BY <1>1 DEF Accepted
<1>3. q = [f \in {"check", "kind", "match", "matchAny", "matchNone", "included", "excluded"} |-> q[f]]
  BY <1>1 DEF Accepted
<1>4. q.match = [f \in DOMAIN q.match |-> q.match[f]] BY <1>1 DEF Accepted
<1>5. Accepted(q) /\ OneLimit(q)
  BY <1>2, <1>3, <1>4 DEF Accepted, Tree, EntityPolicy, OneLimit, Field
<1>6. Saved(p) \ Saved(q) \subseteq {s} BY <1>1, <1>2 DEF Saved
<1> QED BY <1>5, <1>6 DEF q

LEMMA ForgottenAccepted ==
    ASSUME NEW p, Accepted(p), OneLimit(p), NEW id
    PROVE  LET q == Forgotten(p, id) IN
             Accepted(q) /\ OneLimit(q) /\ Saved(p) \ Saved(q) \subseteq {id}
<1> DEFINE q == Forgotten(p, id)
           refs == {id} \cup (IF id \in Eligible(p) THEN Refs(p, id) ELSE {})
<1>1. q = [p EXCEPT !.included = @ \ {id}, !.excluded = @ \ {id}, !.match = q.match]
      /\ q.match = IF Field(p) \in DOMAIN p.match
                   THEN [p.match EXCEPT ![Field(p)] = @ \ refs] ELSE p.match
  BY DEF Forgotten, Accepted
<1> HIDE DEF q, refs
<1>2. /\ q.check = p.check /\ q.kind = p.kind
      /\ q.included = p.included \ {id} /\ q.excluded = p.excluded \ {id}
      /\ q.matchAny = p.matchAny /\ q.matchNone = p.matchNone
      /\ DOMAIN q.match = DOMAIN p.match
  BY <1>1 DEF Accepted
<1>3. q = [f \in {"check", "kind", "match", "matchAny", "matchNone", "included", "excluded"} |-> q[f]]
  BY <1>1 DEF Accepted
<1>4. q.match = [f \in DOMAIN q.match |-> q.match[f]] BY <1>1 DEF Accepted
<1>5. Accepted(q) /\ OneLimit(q)
  BY <1>2, <1>3, <1>4 DEF Accepted, Tree, EntityPolicy, OneLimit, Field
<1>6. Saved(p) \ Saved(q) \subseteq {id} BY <1>2 DEF Saved
<1> QED BY <1>5, <1>6 DEF q

(* Of the fields that limit future sources, the chosen one alone is left.     *)
LEMMA SwitchedAccepted ==
    ASSUME NEW p, Accepted(p), NEW mode \in {"selected", "all", "area", "label"}
    PROVE  LET q == Switched(p, mode)
               only == CASE mode = "selected" -> {Field(p)}
                         [] mode \in {"area", "label"} -> {mode}
                         [] OTHER -> {}
           IN /\ Accepted(q) /\ OneLimit(q) /\ q = [p EXCEPT !.match = q.match]
              /\ DOMAIN q.match = (DOMAIN p.match \ {"area", "label", Field(p)}) \cup only
              /\ \A f \in DOMAIN q.match \ only : q.match[f] = p.match[f]
              /\ mode = "selected" =>
                   q.match[Field(p)] = Exact(p) \cup UNION {Refs(p, s) : s \in Members(p)}
<1> DEFINE q == Switched(p, mode)
           only == CASE mode = "selected" -> {Field(p)}
                     [] mode \in {"area", "label"} -> {mode}
                     [] OTHER -> {}
           open == Without(p.match, {"area", "label", Field(p)})
           kept == Exact(p) \cup UNION {Refs(p, s) : s \in Members(p)}
           limit == CASE mode = "selected" -> [f \in {Field(p)} |-> kept]
                      [] mode \in {"area", "label"} -> [f \in {mode} |-> {}]
                      [] OTHER -> NoMatch
<1>1. q.match = [f \in DOMAIN open \cup DOMAIN limit |->
                   IF f \in DOMAIN limit THEN limit[f] ELSE open[f]]
      /\ q = [p EXCEPT !.match = q.match]
  BY DEF Switched, Accepted
<1>2. /\ DOMAIN limit = only
      /\ mode = "selected" => limit[Field(p)] = kept
  BY DEF NoMatch
<1>3. /\ DOMAIN open = DOMAIN p.match \ {"area", "label", Field(p)}
      /\ \A f \in DOMAIN open : open[f] = p.match[f]
  BY DEF Without, Restrict
<1> HIDE DEF q, limit, open, kept
<1>4. /\ DOMAIN q.match = (DOMAIN p.match \ {"area", "label", Field(p)}) \cup only
      /\ \A f \in DOMAIN q.match \ only : q.match[f] = p.match[f]
  BY <1>1, <1>2, <1>3
<1>5. mode = "selected" => q.match[Field(p)] = kept BY <1>1, <1>2
<1>6. q.match = [f \in DOMAIN q.match |-> q.match[f]] BY <1>1
<1>7. /\ q.check = p.check /\ q.kind = p.kind /\ q.included = p.included
      /\ q.excluded = p.excluded /\ q.matchAny = p.matchAny /\ q.matchNone = p.matchNone
      /\ q = [f \in {"check", "kind", "match", "matchAny", "matchNone", "included", "excluded"} |-> q[f]]
  BY <1>1 DEF Accepted
<1>8. Accepted(q) BY <1>6, <1>7 DEF Accepted, Tree, EntityPolicy
<1>9. OneLimit(q)
 <2>1. Field(q) = Field(p) BY <1>7 DEF Field
 <2> QED BY <1>4, <2>1 DEF OneLimit
<1> QED BY <1>1, <1>4, <1>5, <1>8, <1>9 DEF q, kept

LEMMA PickedAccepted ==
    ASSUME NEW p, Accepted(p), OneLimit(p), FutureMode(p) \in DOMAIN Groups, NEW group
    PROVE  LET q == [p EXCEPT !.match[FutureMode(p)] = group] IN
             Accepted(q) /\ OneLimit(q) /\ Saved(q) = Saved(p)
<1> DEFINE mode == FutureMode(p)
           q == [p EXCEPT !.match[mode] = group]
<1>1. mode \in DOMAIN p.match BY GroupsAssumption DEF FutureMode
<1> HIDE DEF mode
<1>2. /\ q.check = p.check /\ q.kind = p.kind /\ q.included = p.included
      /\ q.excluded = p.excluded /\ q.matchAny = p.matchAny /\ q.matchNone = p.matchNone
      /\ q = [f \in {"check", "kind", "match", "matchAny", "matchNone", "included", "excluded"} |-> q[f]]
  BY DEF Accepted
<1>3. DOMAIN q.match = DOMAIN p.match /\ q.match = [f \in DOMAIN q.match |-> q.match[f]]
  BY <1>1 DEF Accepted
<1> HIDE DEF q
<1>4. Accepted(q) /\ OneLimit(q) BY <1>2, <1>3 DEF Accepted, Tree, EntityPolicy, OneLimit, Field
<1>5. Saved(q) = Saved(p) BY <1>2 DEF Saved
<1> QED BY <1>4, <1>5 DEF q, mode

----------------------------------------------------------------------------
(* The draft stays acceptable, and no control loses a saved choice but the    *)
(* one that can be ticked or is forgotten.                                    *)

LEMMA InitAccepted == Init => IInv
BY PoliciesAssumption, CatalogsAssumption DEF Init, IInv

LEMMA StepKeeps ==
    ASSUME IInv, [Next]_vars
    PROVE  /\ IInv'
           /\ \A id \in Saved(policy) \ Saved(policy') :
                Forget(id) \/ (ready /\ id \in Choosable(policy))
<1> DEFINE Fine == Accepted(policy') /\ OneLimit(policy')
           Kept == \A id \in Saved(policy) \ Saved(policy') :
                     Forget(id) \/ (ready /\ id \in Choosable(policy))
<1> USE DEF IInv
<1>1. ASSUME NEW s \in Identity, NEW on \in BOOLEAN, Tick(s, on)
      PROVE  Fine /\ Kept
 <2>1. ready /\ s \in Choosable(policy)
       /\ policy' = IF Tree(policy) THEN ChosenEntities(policy, {s}, on)
                    ELSE ChosenInList(policy, s, on)
   BY <1>1 DEF Tick, Rewrite
 <2>2. CASE Tree(policy)
  <3>1. policy' = ChosenEntities(policy, {s}, on) BY <2>1, <2>2
  <3>2. Accepted(policy') /\ OneLimit(policy') /\ Saved(policy) \ Saved(policy') \subseteq {s}
    BY <2>2, <3>1, ChosenAccepted
  <3> QED BY <2>1, <3>2
 <2>3. CASE ~Tree(policy)
  <3>1. policy' = ChosenInList(policy, s, on) BY <2>1, <2>3
  <3>2. Accepted(policy') /\ OneLimit(policy') /\ Saved(policy) \ Saved(policy') \subseteq {s}
    BY <3>1, ChosenInListAccepted
  <3> QED BY <2>1, <3>2
 <2> QED BY <2>2, <2>3
<1>2. ASSUME NEW s \in Identity, NEW f \in {"device", "integration"},
             NEW key \in Attributes(s)[f], TickBranch(f, key)
      PROVE  Fine /\ Kept
 <2> DEFINE rows == Branch(f, key)
            on == \E r \in rows : ~Selected(policy, r)
 <2>1. ready /\ Tree(policy) /\ policy' = ChosenEntities(policy, rows, on)
   BY <1>2 DEF TickBranch, InTree, Rewrite
 <2>2. rows \subseteq Choosable(policy) BY DEF Branch
 <2> HIDE DEF rows, on
 <2>3. Accepted(policy') /\ OneLimit(policy') /\ Saved(policy) \ Saved(policy') \subseteq rows
   BY <2>1, ChosenAccepted
 <2> QED BY <2>1, <2>2, <2>3
<1>3. ASSUME NEW id \in Everything.hits, Forget(id)
      PROVE  Fine /\ Kept
 <2>1. policy' = Forgotten(policy, id) BY <1>3 DEF Forget, Rewrite
 <2>2. Accepted(policy') /\ OneLimit(policy') /\ Saved(policy) \ Saved(policy') \subseteq {id}
   BY <2>1, ForgottenAccepted
 <2> QED BY <1>3, <2>2
<1>4. ASSUME NEW mode \in {"selected", "all"} \cup DOMAIN Groups, Future(mode)
      PROVE  Fine /\ Kept
 <2>1. policy' = Switched(policy, mode) /\ mode \in {"selected", "all", "area", "label"}
   BY <1>4, GroupsAssumption DEF Future, Rewrite
 <2>2. Accepted(policy') /\ OneLimit(policy') /\ policy' = [policy EXCEPT !.match = policy'.match]
   BY <2>1, SwitchedAccepted
 <2>3. Saved(policy') = Saved(policy) BY <2>2 DEF Saved, Accepted
 <2> QED BY <2>2, <2>3
<1>5. ASSUME NEW g \in UNION Range(Groups), PickGroup(g)
      PROVE  Fine /\ Kept
 <2> DEFINE mode == FutureMode(policy)
            old == policy.match[mode]
            new == IF g \in old THEN old \ {g} ELSE old \cup {g}
 <2>1. /\ mode \in DOMAIN Groups
       /\ policy' = [policy EXCEPT !.match[mode] = IF g \in @ THEN @ \ {g} ELSE @ \cup {g}]
   BY <1>5 DEF PickGroup, Rewrite
 <2>2. policy' = [policy EXCEPT !.match[mode] = new] BY <2>1
 <2> HIDE DEF new, old
 <2>3. Accepted(policy') /\ OneLimit(policy') /\ Saved(policy') = Saved(policy)
   BY <2>1, <2>2, PickedAccepted
 <2> QED BY <2>3
<1>6. ASSUME policy' = policy
      PROVE  Fine /\ Kept
  BY <1>6
<1>7. \A hits, only : Browse(hits, only) => policy' = policy BY DEF Browse
<1>8. \A c : NewCatalog(c) => policy' = policy BY DEF NewCatalog
<1>9. CatalogStale \/ CatalogCurrent \/ UNCHANGED vars => policy' = policy
  BY DEF CatalogStale, CatalogCurrent, vars
<1>10. Fine /\ Kept BY <1>1, <1>2, <1>3, <1>4, <1>5, <1>6, <1>7, <1>8, <1>9 DEF Next
<1>11. catalog' = catalog \/ catalog' \in Catalogs
  BY DEF Next, vars, Tick, TickBranch, Forget, Future, PickGroup, Rewrite, Browse, NewCatalog,
         CatalogStale, CatalogCurrent
<1> QED BY <1>10, <1>11, CatalogsAssumption

----------------------------------------------------------------------------
(* What is monitored before and after a control. *)

LEMMA ChosenMoves ==
    ASSUME NEW p, Accepted(p), Tree(p), OneLimit(p), NEW rows \in SUBSET Identity, NEW on \in BOOLEAN,
           NEW s \in Identity, Checked(p, s)
    PROVE  LET q == ChosenEntities(p, rows, on) IN
             Monitors(q, s) <=> IF s \in rows THEN on ELSE Monitors(p, s)
<1> DEFINE q == ChosenEntities(p, rows, on)
           bare == [p EXCEPT !.included = @ \ rows, !.excluded = @ \ rows]
           needed == {r \in rows : EntitySelected(bare, r) # on}
<1>1. bare.included = p.included \ rows /\ bare.excluded = p.excluded \ rows BY DEF Accepted
<1>2. /\ bare.match = p.match /\ bare.check = p.check /\ bare.kind = p.kind
      /\ bare.matchAny = p.matchAny /\ bare.matchNone = p.matchNone
      /\ bare = [f \in {"check", "kind", "match", "matchAny", "matchNone", "included", "excluded"} |-> bare[f]]
  BY DEF Accepted
<1>3. q = IF on THEN [bare EXCEPT !.included = @ \cup needed]
          ELSE [bare EXCEPT !.excluded = @ \cup needed]
  BY DEF ChosenEntities
<1>4. needed \subseteq rows /\ (s \in needed <=> s \in rows /\ EntitySelected(bare, s) # on) OBVIOUS
<1> HIDE DEF bare, needed
<1>5. /\ q.included = (p.included \ rows) \cup (IF on THEN needed ELSE {})
      /\ q.excluded = (p.excluded \ rows) \cup (IF on THEN {} ELSE needed)
      /\ q.match = p.match /\ q.check = p.check /\ q.kind = p.kind
      /\ q.matchAny = p.matchAny /\ q.matchNone = p.matchNone
 <2>1. CASE on BY <1>1, <1>2, <1>3, <2>1
 <2>2. CASE ~on BY <1>1, <1>2, <1>3, <2>2
 <2> QED BY <2>1, <2>2
<1> HIDE DEF q
<1>6. /\ DeviceExcluded(q, s) <=> DeviceExcluded(p, s)
      /\ DeviceExcluded(bare, s) <=> DeviceExcluded(p, s)
  BY <1>1, <1>4, <1>5, CandidatesAssumption DEF DeviceExcluded
<1> DEFINE scoped == /\ ~DeviceExcluded(p, s)
                     /\ (p.check = "entity_not_provided" \/ Attributes(s)["entity_category"] = {}
                         \/ "entity" \in DOMAIN p.match)
                     /\ Matches(p.match, Attributes(s))
                     /\ (p.matchAny = {} \/ \E m \in p.matchAny : Matches(m, Attributes(s)))
                     /\ \A m \in p.matchNone : ~Matches(m, Attributes(s))
<1>7. /\ EntitySelected(p, s) <=> s \notin p.excluded /\ (s \in p.included \/ scoped)
      /\ EntitySelected(bare, s) <=> s \notin bare.excluded /\ (s \in bare.included \/ scoped)
      /\ EntitySelected(q, s) <=> s \notin q.excluded /\ (s \in q.included \/ scoped)
  BY <1>2, <1>5, <1>6 DEF EntitySelected
<1> HIDE DEF scoped
<1>8. EntitySelected(q, s) <=> IF s \in rows THEN on ELSE EntitySelected(p, s)
  BY <1>1, <1>4, <1>5, <1>7
<1>9. /\ Monitors(p, s) <=> EntitySelected(p, s)
      /\ Monitors(q, s) <=> EntitySelected(q, s)
 <2>1. Accepted(q) /\ Tree(q) /\ Checked(q, s) BY <1>5, ChosenAccepted DEF Tree, Checked, q
 <2> QED BY <2>1, SelectedIsMonitored DEF Selected
<1> QED BY <1>8, <1>9 DEF q

(* A match, by one field and the others.                                      *)
LEMMA MatchParts ==
    ASSUME NEW match, NEW field, NEW attributes
    PROVE  Matches(match, attributes) <=>
             /\ Matches(Without(match, {field}), attributes)
             /\ field \in DOMAIN match => match[field] \cap attributes[field] # {}
BY DEF Matches, Without, Restrict

LEMMA ListMoves ==
    ASSUME NEW p, Accepted(p), OneLimit(p), ~Tree(p), NEW s \in Identity, NEW on \in BOOLEAN,
           Candidate[s].kind = p.kind, InScope(p, s), ~DeviceExcluded(p, s),
           NEW c \in Identity, Checked(p, c),
           c = s \/ Refs(p, s) \cap Refs(p, c) = {}
    PROVE  LET q == ChosenInList(p, s, on) IN
             Monitors(q, c) <=> IF c = s THEN on ELSE Monitors(p, c)
<1> DEFINE q == ChosenInList(p, s, on)
           F == Field(p)
           bare == [p EXCEPT !.excluded = @ \ {s}]
           chosen == IF on THEN p.match[F] \cup Refs(p, s) ELSE p.match[F] \ Refs(p, s)
<1>1. /\ q.excluded = IF F \in DOMAIN p.match \/ on THEN p.excluded \ {s} ELSE (p.excluded \ {s}) \cup {s}
      /\ q.match = IF F \in DOMAIN p.match THEN [p.match EXCEPT ![F] = chosen] ELSE p.match
      /\ q.check = p.check /\ q.kind = p.kind
  BY DEF ChosenInList, Accepted
<1>2. Accepted(q) /\ Field(q) = F
 <2>1. Accepted(q) BY ChosenInListAccepted
 <2>2. Field(q) = F BY <1>1 DEF Field
 <2> QED BY <2>1, <2>2
<1> HIDE DEF q, F, chosen
<1>3. ~Tree(q) /\ Checked(q, c) BY <1>1 DEF Tree, Checked
<1>4. /\ Monitors(p, c) <=> ListSelected(p, c)
      /\ Monitors(q, c) <=> ListSelected(q, c)
  BY <1>2, <1>3, SelectedIsMonitored DEF Selected
<1>5. DeviceExcluded(q, c) <=> DeviceExcluded(p, c) BY <1>1, CandidatesAssumption DEF DeviceExcluded
<1>6. Refs(p, s) # {} /\ Refs(p, s) = Attributes(s)[F] /\ Refs(p, c) = Attributes(c)[F]
  BY CandidatesAssumption DEF Refs, Field, F
<1>7. Without(q.match, {F}) = Scope(p) BY <1>1 DEF Scope, Without, Restrict, Accepted, F
<1>8. /\ Matches(q.match, Attributes(c)) <=>
           /\ Matches(Scope(p), Attributes(c))
           /\ F \in DOMAIN q.match => q.match[F] \cap Refs(p, c) # {}
      /\ Matches(p.match, Attributes(c)) <=>
           /\ Matches(Scope(p), Attributes(c))
           /\ F \in DOMAIN p.match => p.match[F] \cap Refs(p, c) # {}
  BY <1>6, <1>7, MatchParts DEF Scope, F
<1>9. F \in DOMAIN p.match => F \in DOMAIN q.match /\ q.match[F] = chosen BY <1>1
<1>10. F \notin DOMAIN p.match => F \notin DOMAIN q.match BY <1>1
<1>11. CASE c = s
 <2>1. Matches(Scope(p), Attributes(c)) /\ ~DeviceExcluded(p, c) BY <1>11 DEF InScope
 <2>2. F \in DOMAIN p.match => (q.match[F] \cap Refs(p, c) # {} <=> on)
   BY <1>6, <1>9, <1>11 DEF chosen
 <2>3. F \notin DOMAIN p.match => (c \notin q.excluded <=> on) BY <1>1, <1>11
 <2>4. F \in DOMAIN p.match \/ on => c \notin q.excluded BY <1>1, <1>11
 <2>5. ListSelected(q, c) <=> on BY <1>5, <1>8, <1>9, <1>10, <2>1, <2>2, <2>3, <2>4 DEF ListSelected
 <2> QED BY <1>4, <1>11, <2>5 DEF q
<1>12. CASE c # s
 <2>1. c \in q.excluded <=> c \in p.excluded BY <1>1, <1>12
 <2>2. F \in DOMAIN p.match => (q.match[F] \cap Refs(p, c) # {} <=> p.match[F] \cap Refs(p, c) # {})
   BY <1>9, <1>12 DEF chosen
 <2>3. ListSelected(q, c) <=> ListSelected(p, c)
   BY <1>5, <1>8, <1>9, <1>10, <2>1, <2>2 DEF ListSelected
 <2> QED BY <1>4, <1>12, <2>3 DEF q
<1> QED BY <1>11, <1>12

LEMMA SwitchMovesNothing ==
    ASSUME IInv, FutureMode(policy) # "selected",
           NEW c \in catalog.present, Checked(policy, c), Enabled(c)
    PROVE  Monitors(Switched(policy, "selected"), c) <=> Monitors(policy, c)
<1> DEFINE p == policy
           q == Switched(p, "selected")
           F == Field(p)
<1>1. /\ Accepted(p) /\ OneLimit(p) /\ c \in Identity
      /\ Accepted(q) /\ q = [p EXCEPT !.match = q.match]
      /\ DOMAIN q.match = (DOMAIN p.match \ {"area", "label", F}) \cup {F}
      /\ \A f \in DOMAIN q.match \ {F} : q.match[f] = p.match[f]
      /\ q.match[F] = Exact(p) \cup UNION {Refs(p, s) : s \in Members(p)}
  BY SwitchedAccepted DEF IInv
<1> HIDE DEF q
<1>2. /\ q.check = p.check /\ q.kind = p.kind /\ q.included = p.included
      /\ q.excluded = p.excluded /\ q.matchAny = p.matchAny /\ q.matchNone = p.matchNone
  BY <1>1 DEF Accepted
<1>3. Candidate[c].kind = p.kind /\ Refs(p, c) # {} /\ Refs(p, c) = Attributes(c)[F]
  BY <1>1, CandidatesAssumption DEF Checked, Refs, Field
<1>4. Exact(p) # {} => F \in DOMAIN p.match /\ "area" \notin DOMAIN p.match /\ "label" \notin DOMAIN p.match
  BY <1>1 DEF Exact, OneLimit, Field
<1>5. Exact(p) = {} BY <1>4 DEF FutureMode
<1>6. ASSUME Monitors(p, c)
      PROVE  Monitors(q, c)
 <2>1. c \in Monitored(p) BY <1>6 DEF Monitored
 <2>2. c \in Members(p) BY <1>1, <1>6, <2>1, MonitoredHasRow, SelectedIsMonitored DEF Members
 <2>3. q.match[F] \cap Attributes(c)[F] # {} BY <1>1, <1>3, <2>2
 <2>4. Matches(p.match, Attributes(c)) => Matches(q.match, Attributes(c)) BY <1>1, <2>3 DEF Matches
 <2>5. p.check = "availability" /\ Candidate[c].kind = "entity" => "entity" \in DOMAIN q.match
   BY <1>1, <1>3 DEF Field
 <2> HIDE DEF p, F
 <2> QED BY <1>2, <1>6, <2>4, <2>5 DEF Monitors
<1>7. ASSUME Monitors(q, c), ~Monitors(p, c)
      PROVE  FALSE
 <2>1. /\ c \notin p.excluded /\ c \notin p.included /\ ~DeviceExcluded(p, c)
       /\ Matches(q.match, Attributes(c))
   BY <1>2, <1>7 DEF Monitors, DeviceExcluded
 <2>2. q.match[F] \cap Refs(p, c) # {} BY <1>1, <1>3, <2>1 DEF Matches
 <2>3. PICK m \in Members(p) : Refs(p, m) \cap Refs(p, c) # {} BY <1>1, <1>5, <2>2
 <2>4. /\ m \in catalog.present /\ Candidate[m].kind = p.kind /\ m \in Identity /\ Selected(p, m)
   BY <2>3 DEF Members, Rows, TreeRows, FlatRows, Eligible, Suits, IInv
 <2>5. m = c \/ (p.kind = "ups" /\ Attributes(m) = Attributes(c))
   BY <1>1, <1>3, <2>3, <2>4, CandidatesAssumption DEF Refs, Field
 <2>6. m # c BY <1>1, <1>7, <2>4, SelectedIsMonitored
 <2>7. ~Tree(p) /\ ListSelected(p, m) BY <2>4, <2>5, <2>6 DEF Tree, Selected
 <2>8. ListSelected(p, c) BY <2>1, <2>5, <2>6, <2>7 DEF ListSelected
 <2> QED BY <1>1, <1>7, <2>7, <2>8, SelectedIsMonitored DEF Selected
<1> QED BY <1>6, <1>7 DEF q

----------------------------------------------------------------------------
(* The properties. *)

(* A tick moves the rows ticked and nothing else, and a switch to exact       *)
(* sources moves nothing.                                                     *)
LEMMA MovesExact ==
    ASSUME IInv
    PROVE  /\ \A s \in Identity, on \in BOOLEAN : Tick(s, on) => Moved({s}, on)
           /\ \A s \in Identity, f \in {"device", "integration"} :
                \A key \in Attributes(s)[f] : TickBranch(f, key) =>
                   Moved(Branch(f, key), \E r \in Branch(f, key) : ~Selected(policy, r))
           /\ Future("selected") => Moved({}, TRUE)
<1> USE DEF IInv
<1>1. ASSUME NEW s \in Identity, NEW on \in BOOLEAN, Tick(s, on)
      PROVE  Moved({s}, on)
 <2>1. /\ s \in Choosable(policy)
       /\ policy' = IF Tree(policy) THEN ChosenEntities(policy, {s}, on)
                    ELSE ChosenInList(policy, s, on)
   BY <1>1 DEF Tick, Rewrite
 <2>2. ASSUME NEW c \in catalog.present, Checked(policy, c),
              c = s \/ Refs(policy, s) \cap Refs(policy, c) = {}
       PROVE  Monitors(policy', c) <=> IF c = s THEN on ELSE Monitors(policy, c)
  <3>1. CASE Tree(policy)
   <4>1. policy' = ChosenEntities(policy, {s}, on) /\ c \in Identity /\ {s} \in SUBSET Identity
     BY <2>1, <3>1
   <4>2. Monitors(policy', c) <=> IF c \in {s} THEN on ELSE Monitors(policy, c)
     BY <2>2, <3>1, <4>1, ChosenMoves
   <4> QED BY <4>2
  <3>2. CASE ~Tree(policy)
   <4>1. policy' = ChosenInList(policy, s, on) /\ c \in Identity BY <2>1, <3>2
   <4>2. InScope(policy, s) /\ ~DeviceExcluded(policy, s) /\ Candidate[s].kind = policy.kind
     BY <2>1, <3>2 DEF Choosable, Rows, TreeRows, FlatRows, Eligible, Suits
   <4> QED BY <2>2, <3>2, <4>1, <4>2, ListMoves
  <3> QED BY <3>1, <3>2
 <2> QED BY <2>2 DEF Moved
<1>2. ASSUME NEW s \in Identity, NEW f \in {"device", "integration"},
             NEW key \in Attributes(s)[f], TickBranch(f, key)
      PROVE  Moved(Branch(f, key), \E r \in Branch(f, key) : ~Selected(policy, r))
 <2> DEFINE rows == Branch(f, key)
            on == \E r \in rows : ~Selected(policy, r)
 <2>1. Tree(policy) /\ policy' = ChosenEntities(policy, rows, on) /\ on \in BOOLEAN
   BY <1>2 DEF TickBranch, InTree, Rewrite
 <2>2. rows \in SUBSET Identity BY DEF Branch, Choosable, Rows, TreeRows, FlatRows, Eligible, Suits
 <2> HIDE DEF rows, on
 <2>3. \A c \in catalog.present : Checked(policy, c) =>
          (Monitors(policy', c) <=> IF c \in rows THEN on ELSE Monitors(policy, c))
   BY <2>1, <2>2, ChosenMoves
 <2>4. Moved(rows, on) BY <2>3 DEF Moved
 <2> QED BY <2>4 DEF rows, on
<1>3. ASSUME Future("selected")
      PROVE  Moved({}, TRUE)
 <2>1. FutureMode(policy) # "selected" /\ policy' = Switched(policy, "selected")
   BY <1>3 DEF Future, Rewrite
 <2> QED BY <2>1, SwitchMovesNothing DEF Moved
<1> QED BY <1>1, <1>2, <1>3

LEMMA DraftAccepted == Spec => []IInv
BY InitAccepted, StepKeeps, PTL DEF Spec

(* The list of sources shows what the integration will monitor, all of it,    *)
(* and every saved exception and exact reference, in every reachable draft    *)
(* and with every catalog.                                                    *)
THEOREM ListTellsTruth == Spec => []ListIsTruthful
<1>1. IInv => ListIsTruthful BY TruthfulList DEF IInv
<1> QED BY <1>1, DraftAccepted, PTL

(* A tick, a branch and a switch to exact sources change the membership they  *)
(* show and nothing else, and a saved choice is only undone from its own row. *)
THEOREM ControlsAreExact == Spec => ChoicesExact
<1> DEFINE Exactly ==
             /\ \A s \in Identity, on \in BOOLEAN : Tick(s, on) => Moved({s}, on)
             /\ \A s \in Identity, f \in {"device", "integration"} :
                  \A key \in Attributes(s)[f] : TickBranch(f, key) =>
                     Moved(Branch(f, key), \E r \in Branch(f, key) : ~Selected(policy, r))
             /\ Future("selected") => Moved({}, TRUE)
           Keeps == \A id \in Saved(policy) \ Saved(policy') :
                      Forget(id) \/ (ready /\ id \in Choosable(policy))
<1>1. IInv => Exactly BY MovesExact
<1>2. IInv /\ [Next]_vars => Keeps BY StepKeeps
<1> HIDE DEF Exactly, Keeps
<1>3. Spec => [][Exactly]_vars /\ [][Keeps]_vars BY <1>1, <1>2, DraftAccepted, PTL DEF Spec
<1> QED BY <1>3 DEF Exactly, Keeps, ChoicesExact, TicksAreExact, SavedChoicesKept

-----------------------------------------------------------------------------
(* Paths: what workspacePath writes and parseWorkspacePath reads. *)

(* What a dialog and an editor can be open for.                            *)
DetailFits(d) ==
  d # None => d = [kind |-> d.kind, id |-> d.id] /\ d.kind \in {"episode", "node", "device"} /\ d.id \in Ids

DefinitionFits(d) ==
  d # None => /\ d = [kind |-> d.kind, id |-> d.id] /\ d.kind \in {"policies", "profiles", "methods"}
              /\ d.id \in Ids

(* The paths of a route, arm by arm. *)
LEMMA ReportPath ==
  ASSUME NEW r, r.page = "problems", r.report # None
  PROVE  PathOf(r) = IF Is(r.detail, "episode") THEN <<"notification", r.report, "episode", r.detail.id>>
                     ELSE <<"notification", r.report>>
BY DEF PathOf

(* The routes workspacePath gives the address of a list of issues, and     *)
(* those that are neither such a list nor a report.                        *)
Listed(r) ==
  /\ r.page = "problems" /\ r.report = None /\ r.members # None
  /\ r.detail # None => Is(r.detail, "episode") /\ \E i \in DOMAIN r.members : r.members[i] = r.detail.id

(* workspacePath for a route of the issues of a notification.              *)
LEMMA ListedPath ==
  ASSUME NEW r, Listed(r)
  PROVE  PathOf(r) = IF Is(r.detail, "episode")
                     THEN <<"issues", "notification", r.members, "episode", r.detail.id>>
                     ELSE <<"issues", "notification", r.members>>
BY DEF PathOf, Listed

Plain(r) == ~(r.page = "problems" /\ r.report # None) /\ ~Listed(r)

(* workspacePath for a dialog outside a notification.                      *)
LEMMA DetailPath ==
  ASSUME NEW r, Plain(r), r.detail # None
  PROVE  PathOf(r) = <<DetailSegment[r.detail.kind], r.detail.id>>
BY DEF PathOf, Plain, Listed

(* workspacePath for a page without a dialog.                              *)
LEMMA PagePath ==
  ASSUME NEW r, Plain(r), r.detail = None
  PROVE  /\ r.page = "sources" =>
              PathOf(r) = IF r.source \in {None, Keep} THEN <<"sources">>
                          ELSE IF r.view = "history" THEN <<"sources", r.source, "history">>
                          ELSE <<"sources", r.source>>
         /\ r.page = "policies" =>
              PathOf(r) = IF Is(r.definition, "policies") THEN <<"policies", r.definition.id>> ELSE <<"policies">>
         /\ r.page = "notifications" =>
              PathOf(r) = IF r.definition # None THEN <<"notifications", r.definition.kind, r.definition.id>>
                          ELSE IF r.section = "methods" THEN <<"notifications", "methods">> ELSE <<"notifications">>
         /\ r.page = "history" =>
              PathOf(r) = IF r.history \in {None, Keep} THEN <<"history">> ELSE <<"history", r.history>>
         /\ r.page = "configuration" => PathOf(r) = <<"settings", "timing">>
         /\ r.page = "problems" => PathOf(r) = <<"issues">>
<1>1. CASE r.page = "sources" BY <1>1 DEF PathOf, Plain, Listed
<1>2. CASE r.page = "policies" BY <1>2 DEF PathOf, Plain, Listed
<1>3. CASE r.page = "notifications" BY <1>3 DEF PathOf, Plain, Listed
<1>4. CASE r.page = "history" BY <1>4 DEF PathOf, Plain, Listed
<1>5. CASE r.page = "configuration" BY <1>5 DEF PathOf, Plain, Listed
<1>6. CASE r.page = "problems" BY <1>6 DEF PathOf, Plain, Listed
<1> QED BY <1>1, <1>2, <1>3, <1>4, <1>5, <1>6

(* What a path says, form by form. *)
LEMMA NthOf ==
  ASSUME NEW a, NEW b, NEW c, NEW d, NEW e
  PROVE  /\ Nth(<<a>>, 1) = a /\ Nth(<<a>>, 2) = None /\ Nth(<<a>>, 3) = None /\ Nth(<<a>>, 4) = None
         /\ Nth(<<a, b>>, 1) = a /\ Nth(<<a, b>>, 2) = b /\ Nth(<<a, b>>, 3) = None
         /\ Nth(<<a, b>>, 4) = None
         /\ Nth(<<a, b, c>>, 1) = a /\ Nth(<<a, b, c>>, 2) = b /\ Nth(<<a, b, c>>, 3) = c
         /\ Nth(<<a, b, c>>, 4) = None
         /\ Nth(<<a, b, c, d>>, 1) = a /\ Nth(<<a, b, c, d>>, 2) = b /\ Nth(<<a, b, c, d>>, 3) = c
         /\ Nth(<<a, b, c, d>>, 4) = d
         /\ Nth(<<a, b, c, d, e>>, 1) = a /\ Nth(<<a, b, c, d, e>>, 2) = b /\ Nth(<<a, b, c, d, e>>, 3) = c
         /\ Nth(<<a, b, c, d, e>>, 4) = d /\ Nth(<<a, b, c, d, e>>, 5) = e
<1>1. /\ Nth(<<a>>, 1) = a /\ Nth(<<a>>, 2) = None /\ Nth(<<a>>, 3) = None /\ Nth(<<a>>, 4) = None
  BY DEF Nth
<1>2. /\ Nth(<<a, b>>, 1) = a /\ Nth(<<a, b>>, 2) = b /\ Nth(<<a, b>>, 3) = None
      /\ Nth(<<a, b>>, 4) = None
  BY DEF Nth
<1>3. /\ Nth(<<a, b, c>>, 1) = a /\ Nth(<<a, b, c>>, 2) = b /\ Nth(<<a, b, c>>, 3) = c
      /\ Nth(<<a, b, c>>, 4) = None
  BY DEF Nth
<1>4. /\ Nth(<<a, b, c, d>>, 1) = a /\ Nth(<<a, b, c, d>>, 2) = b /\ Nth(<<a, b, c, d>>, 3) = c
      /\ Nth(<<a, b, c, d>>, 4) = d
  BY DEF Nth
<1>5. /\ Nth(<<a, b, c, d, e>>, 1) = a /\ Nth(<<a, b, c, d, e>>, 2) = b /\ Nth(<<a, b, c, d, e>>, 3) = c
      /\ Nth(<<a, b, c, d, e>>, 4) = d /\ Nth(<<a, b, c, d, e>>, 5) = e
  BY DEF Nth
<1> QED BY <1>1, <1>2, <1>3, <1>4, <1>5

(* parseWorkspacePath for the address of a report, with an issue or        *)
(* without.                                                                *)
LEMMA SaysReport ==
  ASSUME NEW path, Nth(path, 1) = "notification", Nth(path, 2) # None
  PROVE  LET r == Parse(path)
         IN /\ r.page = "problems" /\ r.report = Nth(path, 2)
            /\ Nth(path, 3) = None => r.detail = None
            /\ Nth(path, 3) = "episode" /\ Nth(path, 4) # None =>
                 r.detail = [kind |-> "episode", id |-> Nth(path, 4)]
<1> DEFINE issue == IF Nth(path, 3) = "episode" /\ Nth(path, 4) # None
                    THEN [kind |-> "episode", id |-> Nth(path, 4)] ELSE None
<1>1. Parse(path) = [Says("problems") EXCEPT !.report = Nth(path, 2), !.detail = issue] BY DEF Parse
<1>2. Nth(path, 3) = None => issue = None BY NavAssumption
<1>3. Nth(path, 3) = "episode" /\ Nth(path, 4) # None => issue = [kind |-> "episode", id |-> Nth(path, 4)]
  OBVIOUS
<1> HIDE DEF issue
<1>4. Parse(path).page = "problems" /\ Parse(path).report = Nth(path, 2) /\ Parse(path).detail = issue
  BY <1>1 DEF Says
<1> QED BY <1>2, <1>3, <1>4

(* parseWorkspacePath for the address of a list of issues.                 *)
LEMMA SaysListed ==
  ASSUME NEW path, Nth(path, 1) = "issues", Nth(path, 2) = "notification", Nth(path, 3) # None
  PROVE  LET r == Parse(path)
             ids == Nth(path, 3)
         IN /\ r.page = "problems" /\ r.report = None /\ r.members = ids
            /\ Nth(path, 4) = None => r.detail = None
            /\ Nth(path, 4) = "episode" /\ Nth(path, 5) # None
                 /\ (\E i \in DOMAIN ids : ids[i] = Nth(path, 5)) =>
                 r.detail = [kind |-> "episode", id |-> Nth(path, 5)]
<1> DEFINE ids == Nth(path, 3)
           one == IF Nth(path, 4) = "episode" /\ Nth(path, 5) # None
                  THEN [kind |-> "episode", id |-> Nth(path, 5)] ELSE None
           among == IF one # None /\ \E i \in DOMAIN ids : ids[i] = one.id THEN one ELSE None
<1>1. Parse(path) = [Says("problems") EXCEPT !.members = ids, !.detail = among] BY DEF Parse
<1>2. Nth(path, 4) = None => among = None BY NavAssumption
<1>3. ASSUME Nth(path, 4) = "episode", Nth(path, 5) # None, \E i \in DOMAIN ids : ids[i] = Nth(path, 5)
      PROVE  among = [kind |-> "episode", id |-> Nth(path, 5)]
 <2>1. one = [kind |-> "episode", id |-> Nth(path, 5)] /\ one.id = Nth(path, 5) BY <1>3
 <2>2. CASE one = None BY <2>1, <2>2
 <2>3. CASE one # None BY <1>3, <2>1, <2>3
 <2> QED BY <2>2, <2>3
<1> HIDE DEF among
<1>4. Parse(path).page = "problems" /\ Parse(path).report = None
      /\ Parse(path).members = ids /\ Parse(path).detail = among
  BY <1>1 DEF Says
<1> QED BY <1>2, <1>3, <1>4

(* parseWorkspacePath for the address of a dialog.                         *)
LEMMA SaysDetail ==
  ASSUME NEW path, Nth(path, 2) # None
  PROVE  LET r == Parse(path)
             id == Nth(path, 2)
         IN /\ Nth(path, 1) = "episode" =>
                 /\ r.page = "problems" /\ r.report = None /\ r.members = None
                 /\ r.detail = [kind |-> "episode", id |-> id]
            /\ Nth(path, 1) = "node" => r.page = "sources" /\ r.detail = [kind |-> "node", id |-> id]
            /\ Nth(path, 1) = "device-issues" =>
                 r.page = "sources" /\ r.detail = [kind |-> "device", id |-> id]
BY DEF Parse, Says

(* parseWorkspacePath for the address of a source.                         *)
LEMMA SaysSource ==
  ASSUME NEW path, Nth(path, 1) = "sources"
  PROVE  LET r == Parse(path)
         IN /\ r.page = "sources" /\ r.detail = None /\ r.source = Nth(path, 2)
            /\ r.view = IF Nth(path, 3) = "history" THEN "history" ELSE "source"
BY DEF Parse, Says

(* parseWorkspacePath for the address of a policy.                         *)
LEMMA SaysPolicy ==
  ASSUME NEW path, Nth(path, 1) = "policies"
  PROVE  LET r == Parse(path)
         IN /\ r.page = "policies" /\ r.detail = None
            /\ r.definition = IF Nth(path, 2) = None THEN None
                              ELSE [kind |-> "policies", id |-> Nth(path, 2)]
BY DEF Parse, Says

(* parseWorkspacePath for the address of a notification setting.           *)
LEMMA SaysNotification ==
  ASSUME NEW path, Nth(path, 1) = "notifications"
  PROVE  LET r == Parse(path)
             kind == IF Nth(path, 2) = "methods" THEN "methods" ELSE "profiles"
         IN /\ r.page = "notifications" /\ r.detail = None /\ r.section = kind
            /\ r.definition = IF Nth(path, 3) = None THEN None ELSE [kind |-> kind, id |-> Nth(path, 3)]
BY DEF Parse, Says

(* parseWorkspacePath for the address of the history.                      *)
LEMMA SaysHistory ==
  ASSUME NEW path, Nth(path, 1) = "history"
  PROVE  LET r == Parse(path)
         IN r.page = "history" /\ r.detail = None /\ r.history = Nth(path, 2)
BY DEF Parse, Says

(* parseWorkspacePath for the settings and for all issues.                 *)
LEMMA SaysPage ==
  ASSUME NEW path
  PROVE  /\ Nth(path, 1) = "settings" => Parse(path).page = "configuration" /\ Parse(path).detail = None
         /\ Nth(path, 1) = "issues" /\ Nth(path, 2) = None =>
              /\ Parse(path).page = "problems" /\ Parse(path).report = None
              /\ Parse(path).members = None /\ Parse(path).detail = None
<1>1. ASSUME Nth(path, 1) = "settings"
      PROVE  Parse(path) = Says("configuration")
  BY <1>1 DEF Parse
<1>2. ASSUME Nth(path, 1) = "issues", Nth(path, 2) = None
      PROVE  Parse(path) = Says("problems")
 <2>1. Nth(path, 2) # "notification" BY <1>2, NavAssumption
 <2> QED BY <1>2, <2>1 DEF Parse
<1> QED BY <1>1, <1>2 DEF Says

(* Addresses in the scope of a report, and addresses of a dialog.          *)
Scoped(path) == Nth(path, 1) = "notification"

Dialog(path) ==
  \/ Nth(path, 1) \in {"episode", "node", "device-issues"}
  \/ Nth(path, 1) = "notification" /\ Nth(path, 3) # None
  \/ Nth(path, 1) = "issues" /\ Nth(path, 4) # None

(* The place an address names and the place a card shows, as paths.        *)
Named(path) == PathOf(Parse(path))

Seen(c) == PathOf(RouteOf(c))

(* Addresses, routes and cards as the panel makes them.                    *)
PathFits(path) ==
  /\ Nth(path, 1) \in {"episode", "node", "device-issues", "policies"} => Nth(path, 2) \in Ids \cup {None}
  /\ Nth(path, 1) = "notifications" => Nth(path, 3) \in Ids \cup {None}
  /\ Nth(path, 1) = "notification" => Nth(path, 4) \in Ids \cup {None}
  /\ Nth(path, 1) = "issues" => Nth(path, 5) \in Ids \cup {None}
  /\ Nth(path, 1) \in {"sources", "history"} => Nth(path, 2) # Keep

RouteFits(r) ==
  /\ r.page \in PageNames /\ DetailFits(r.detail) /\ DefinitionFits(r.definition)
  /\ r.page # "problems" => r.report = None /\ r.members = None
  /\ r.definition # None =>
       \/ r.page = "policies" /\ r.definition.kind = "policies"
       \/ r.page = "notifications" /\ r.definition.kind \in {"profiles", "methods"}
  /\ r.page # "history" => r.history = None
  /\ r.history # Keep
  /\ r.page = "sources" /\ r.detail = None => r.source # Keep /\ r.view # Keep
  /\ r.page = "notifications" => r.section # Keep

CardFields ==
  {"page", "report", "members", "pending", "source", "view", "definition", "section", "history",
   "detail", "search", "mobile"}

CardFits(c) ==
  /\ c = [x \in CardFields |-> c[x]]
  /\ c.page \in PageNames /\ DetailFits(c.detail) /\ DefinitionFits(c.definition)
  /\ c.report # None => c.members # None
  /\ Keep \notin {c.source, c.history, c.view, c.section}
  /\ c.pending # None =>
       /\ DetailFits(c.pending) /\ c.pending.kind = "episode"
       /\ c.page = "problems" /\ c.report # None /\ c.members = <<>> /\ c.detail = None

(* A selection that fits is known by its kind.                             *)
LEMMA SelectionIs ==
  ASSUME NEW d
  PROVE  /\ DetailFits(d) /\ d # None =>
              /\ d # Keep
              /\ Is(d, "episode") <=> d.kind = "episode"
              /\ Is(d, "node") <=> d.kind = "node"
              /\ Is(d, "device") <=> d.kind = "device"
         /\ DefinitionFits(d) /\ d # None =>
              /\ d # Keep
              /\ Is(d, "policies") <=> d.kind = "policies"
              /\ Is(d, "profiles") <=> d.kind = "profiles"
              /\ Is(d, "methods") <=> d.kind = "methods"
         /\ ~Is(None, "episode") /\ ~Is(None, "node") /\ ~Is(None, "device")
         /\ ~Is(None, "policies") /\ ~Is(None, "profiles") /\ ~Is(None, "methods")
<1>1. ASSUME DetailFits(d), d # None PROVE d # Keep BY <1>1, NavAssumption DEF DetailFits
<1>2. ASSUME DefinitionFits(d), d # None PROVE d # Keep BY <1>2, NavAssumption DEF DefinitionFits
<1> QED BY <1>1, <1>2 DEF Is

(* The route of a card that fits, fits.                                    *)
LEMMA RouteOfFits ==
  ASSUME NEW c, CardFits(c)
  PROVE  RouteFits(RouteOf(c))
<1>1. RouteOf(c).page = c.page /\ RouteOf(c).detail = c.detail /\ RouteOf(c).view = c.view
      /\ RouteOf(c).section = c.section
      /\ (c.page = "sources" => RouteOf(c).source = c.source)
      /\ (c.page = "history" => RouteOf(c).history = c.history)
      /\ (c.page # "history" => RouteOf(c).history = None)
      /\ (c.page # "problems" => RouteOf(c).report = None /\ RouteOf(c).members = None)
  BY DEF RouteOf
<1>2. RouteOf(c).definition = None \/ RouteOf(c).definition = c.definition BY DEF RouteOf
<1>3. RouteOf(c).definition # None =>
        \/ c.page = "policies" /\ c.definition.kind = "policies"
        \/ c.page = "notifications" /\ c.definition.kind \in {"profiles", "methods"}
 <2> DEFINE kept == \/ c.page = "policies" /\ Is(c.definition, "policies")
                    \/ c.page = "notifications" /\ (Is(c.definition, "profiles") \/ Is(c.definition, "methods"))
 <2>1. RouteOf(c).definition # None => kept BY DEF RouteOf
 <2>2. kept => \/ c.page = "policies" /\ c.definition.kind = "policies"
               \/ c.page = "notifications" /\ c.definition.kind \in {"profiles", "methods"}
   BY DEF Is
 <2> QED BY <2>1, <2>2
<1>4. DefinitionFits(None) BY DEF DefinitionFits
<1> HIDE DEF RouteOf
<1> QED BY <1>1, <1>2, <1>3, <1>4, NavAssumption DEF RouteFits, CardFits

(* Routes that agree on what their page names have one path.               *)
LEMMA SamePath ==
  ASSUME NEW a, NEW b, a.page = b.page, a.report = b.report, a.members = b.members, a.detail = b.detail,
         a.definition = b.definition, a.history = b.history,
         a.page = "sources" /\ a.detail = None => a.source = b.source /\ a.view = b.view,
         a.page = "notifications" => a.section = b.section
  PROVE  PathOf(a) = PathOf(b)
BY DEF PathOf

(* What a path tells of the route it was made of. *)
Tells(p, r) ==
  /\ Named(p) = p /\ PathFits(p) /\ p # <<>>
  /\ Scoped(p) <=> r.page = "problems" /\ r.report # None
  /\ Scoped(p) => Nth(p, 2) = r.report /\ Parse(p).report = r.report
  /\ Dialog(p) => /\ r.detail # None
                  /\ (Nth(p, 1) = "node" <=> r.detail.kind = "node")
                  /\ (Nth(p, 1) = "device-issues" <=> r.detail.kind = "device")
  /\ r.detail # None /\ Plain(r) => Dialog(p)
  /\ Scoped(p) /\ Is(r.detail, "episode") => Dialog(p)

(* The path of a report says what its route says.                          *)
LEMMA ReportTells ==
  ASSUME NEW r, RouteFits(r), r.page = "problems", r.report # None
  PROVE  Tells(PathOf(r), r)
<1> DEFINE p == PathOf(r)
           q == Parse(p)
<1>1. CASE Is(r.detail, "episode")
 <2>1. p = <<"notification", r.report, "episode", r.detail.id>> BY <1>1, ReportPath
 <2> HIDE DEF p
 <2>2. r.detail # None /\ r.detail.kind = "episode" /\ r.detail.id \in Ids /\ r.detail.id # None
       /\ r.detail # Keep
   BY <1>1, SelectionIs, NavAssumption DEF RouteFits, DetailFits, Is
 <2>3. Nth(p, 1) = "notification" /\ Nth(p, 2) = r.report /\ Nth(p, 3) = "episode" /\ Nth(p, 4) = r.detail.id
   BY <2>1 DEF Nth
 <2>4. q.page = "problems" /\ q.report = r.report /\ q.detail = [kind |-> "episode", id |-> r.detail.id]
   BY <2>2, <2>3, SaysReport
 <2> HIDE DEF q
 <2>5. Is(q.detail, "episode") /\ q.detail.id = r.detail.id
   BY <2>2, <2>4 DEF Is, RouteFits, DetailFits
 <2>6. PathOf(q) = <<"notification", r.report, "episode", r.detail.id>> BY <2>4, <2>5, ReportPath
 <2>7. PathFits(p) BY <2>2, <2>3 DEF PathFits
 <2>8. p # <<>> BY <2>1
 <2> QED BY <2>1, <2>2, <2>3, <2>4, <2>6, <2>7, <2>8, NavAssumption DEF Tells, Named, Scoped, Dialog, Plain, q, p
<1>2. CASE ~Is(r.detail, "episode")
 <2>1. p = <<"notification", r.report>> BY <1>2, ReportPath
 <2> HIDE DEF p
 <2>3. Nth(p, 1) = "notification" /\ Nth(p, 2) = r.report /\ Nth(p, 3) = None /\ Nth(p, 4) = None
   BY <2>1 DEF Nth
 <2>4. q.page = "problems" /\ q.report = r.report /\ q.detail = None BY <2>3, SaysReport
 <2> HIDE DEF q
 <2>5. ~Is(q.detail, "episode") BY <2>4 DEF Is
 <2>6. PathOf(q) = <<"notification", r.report>> BY <2>4, <2>5, ReportPath
 <2>7. PathFits(p) BY <2>3 DEF PathFits
 <2>8. p # <<>> BY <2>1
 <2> QED BY <1>2, <2>1, <2>3, <2>4, <2>6, <2>7, <2>8, NavAssumption DEF Tells, Named, Scoped, Dialog, Plain, q, p
<1> QED BY <1>1, <1>2

(* So does the path of a list of issues,                                   *)
LEMMA ListedTells ==
  ASSUME NEW r, RouteFits(r), Listed(r)
  PROVE  Tells(PathOf(r), r)
<1> DEFINE p == PathOf(r)
           q == Parse(p)
<1>0. r.page = "problems" /\ r.report = None /\ r.members # None BY DEF Listed
<1>1. CASE r.detail # None
 <2>0. Is(r.detail, "episode") /\ \E i \in DOMAIN r.members : r.members[i] = r.detail.id
   BY <1>1 DEF Listed
 <2>1. p = <<"issues", "notification", r.members, "episode", r.detail.id>> BY <2>0, ListedPath
 <2> HIDE DEF p
 <2>2. r.detail.kind = "episode" /\ r.detail.id \in Ids /\ r.detail.id # None /\ r.detail # Keep
   BY <1>1, <2>0, SelectionIs, NavAssumption DEF RouteFits, DetailFits, Is
 <2>3. Nth(p, 1) = "issues" /\ Nth(p, 2) = "notification" /\ Nth(p, 3) = r.members
       /\ Nth(p, 4) = "episode" /\ Nth(p, 5) = r.detail.id
   BY <2>1 DEF Nth
 <2>4. q.page = "problems" /\ q.report = None /\ q.members = r.members
       /\ q.detail = [kind |-> "episode", id |-> r.detail.id]
   BY <1>0, <2>0, <2>2, <2>3, SaysListed
 <2> HIDE DEF q
 <2>5. Is(q.detail, "episode") /\ q.detail.id = r.detail.id
   BY <1>1, <2>2, <2>4 DEF Is, RouteFits, DetailFits
 <2>6. Listed(q) BY <1>0, <2>0, <2>4, <2>5 DEF Listed
 <2>7. PathOf(q) = <<"issues", "notification", r.members, "episode", r.detail.id>>
   BY <2>4, <2>5, <2>6, ListedPath
 <2>8. PathFits(p) BY <2>2, <2>3 DEF PathFits
 <2>9. p # <<>> BY <2>1
 <2>10. Named(p) = p BY <2>1, <2>7 DEF Named, q
 <2> QED BY <1>0, <1>1, <2>2, <2>3, <2>10, <2>8, <2>9, NavAssumption DEF Tells, Scoped, Dialog, Plain, p
<1>2. CASE r.detail = None
 <2>0. ~Is(r.detail, "episode") BY <1>2 DEF Is
 <2>1. p = <<"issues", "notification", r.members>> BY <2>0, ListedPath
 <2> HIDE DEF p
 <2>3. Nth(p, 1) = "issues" /\ Nth(p, 2) = "notification" /\ Nth(p, 3) = r.members /\ Nth(p, 4) = None
       /\ Nth(p, 5) = None
   BY <2>1 DEF Nth
 <2>4. q.page = "problems" /\ q.report = None /\ q.members = r.members /\ q.detail = None
   BY <1>0, <2>3, SaysListed
 <2> HIDE DEF q
 <2>5. ~Is(q.detail, "episode") /\ Listed(q) BY <1>0, <2>4 DEF Is, Listed
 <2>7. PathOf(q) = <<"issues", "notification", r.members>> BY <2>4, <2>5, ListedPath
 <2>8. PathFits(p) BY <2>3 DEF PathFits
 <2>9. p # <<>> BY <2>1
 <2>10. Named(p) = p BY <2>1, <2>7 DEF Named, q
 <2> QED BY <1>0, <1>2, <2>3, <2>10, <2>8, <2>9, NavAssumption DEF Tells, Scoped, Dialog, Plain, p
<1> QED BY <1>1, <1>2

(* the path of a dialog,                                                   *)
LEMMA DetailTells ==
  ASSUME NEW r, RouteFits(r), Plain(r), r.detail # None
  PROVE  Tells(PathOf(r), r)
<1> DEFINE p == PathOf(r)
           q == Parse(p)
           kind == r.detail.kind
           id == r.detail.id
           first == DetailSegment[kind]
<1>1. p = <<first, id>> BY DetailPath
<1> HIDE DEF p, first
<1>2. kind \in {"episode", "node", "device"} /\ id \in Ids /\ id # None
      /\ r.detail = [kind |-> kind, id |-> id]
  BY NavAssumption DEF RouteFits, DetailFits
<1>3. Nth(p, 1) = first /\ Nth(p, 2) = id /\ Nth(p, 3) = None /\ Nth(p, 4) = None BY <1>1 DEF Nth
<1>4. /\ kind = "episode" => first = "episode"
      /\ kind = "node" => first = "node"
      /\ kind = "device" => first = "device-issues"
  BY DEF DetailSegment, first
<1>5. /\ q.detail = r.detail
      /\ kind = "episode" => q.page = "problems" /\ q.report = None /\ q.members = None
      /\ kind # "episode" => q.page = "sources"
 <2>1. Nth(p, 2) # None BY <1>2, <1>3
 <2> QED BY <1>2, <1>3, <1>4, <2>1, SaysDetail
<1> HIDE DEF q
<1>6. Plain(q) /\ q.detail # None BY <1>2, <1>5 DEF Plain, Listed
<1>7. PathOf(q) = <<first, id>> BY <1>5, <1>6, DetailPath DEF first
<1>8. PathFits(p) BY <1>2, <1>3, <1>4 DEF PathFits
<1>9. p # <<>> BY <1>1
<1>10. Named(p) = p BY <1>1, <1>7 DEF Named, q
<1>11. ~(r.page = "problems" /\ r.report # None) BY DEF Plain
<1> QED BY <1>2, <1>3, <1>4, <1>8, <1>9, <1>10, <1>11 DEF Tells, Scoped, Dialog, p

(* The facts of a page's own path. *)
LEMMA PageTold ==
  ASSUME NEW r, NEW p, RouteFits(r), Plain(r), r.detail = None, p = PathOf(r),
         Named(p) = p, PathFits(p), p # <<>>,
         Nth(p, 1) \in {"issues", "sources", "policies", "notifications", "history", "settings"},
         Nth(p, 1) = "issues" => Nth(p, 4) = None
  PROVE  Tells(p, r)
<1>1. ~Scoped(p) /\ ~Dialog(p) BY DEF Scoped, Dialog
<1>2. ~(r.page = "problems" /\ r.report # None) BY DEF Plain
<1> QED BY <1>1, <1>2 DEF Tells

(* the path of a source,                                                   *)
LEMMA SourceTells ==
  ASSUME NEW r, RouteFits(r), r.page = "sources", r.detail = None
  PROVE  Tells(PathOf(r), r)
<1> DEFINE p == PathOf(r)
           q == Parse(p)
<1>0. Plain(r) /\ r.source # Keep /\ r.view # Keep BY DEF Plain, Listed, RouteFits
<1>a. p = IF r.source \in {None, Keep} THEN <<"sources">>
          ELSE IF r.view = "history" THEN <<"sources", r.source, "history">>
          ELSE <<"sources", r.source>>
  BY <1>0, PagePath
<1>b. p = PathOf(r) OBVIOUS
<1> HIDE DEF p
<1>1. Nth(p, 1) = "sources" /\ Nth(p, 2) # Keep /\ Nth(p, 2) = r.source /\ p # <<>>
      /\ (r.source # None => Nth(p, 3) = IF r.view = "history" THEN "history" ELSE None)
  BY <1>0, <1>a, NavAssumption DEF Nth
<1>2. q.page = "sources" /\ q.detail = None /\ q.source = r.source
      /\ q.view = IF Nth(p, 3) = "history" THEN "history" ELSE "source"
  BY <1>1, SaysSource
<1> HIDE DEF q
<1>3. r.source # None => (q.view = "history" <=> r.view = "history") BY <1>1, <1>2, NavAssumption
<1>4. Plain(q) BY <1>2 DEF Plain, Listed
<1>5. PathOf(q) = IF q.source \in {None, Keep} THEN <<"sources">>
          ELSE IF q.view = "history" THEN <<"sources", q.source, "history">>
          ELSE <<"sources", q.source>>
  BY <1>2, <1>4, PagePath
<1>6. PathOf(q) = p BY <1>0, <1>2, <1>3, <1>5, <1>a
<1>7. PathFits(p) BY <1>1 DEF PathFits
<1> QED BY <1>0, <1>1, <1>6, <1>7, <1>b, PageTold DEF Named, q

(* the path of a policy,                                                   *)
LEMMA PolicyTells ==
  ASSUME NEW r, RouteFits(r), r.page = "policies", r.detail = None
  PROVE  Tells(PathOf(r), r)
<1> DEFINE p == PathOf(r)
           q == Parse(p)
           one == Is(r.definition, "policies")
<1>0. Plain(r) BY DEF Plain, Listed
<1>a. p = IF one THEN <<"policies", r.definition.id>> ELSE <<"policies">> BY <1>0, PagePath
<1>b. p = PathOf(r) OBVIOUS
<1>c. one => r.definition # None /\ r.definition.kind = "policies" /\ r.definition.id \in Ids
             /\ r.definition.id # None /\ r.definition # Keep
             /\ r.definition = [kind |-> "policies", id |-> r.definition.id]
  BY NavAssumption DEF RouteFits, DefinitionFits, Is
<1> HIDE DEF p, one
<1>1. Nth(p, 1) = "policies" /\ p # <<>> /\ (one => Nth(p, 2) = r.definition.id) /\ (~one => Nth(p, 2) = None)
  BY <1>a DEF Nth
<1>2. q.page = "policies" /\ q.detail = None /\ (one => q.definition = r.definition) /\ (~one => q.definition = None)
  BY <1>1, <1>c, SaysPolicy
<1> HIDE DEF q
<1>4. Plain(q) BY <1>2 DEF Plain, Listed
<1>5. PathOf(q) = IF Is(q.definition, "policies") THEN <<"policies", q.definition.id>> ELSE <<"policies">>
  BY <1>2, <1>4, PagePath
<1>6. Is(q.definition, "policies") <=> one BY <1>2, SelectionIs DEF one
<1>7. PathOf(q) = p BY <1>2, <1>5, <1>6, <1>a
<1>8. PathFits(p) BY <1>1, <1>c DEF PathFits
<1> QED BY <1>0, <1>1, <1>7, <1>8, <1>b, PageTold DEF Named, q

(* the path of a notification setting,                                     *)
LEMMA NotificationTells ==
  ASSUME NEW r, RouteFits(r), r.page = "notifications", r.detail = None
  PROVE  Tells(PathOf(r), r)
<1> DEFINE p == PathOf(r)
           q == Parse(p)
           one == r.definition # None
<1>0. Plain(r) BY DEF Plain, Listed
<1>a. p = IF one THEN <<"notifications", r.definition.kind, r.definition.id>>
          ELSE IF r.section = "methods" THEN <<"notifications", "methods">> ELSE <<"notifications">>
  BY <1>0, PagePath
<1>b. p = PathOf(r) OBVIOUS
<1>c. one => r.definition.kind \in {"profiles", "methods"} /\ r.definition.id \in Ids
             /\ r.definition.id # None
             /\ r.definition = [kind |-> r.definition.kind, id |-> r.definition.id]
  BY NavAssumption DEF RouteFits, DefinitionFits
<1> HIDE DEF p, one
<1>1. /\ Nth(p, 1) = "notifications" /\ p # <<>>
      /\ one => Nth(p, 2) = r.definition.kind /\ Nth(p, 3) = r.definition.id
      /\ ~one => Nth(p, 3) = None /\ (Nth(p, 2) = "methods" <=> r.section = "methods")
  BY <1>a, NavAssumption DEF Nth
<1>2. /\ q.page = "notifications" /\ q.detail = None
      /\ q.section = IF Nth(p, 2) = "methods" THEN "methods" ELSE "profiles"
      /\ q.definition = IF Nth(p, 3) = None THEN None
                        ELSE [kind |-> IF Nth(p, 2) = "methods" THEN "methods" ELSE "profiles", id |-> Nth(p, 3)]
  BY <1>1, SaysNotification
<1> HIDE DEF q
<1>3. /\ one => q.definition = r.definition
      /\ ~one => q.definition = None /\ (q.section = "methods" <=> r.section = "methods")
  BY <1>1, <1>2, <1>c
<1>4. Plain(q) BY <1>2 DEF Plain, Listed
<1>5. PathOf(q) = IF q.definition # None THEN <<"notifications", q.definition.kind, q.definition.id>>
          ELSE IF q.section = "methods" THEN <<"notifications", "methods">> ELSE <<"notifications">>
  BY <1>2, <1>4, PagePath
<1>7. PathOf(q) = p BY <1>3, <1>5, <1>a DEF one
<1>8. PathFits(p) BY <1>1, <1>c DEF PathFits
<1> QED BY <1>0, <1>1, <1>7, <1>8, <1>b, PageTold DEF Named, q

(* the path of the history,                                                *)
LEMMA HistoryTells ==
  ASSUME NEW r, RouteFits(r), r.page = "history", r.detail = None
  PROVE  Tells(PathOf(r), r)
<1> DEFINE p == PathOf(r)
           q == Parse(p)
<1>0. Plain(r) /\ r.history # Keep BY DEF Plain, Listed, RouteFits
<1>a. p = IF r.history \in {None, Keep} THEN <<"history">> ELSE <<"history", r.history>>
  BY <1>0, PagePath
<1>b. p = PathOf(r) OBVIOUS
<1> HIDE DEF p
<1>1. Nth(p, 1) = "history" /\ p # <<>> /\ Nth(p, 2) = r.history BY <1>0, <1>a DEF Nth
<1>2. q.page = "history" /\ q.detail = None /\ q.history = r.history BY <1>1, SaysHistory
<1> HIDE DEF q
<1>4. Plain(q) BY <1>2 DEF Plain, Listed
<1>5. PathOf(q) = IF q.history \in {None, Keep} THEN <<"history">> ELSE <<"history", q.history>>
  BY <1>2, <1>4, PagePath
<1>7. PathOf(q) = p BY <1>2, <1>5, <1>a
<1>8. PathFits(p) BY <1>0, <1>1 DEF PathFits
<1> QED BY <1>0, <1>1, <1>7, <1>8, <1>b, PageTold DEF Named, q

(* the path of the settings                                                *)
LEMMA ConfigurationTells ==
  ASSUME NEW r, RouteFits(r), r.page = "configuration", r.detail = None
  PROVE  Tells(PathOf(r), r)
<1> DEFINE p == PathOf(r)
           q == Parse(p)
<1>0. Plain(r) BY DEF Plain, Listed
<1>a. p = <<"settings", "timing">> BY <1>0, PagePath
<1>b. p = PathOf(r) OBVIOUS
<1> HIDE DEF p
<1>1. Nth(p, 1) = "settings" /\ p # <<>> BY <1>a DEF Nth
<1>2. q.page = "configuration" /\ q.detail = None BY <1>1, SaysPage
<1> HIDE DEF q
<1>4. Plain(q) BY <1>2 DEF Plain, Listed
<1>7. PathOf(q) = p BY <1>2, <1>4, <1>a, PagePath
<1>8. PathFits(p) BY <1>1 DEF PathFits
<1> QED BY <1>0, <1>1, <1>7, <1>8, <1>b, PageTold DEF Named, q

(* and the path of all issues.                                             *)
LEMMA IssuesTells ==
  ASSUME NEW r, RouteFits(r), r.page = "problems", Plain(r), r.detail = None
  PROVE  Tells(PathOf(r), r)
<1> DEFINE p == PathOf(r)
           q == Parse(p)
<1>a. p = <<"issues">> BY PagePath
<1>b. p = PathOf(r) OBVIOUS
<1> HIDE DEF p
<1>1. Nth(p, 1) = "issues" /\ Nth(p, 2) = None /\ Nth(p, 4) = None /\ Nth(p, 5) = None /\ p # <<>>
  BY <1>a DEF Nth
<1>2. q.page = "problems" /\ q.detail = None /\ q.report = None /\ q.members = None
  BY <1>1, SaysPage
<1> HIDE DEF q
<1>4. Plain(q) BY <1>2 DEF Plain, Listed
<1>7. PathOf(q) = p BY <1>2, <1>4, <1>a, PagePath
<1>8. PathFits(p) BY <1>1 DEF PathFits
<1> QED BY <1>1, <1>7, <1>8, <1>b, PageTold DEF Named, q

(* Put together: every path says what its route says.                      *)
LEMMA RouteTells ==
  ASSUME NEW r, RouteFits(r)
  PROVE  Tells(PathOf(r), r)
<1>1. r.page \in PageNames BY DEF RouteFits
<1>2. (r.page = "problems" /\ r.report # None) \/ Listed(r) \/ Plain(r) BY DEF Plain
<1>3. CASE r.page = "problems" /\ r.report # None BY <1>3, ReportTells
<1>4. CASE Listed(r) BY <1>4, ListedTells
<1>5. CASE Plain(r) /\ r.detail # None BY <1>5, DetailTells
<1>6. CASE Plain(r) /\ r.detail = None
  BY <1>1, <1>6, SourceTells, PolicyTells, NotificationTells, HistoryTells, ConfigurationTells, IssuesTells
     DEF PageNames
<1> QED BY <1>2, <1>3, <1>4, <1>5, <1>6

(* Selections of the known names fit.                                      *)
LEMMA SelectionFits ==
  ASSUME NEW id \in Ids
  PROVE  /\ \A kind \in {"episode", "node", "device"} :
              DetailFits([kind |-> kind, id |-> id]) /\ [kind |-> kind, id |-> id] \notin {None, Keep}
         /\ \A kind \in {"policies", "profiles", "methods"} :
              DefinitionFits([kind |-> kind, id |-> id]) /\ [kind |-> kind, id |-> id] \notin {None, Keep}
         /\ DetailFits(None) /\ DefinitionFits(None)
BY NavAssumption DEF DetailFits, DefinitionFits

(* The route a path names is one the panel can show. *)
LEMMA ParseFits ==
  ASSUME NEW path, PathFits(path)
  PROVE  /\ RouteFits(Parse(path))
         /\ Scoped(path) => Parse(path).page = "problems" /\ Parse(path).report # None
<1> DEFINE at(i) == Nth(path, i)
           on(kind, id) == [kind |-> kind, id |-> id]
           issue(i) == IF at(i) = "episode" /\ at(i + 1) # None THEN on("episode", at(i + 1)) ELSE None
           r == Parse(path)
<1> HIDE DEF r
<1>1. CASE at(1) = "notification"
 <2>1. r = [Says("problems") EXCEPT !.report = IF at(2) = None THEN "invalid" ELSE at(2), !.detail = issue(3)]
   BY <1>1 DEF Parse, r
 <2>2. DetailFits(issue(3))
  <3>1. CASE issue(3) = None BY <3>1 DEF DetailFits
  <3>2. CASE issue(3) # None
   <4>1. issue(3) = on("episode", at(4)) /\ at(4) \in Ids BY <1>1, <3>2 DEF PathFits
   <4> HIDE DEF at
   <4> QED BY <4>1, SelectionFits
  <3> QED BY <3>1, <3>2
 <2> HIDE DEF issue
 <2>3. /\ r.page = "problems" /\ r.report = (IF at(2) = None THEN "invalid" ELSE at(2)) /\ r.detail = issue(3)
       /\ r.definition = None /\ r.history = None
   BY <2>1 DEF Says
 <2>4. r.report # None BY <2>3, NavAssumption
 <2> QED BY <2>2, <2>3, <2>4, NavAssumption DEF RouteFits, DefinitionFits, PageNames, r
<1>2. CASE at(1) = "issues" /\ at(2) = "notification"
 <2> DEFINE ids == IF at(3) = None THEN <<>> ELSE at(3)
            one == issue(4)
            among == IF one # None /\ \E i \in DOMAIN ids : ids[i] = one.id THEN one ELSE None
 <2>1. r = [Says("problems") EXCEPT !.members = ids, !.detail = among] BY <1>2 DEF Parse, r
 <2>2. DetailFits(one) /\ DetailFits(None)
  <3>1. CASE one = None BY <3>1 DEF DetailFits
  <3>2. CASE one # None
   <4>1. one = on("episode", at(5)) /\ at(5) \in Ids BY <1>2, <3>2 DEF PathFits
   <4> HIDE DEF at
   <4> QED BY <4>1, SelectionFits
  <3> QED BY <3>1, <3>2
 <2>3. DetailFits(among) BY <2>2
 <2> HIDE DEF among
 <2>4. r.page = "problems" /\ r.report = None /\ r.detail = among /\ r.definition = None /\ r.history = None
   BY <2>1 DEF Says
 <2> QED BY <1>2, <2>3, <2>4, NavAssumption DEF RouteFits, DefinitionFits, PageNames, Scoped, r
<1>3. ASSUME at(1) \in {"episode", "node", "device-issues"}, at(2) # None
      PROVE  RouteFits(r)
 <2>1. at(2) \in Ids BY <1>3 DEF PathFits
 <2>2. \E kind \in {"episode", "node", "device"} :
         r = [Says(IF kind = "episode" THEN "problems" ELSE "sources") EXCEPT !.detail = on(kind, at(2))]
   BY <1>3 DEF Parse, r
 <2> HIDE DEF at
 <2>3. PICK kind \in {"episode", "node", "device"} :
         r = [Says(IF kind = "episode" THEN "problems" ELSE "sources") EXCEPT !.detail = on(kind, at(2))]
   BY <2>2
 <2>4. DetailFits(on(kind, at(2))) /\ on(kind, at(2)) # None BY <2>1, SelectionFits
 <2>5. /\ r.page \in {"problems", "sources"} /\ r.report = None /\ r.members = None /\ r.definition = None
       /\ r.history = None /\ r.detail = on(kind, at(2))
   BY <2>3 DEF Says
 <2> HIDE DEF on
 <2> QED BY <2>4, <2>5, NavAssumption DEF RouteFits, DefinitionFits, PageNames
<1>4. CASE at(1) = "history"
 <2>1. r = [Says("history") EXCEPT !.history = at(2)] /\ at(2) # Keep BY <1>4 DEF Parse, r, PathFits
 <2> QED BY <1>4, <2>1, NavAssumption DEF RouteFits, DefinitionFits, DetailFits, PageNames, Says, Scoped, r
<1>5. CASE at(1) = "sources"
 <2>1. r = [Says("sources") EXCEPT !.source = at(2), !.view = IF at(3) = "history" THEN "history" ELSE "source"]
       /\ at(2) # Keep
   BY <1>5 DEF Parse, r, PathFits
 <2> QED BY <1>5, <2>1, NavAssumption DEF RouteFits, DefinitionFits, DetailFits, PageNames, Says, Scoped, r
<1>6. CASE at(1) = "policies"
 <2> DEFINE d == IF at(2) = None THEN None ELSE on("policies", at(2))
 <2>1. r = [Says("policies") EXCEPT !.definition = d] BY <1>6 DEF Parse, r
 <2>2. at(2) # None => at(2) \in Ids BY <1>6 DEF PathFits
 <2>3. DefinitionFits(d) /\ (d # None => d.kind = "policies")
  <3>1. CASE at(2) = None BY <3>1 DEF DefinitionFits
  <3>2. CASE at(2) # None BY <2>2, <3>2, SelectionFits
  <3> QED BY <3>1, <3>2
 <2> HIDE DEF d
 <2> QED BY <1>6, <2>1, <2>3, NavAssumption DEF RouteFits, DetailFits, PageNames, Says, Scoped, r
<1>7. CASE at(1) = "notifications"
 <2> DEFINE kind == IF at(2) = "methods" THEN "methods" ELSE "profiles"
            d == IF at(3) = None THEN None ELSE on(kind, at(3))
 <2>1. r = [Says("notifications") EXCEPT !.section = kind, !.definition = d] BY <1>7 DEF Parse, r
 <2>2. at(3) # None => at(3) \in Ids BY <1>7 DEF PathFits
 <2>3. DefinitionFits(d) /\ (d # None => d.kind \in {"profiles", "methods"}) /\ kind # Keep
  <3>1. CASE at(3) = None BY <3>1, NavAssumption DEF DefinitionFits
  <3>2. CASE at(3) # None BY <2>2, <3>2, SelectionFits, NavAssumption
  <3> QED BY <3>1, <3>2
 <2> HIDE DEF d, kind
 <2> QED BY <1>7, <2>1, <2>3, NavAssumption DEF RouteFits, DetailFits, PageNames, Says, Scoped, r
<1>8. CASE at(1) = "settings"
 <2>1. r = Says("configuration") BY <1>8 DEF Parse, r
 <2> QED BY <1>8, <2>1, NavAssumption DEF RouteFits, DefinitionFits, DetailFits, PageNames, Says, Scoped, r
<1>9. CASE /\ at(1) # "notification" /\ ~(at(1) = "issues" /\ at(2) = "notification")
           /\ ~(at(1) \in {"episode", "node", "device-issues"} /\ at(2) # None)
           /\ at(1) \notin {"history", "sources", "policies", "notifications", "settings"}
 <2>1. r = Says("problems") BY <1>9 DEF Parse, r
 <2> QED BY <1>9, <2>1, NavAssumption DEF RouteFits, DefinitionFits, DetailFits, PageNames, Says, Scoped, r
<1>10. at(1) \in {"episode", "node", "device-issues"} => ~Scoped(path) BY DEF Scoped
<1> HIDE DEF at
<1> QED BY <1>1, <1>2, <1>3, <1>4, <1>5, <1>6, <1>7, <1>8, <1>9, <1>10 DEF r

(* The links that are followed fit.                                        *)
LEMMA LinkFits ==
  ASSUME NEW path \in Links \cup {<<>>}
  PROVE  PathFits(path)
<1>1. ASSUME NEW i
      PROVE  Nth(path, i) \in Ids \cup {None}
 <2>1. CASE i \notin DOMAIN path BY <2>1 DEF Nth
 <2>2. CASE i \in DOMAIN path
  <3>1. path \in Links BY <2>2
  <3>2. path[i] \in {path[k] : k \in DOMAIN path} BY <2>2
  <3>3. path[i] \in UNION {{p[k] : k \in DOMAIN p} : p \in Links} BY <3>1, <3>2
  <3> QED BY <2>2, <3>3 DEF Nth, Ids, Segments
 <2> QED BY <2>1, <2>2
<1> QED BY <1>1, NavAssumption DEF PathFits

(* A named path tells of the route its path names, also what it is scoped  *)
(* to.                                                                     *)
LEMMA NamedTells ==
  ASSUME NEW path, PathFits(path)
  PROVE  /\ RouteFits(Parse(path)) /\ Tells(Named(path), Parse(path))
         /\ Scoped(path) => /\ Scoped(Named(path)) /\ Nth(Named(path), 2) = Parse(path).report
                            /\ Parse(path).page = "problems" /\ Parse(path).report # None
BY ParseFits, RouteTells DEF Named, Tells

(* A context a page was left with.                                         *)
ContextFits(x) ==
  /\ x = [search |-> x.search, mobile |-> x.mobile, section |-> x.section]
  /\ x.section # Keep

(* The context of a card fits.                                             *)
LEMMA ContextOfFits ==
  ASSUME NEW c, CardFits(c)
  PROVE  ContextFits(ContextOf(c))
BY DEF ContextFits, ContextOf, CardFits

(* What is shown of a route is at its path, but for the issue of a report  *)
(* that is still to load.                                                  *)
LEMMA ShownIs ==
  ASSUME NEW c, CardFits(c), NEW r, RouteFits(r), NEW context,
         context = None \/ ContextFits(context),
         NEW q, q = Shown(c, r, context)
  PROVE  /\ CardFits(q) /\ q.page = r.page /\ q.report = r.report
         /\ Seen(q) = PathOf(r) \/ Dialog(PathOf(r))
         /\ q.pending # None => Dialog(PathOf(r))
<1> DEFINE d == Restore(c, context)
           late == r.report # None /\ Is(r.detail, "episode")
<1>1. d = [x \in CardFields |-> d[x]] /\ Keep \notin {d.source, d.view, d.section}
 <2>1. CASE context = None BY <2>1 DEF Restore, CardFits
 <2>2. CASE context # None
  <3>1. d = [c EXCEPT !.search = context.search, !.mobile = context.mobile, !.section = context.section]
    BY <2>2 DEF Restore
  <3> HIDE DEF d
  <3> QED BY <2>2, <3>1 DEF CardFits, ContextFits, CardFields
 <2> QED BY <2>1, <2>2
<1> DEFINE members == IF r.report # None THEN <<>> ELSE r.members
           pending == IF late THEN r.detail ELSE None
           source == IF r.source = Keep THEN d.source ELSE r.source
           view == IF r.view = Keep THEN d.view ELSE r.view
           section == IF r.section = Keep THEN d.section ELSE r.section
           detail == IF late THEN None ELSE r.detail
           e == [d EXCEPT !.page = r.page, !.report = r.report, !.members = members, !.pending = pending,
                          !.source = source, !.view = view, !.definition = r.definition,
                          !.section = section, !.detail = detail, !.history = r.history]
           search == IF context = None /\ e.members # None THEN "" ELSE e.search
           mobile == IF r.page = "sources" THEN r.source \notin {None, Keep} ELSE e.mobile
<1>2. q = [e EXCEPT !.search = search, !.mobile = mobile] BY DEF Shown
<1> HIDE DEF members, pending, source, view, section, detail, d, search, mobile
<1>3. /\ e = [x \in CardFields |-> e[x]]
      /\ e.page = r.page /\ e.report = r.report /\ e.members = members /\ e.pending = pending
      /\ e.source = source /\ e.view = view /\ e.definition = r.definition /\ e.section = section
      /\ e.history = r.history /\ e.detail = detail
  BY <1>1 DEF CardFields
<1> HIDE DEF e
<1>5. /\ q = [x \in CardFields |-> q[x]]
      /\ q.page = r.page /\ q.report = r.report /\ q.members = members /\ q.pending = pending
      /\ q.source = source /\ q.view = view /\ q.definition = r.definition /\ q.section = section
      /\ q.history = r.history /\ q.detail = detail
  BY <1>2, <1>3 DEF CardFields
<1>6. Keep \notin {source, view, section} BY <1>1 DEF source, view, section
<1>7. late => r.detail # None /\ r.detail.kind = "episode" /\ r.page = "problems" /\ r.report # None
  BY NavAssumption DEF RouteFits, Is
<1>8. r.report # None => members # None BY NavAssumption DEF members
<1>9. CardFits(q)
 <2>2. /\ q.page \in PageNames /\ DetailFits(q.detail) /\ DefinitionFits(q.definition)
       /\ q.report # None => q.members # None
       /\ Keep \notin {q.source, q.history, q.view, q.section}
   BY <1>5, <1>6, <1>8 DEF RouteFits, detail, DetailFits
 <2>3. q.pending # None => late BY <1>5 DEF pending
 <2>4. late => /\ DetailFits(q.pending) /\ q.pending.kind = "episode"
               /\ q.page = "problems" /\ q.report # None /\ q.members = <<>> /\ q.detail = None
   BY <1>5, <1>7 DEF RouteFits, pending, members, detail
 <2> HIDE DEF late
 <2> QED BY <1>5, <2>2, <2>3, <2>4 DEF CardFits
<1>10. Tells(PathOf(r), r) BY RouteTells
<1>11. late => Dialog(PathOf(r)) BY <1>7, <1>10 DEF Tells
<1>12. q.pending # None => late BY <1>5 DEF pending
<1>13. ASSUME ~late
       PROVE  Seen(q) = PathOf(r)
 <2> DEFINE rq == RouteOf(q)
 <2>1. /\ rq.page = r.page /\ rq.detail = r.detail
       /\ rq.report = (IF r.page = "problems" THEN r.report ELSE None)
       /\ rq.members = (IF r.page = "problems" THEN members ELSE None)
       /\ r.page = "sources" => rq.source = source
       /\ rq.view = view /\ rq.section = section
       /\ rq.history = (IF r.page = "history" THEN r.history ELSE None)
   BY <1>5, <1>13 DEF RouteOf, detail
 <2>2. rq.definition = r.definition
  <3>1. CASE r.definition = None BY <1>5, <3>1, SelectionIs DEF RouteOf
  <3>2. CASE r.definition # None
   <4>1. \/ r.page = "policies" /\ Is(r.definition, "policies")
         \/ r.page = "notifications" /\ (Is(r.definition, "profiles") \/ Is(r.definition, "methods"))
     BY <3>2, SelectionIs DEF RouteFits
   <4> QED BY <1>5, <4>1 DEF RouteOf
  <3> QED BY <3>1, <3>2
 <2> HIDE DEF rq
 <2>3. CASE r.page = "problems" /\ r.report # None
  <3>1. ~Is(r.detail, "episode") BY <1>13, <2>3
  <3>2. PathOf(rq) = <<"notification", r.report>> BY <2>1, <2>3, <3>1, ReportPath
  <3>3. PathOf(r) = <<"notification", r.report>> BY <2>3, <3>1, ReportPath
  <3> QED BY <3>2, <3>3 DEF Seen, rq
 <2>4. CASE ~(r.page = "problems" /\ r.report # None)
  <3>1. r.report = None BY <2>4 DEF RouteFits
  <3>2. rq.report = r.report /\ rq.members = r.members /\ rq.history = r.history
    BY <2>1, <3>1 DEF RouteFits, members
  <3>3. r.page = "sources" /\ r.detail = None => rq.source = r.source /\ rq.view = r.view
    BY <2>1 DEF RouteFits, source, view
  <3>4. r.page = "notifications" => rq.section = r.section BY <2>1 DEF RouteFits, section
  <3> QED BY <2>1, <2>2, <3>2, <3>3, <3>4, SamePath DEF Seen, rq
 <2> QED BY <2>3, <2>4
<1> QED BY <1>5, <1>9, <1>11, <1>12, <1>13

-----------------------------------------------------------------------------
(* The state of the navigation, and the invariant. *)

(* Sequences of anything, with an entry pushed after at or stored again at *)
(* at.                                                                     *)
IsSeq(f) == f \in Seq({f[i] : i \in DOMAIN f})

(* A function on 1..n is a sequence.                                       *)
LEMMA SeqOf ==
  ASSUME NEW n \in Nat, NEW f, f = [i \in 1..n |-> f[i]]
  PROVE  IsSeq(f) /\ Len(f) = n
<1>1. f \in [1..n -> {f[i] : i \in DOMAIN f}] OBVIOUS
<1> QED BY <1>1 DEF IsSeq

Grown(f, at, x) == Append(SubSeq(f, 1, at), x)

(* A history cut after a position and grown by one entry.                  *)
LEMMA Cut ==
  ASSUME NEW f, IsSeq(f), NEW at \in 1..Len(f), NEW x, NEW g, g = Grown(f, at, x)
  PROVE  /\ IsSeq(g) /\ Len(g) = at + 1
         /\ \A i \in 1..at : g[i] = f[i]
         /\ g[at + 1] = x
<1> DEFINE T == {f[i] : i \in DOMAIN f} h == SubSeq(f, 1, at)
<1> HIDE DEF T
<1>0. f \in Seq(T) BY DEF IsSeq, T
<1>1. h \in Seq(T) /\ Len(h) = at /\ \A i \in 1..at : h[i] = f[i] BY <1>0
<1> HIDE DEF h
<1> DEFINE U == T \cup {x}
<1>2. h \in Seq(U) /\ x \in U BY <1>1
<1>3. g = Append(h, x) BY DEF h, Grown
<1>a. at \in Nat /\ at + 1 \in Nat BY <1>0
<1> HIDE DEF U
<1>4. g \in Seq(U) /\ Len(g) = at + 1 /\ (\A i \in 1..at : g[i] = h[i]) /\ g[at + 1] = x
  BY <1>1, <1>2, <1>3, <1>a
<1>5. g = [i \in 1..(at + 1) |-> g[i]] BY <1>4
<1>6. IsSeq(g) BY <1>5, <1>a, SeqOf
<1> QED BY <1>1, <1>4, <1>6

Refiled(f, at, v) == [f EXCEPT ![at].saved = v]

(* An entry that gets another stored view.                                 *)
LEMMA Filed ==
  ASSUME NEW f, IsSeq(f), NEW at \in 1..Len(f), NEW v, f[at] = [path |-> f[at].path, saved |-> f[at].saved], NEW g, g = Refiled(f, at, v)
  PROVE  /\ IsSeq(g) /\ Len(g) = Len(f)
         /\ \A i \in 1..Len(f) : i # at => g[i] = f[i]
         /\ g[at] = [path |-> f[at].path, saved |-> v]
<1> DEFINE T == {f[i] : i \in DOMAIN f}
<1> HIDE DEF T
<1>0. f \in Seq(T) BY DEF IsSeq, T
<1>1. DOMAIN f = 1..Len(f) /\ Len(f) \in Nat BY <1>0
<1>2. g = [i \in 1..Len(f) |-> g[i]] BY <1>1 DEF Refiled
<1>3. (\A i \in 1..Len(f) : i # at => g[i] = f[i])
         /\ g[at] = [path |-> f[at].path, saved |-> v]
  BY <1>1 DEF Refiled
<1> QED BY <1>1, <1>2, <1>3, SeqOf

-----------------------------------------------------------------------------
(* The shape of the state, and of an entry of the session history. An      *)
(* entry is dead when a view of another place is stored in it: its dialog  *)
(* was closed by Escape, an issue that ended or a report that came in, and *)
(* the view was captured afterwards.                                       *)
StateFits(s) ==
  /\ s = [x \in {"card", "nav", "tab"} |-> s[x]]
  /\ s.nav = [x \in {"id", "last", "sequence", "entries", "origins", "ha", "offered"} |-> s.nav[x]]
  /\ s.tab = [x \in {"entries", "at"} |-> s.tab[x]]

Dead(e) == Given(e.saved) /\ ~Stored(e)

EntryFits(e) ==
  /\ e = [path |-> e.path, saved |-> e.saved]
  /\ PathFits(e.path) /\ e.saved.id \in Nat
  /\ Given(e.saved) =>
       /\ RouteFits(e.saved.route) /\ ContextFits(e.saved.context)
       /\ Stored(e) \/ Dialog(Named(e.path))
       /\ Scoped(e.path) => e.saved.route.page = "problems"
                            /\ e.saved.route.report = Parse(e.path).report

Beside(entries) ==
  \A i \in 1..Len(entries) :
    i > 1 => Named(entries[i].path) # Named(entries[i - 1].path) \/ Dead(entries[i - 1])

(* A number that has an origin: the entry behind holds that origin, at its *)
(* address or dead.                                                        *)
Behind(s, i, id) ==
  id \in DOMAIN s.nav.origins =>
    /\ i > 1 /\ Given(s.tab.entries[i - 1].saved)
    /\ Stored(s.tab.entries[i - 1]) => s.tab.entries[i - 1].saved.id = s.nav.origins[id]

Numbered(s) ==
  /\ DOMAIN s.nav.origins \subseteq 1..s.nav.sequence
  /\ \A i \in 1..Len(s.tab.entries) :
       Given(s.tab.entries[i].saved) =>
         s.tab.entries[i].saved.id \in 1..s.nav.sequence /\ Behind(s, i, s.tab.entries[i].saved.id)

Held(s, fresh) ==
  /\ StateFits(s) /\ CardFits(s.card) /\ s.nav.sequence \in Nat
  /\ \A id \in DOMAIN s.nav.entries : ContextFits(s.nav.entries[id].context)
  /\ IsSeq(s.tab.entries) /\ s.tab.at \in 1..Len(s.tab.entries)
  /\ \A i \in 1..Len(s.tab.entries) : EntryFits(s.tab.entries[i])
  /\ Beside(s.tab.entries)
  /\ fresh => Numbered(s)

(* The entry the panel is at; what the card keeps of the path it entered   *)
(* last, and of the address of the entry; the numbers, until the page is   *)
(* loaded again.                                                           *)
Here(s) == s.tab.entries[s.tab.at]

Follows(c, last) ==
  /\ Seen(c) = last \/ Dialog(last)
  /\ Scoped(last) => c.page = "problems" /\ c.report = Nth(last, 2) /\ c.report # None
  /\ c.pending # None => Dialog(last)

Belongs(s) ==
  /\ Seen(s.card) = Named(Here(s).path) \/ Dialog(Named(Here(s).path))
  /\ s.nav.last = Named(Here(s).path) \/ Dead(Here(s))
  /\ Scoped(Here(s).path) => /\ s.card.page = "problems" /\ s.card.report = Parse(Here(s).path).report
                             /\ s.card.report # None

Counts(s) ==
  /\ s.nav.id \in 1..s.nav.sequence /\ Behind(s, s.tab.at, s.nav.id)
  /\ Given(Here(s).saved) => s.nav.id = Here(s).saved.id \/ Dead(Here(s))
  /\ s.nav.offered # None => s.nav.id \in DOMAIN s.nav.origins /\ s.nav.offered = s.nav.origins[s.nav.id]

Good(s, fresh) ==
  /\ Held(s, fresh) /\ Follows(s.card, s.nav.last) /\ Belongs(s)
  /\ s.nav.id \in Nat \ {0}
  /\ fresh => Counts(s)

(* updateReturn offers the origin of the view or nothing. *)
LEMMA ReturnIs ==
  ASSUME NEW c, NEW n
  PROVE  Return(c, n) # None => n.id \in DOMAIN n.origins /\ Return(c, n) = n.origins[n.id]
<1> DEFINE origin == IF n.id \in DOMAIN n.origins THEN n.origins[n.id] ELSE None
<1>1. Return(c, n) \in {None, origin} BY DEF Return
<1> QED BY <1>1

(* applyPath either stays or enters. *)
Entering(s, r, state, c, q) ==
  LET id == IF Given(state) THEN state.id ELSE s.nav.sequence + 1
  IN /\ StateFits(q) /\ q.card = c /\ q.tab = s.tab
     /\ q.nav.last = PathOf(r) /\ q.nav.id = id
     /\ q.nav.sequence = IF Given(state) THEN s.nav.sequence ELSE s.nav.sequence + 1
     /\ q.nav.entries = With(s.nav.entries, id, [route |-> r, context |-> ContextOf(c)])
     /\ q.nav.origins = s.nav.origins
     /\ q.nav.offered # None => id \in DOMAIN q.nav.origins /\ q.nav.offered = q.nav.origins[id]

(* enter leaves the state alone.                                           *)
Staying(s, r, state, q) == q = s /\ PathOf(r) = s.nav.last /\ (Given(state) => state.id = s.nav.id)

(* WorkspaceNavigation.enter stays where it is or shows the route.         *)
LEMMA EnterIs ==
  ASSUME NEW s, StateFits(s), NEW r, NEW state, NEW c, NEW q, q = Enter(s, r, state, c)
  PROVE  Staying(s, r, state, q) \/ Entering(s, r, state, c, q)
<1> DEFINE id == IF Given(state) THEN state.id ELSE s.nav.sequence + 1
           sequence == IF Given(state) THEN s.nav.sequence ELSE s.nav.sequence + 1
           memory == With(s.nav.entries, id, [route |-> r, context |-> ContextOf(c)])
           n == [s.nav EXCEPT !.last = PathOf(r), !.id = id, !.sequence = sequence, !.entries = memory]
           offered == Return(c, n)
           stays == PathOf(r) = s.nav.last /\ (Given(state) => id = s.nav.id)
<1>1. q = IF stays THEN s ELSE [s EXCEPT !.card = c, !.nav = [n EXCEPT !.offered = offered]]
  BY DEF Enter
<1>2. CASE stays BY <1>1, <1>2 DEF Staying
<1>3. CASE ~stays
 <2>1. q = [s EXCEPT !.card = c, !.nav = [n EXCEPT !.offered = offered]] BY <1>1, <1>3
 <2>2. offered # None => n.id \in DOMAIN n.origins /\ offered = n.origins[n.id] BY ReturnIs
 <2> HIDE DEF id, sequence, memory, offered
 <2>3. /\ n = [x \in {"id", "last", "sequence", "entries", "origins", "ha", "offered"} |-> n[x]]
       /\ n.last = PathOf(r) /\ n.id = id /\ n.sequence = sequence /\ n.entries = memory
       /\ n.origins = s.nav.origins
   BY DEF StateFits
 <2> HIDE DEF n
 <2> DEFINE m == [n EXCEPT !.offered = offered]
 <2>4. /\ m = [x \in {"id", "last", "sequence", "entries", "origins", "ha", "offered"} |-> m[x]]
       /\ m.last = PathOf(r) /\ m.id = id /\ m.sequence = sequence /\ m.entries = memory
       /\ m.origins = s.nav.origins /\ m.offered = offered
   BY <2>3
 <2> HIDE DEF m
 <2>5. q = [s EXCEPT !.card = c, !.nav = m] BY <2>1 DEF m
 <2>6. q.card = c /\ q.nav = m /\ q.tab = s.tab /\ q = [x \in {"card", "nav", "tab"} |-> q[x]]
   BY <2>5 DEF StateFits
 <2>7. StateFits(q) BY <2>4, <2>6 DEF StateFits
 <2>8. offered # None => id \in DOMAIN m.origins /\ offered = m.origins[id] BY <2>2, <2>3, <2>4
 <2> QED BY <2>4, <2>6, <2>7, <2>8 DEF Entering, id, sequence, memory
<1> QED BY <1>2, <1>3

-----------------------------------------------------------------------------
(* Entering a route. *)

(* The address of the entry the panel is at says what its path says.       *)
LEMMA EntryIs ==
  ASSUME NEW s, NEW fresh, Held(s, fresh)
  PROVE  /\ s.tab.at \in Nat \ {0} /\ EntryFits(Here(s)) /\ PathFits(Here(s).path)
         /\ RouteFits(Parse(Here(s).path)) /\ Tells(Named(Here(s).path), Parse(Here(s).path))
         /\ Scoped(Here(s).path) =>
              /\ Scoped(Named(Here(s).path)) /\ Nth(Named(Here(s).path), 2) = Parse(Here(s).path).report
              /\ Parse(Here(s).path).page = "problems" /\ Parse(Here(s).path).report # None
<1>1. EntryFits(Here(s)) /\ s.tab.at \in Nat \ {0}
 <2>1. Len(s.tab.entries) \in Nat BY DEF Held, IsSeq
 <2> QED BY <2>1 DEF Held, Here
<1>2. PathFits(Here(s).path) BY <1>1 DEF EntryFits
<1> QED BY <1>1, <1>2, NamedTells

(* The context of a stored view is one a page was left with. *)
LEMMA ContextForFits ==
  ASSUME NEW s, NEW fresh, Held(s, fresh), NEW state, Given(state) => ContextFits(state.context)
  PROVE  ContextFor(s, state) = None \/ ContextFits(ContextFor(s, state))
BY DEF ContextFor, Held

(* A route is what the address of the entry says or what it has stored. *)
Leads(s, r, state) ==
  \/ Given(state) /\ state = Here(s).saved /\ r = state.route
  \/ ~Given(state) /\ ~Stored(Here(s)) /\ r = Parse(Here(s).path)

(* Where apply is led: to the place of the entry, or to a dialog gone      *)
(* since.                                                                  *)
LEMMA LedTo ==
  ASSUME NEW s, NEW fresh, Held(s, fresh), NEW r, NEW state, Leads(s, r, state)
  PROVE  /\ RouteFits(r) /\ Tells(PathOf(r), r)
         /\ ContextFor(s, state) = None \/ ContextFits(ContextFor(s, state))
         /\ PathOf(r) = Named(Here(s).path) \/ (Dead(Here(s)) /\ Dialog(Named(Here(s).path)))
         /\ Scoped(Here(s).path) => /\ r.page = "problems" /\ r.report = Parse(Here(s).path).report
                                    /\ r.report # None
         /\ Given(state) => ContextFits(state.context) /\ state.id \in Nat \ {0}
<1> DEFINE e == Here(s)
<1>0. EntryFits(e) /\ RouteFits(Parse(e.path)) /\ (Scoped(e.path) => Parse(e.path).page = "problems" /\ Parse(e.path).report # None)
  BY EntryIs
<1> HIDE DEF e
<1>1. CASE Given(state)
 <2>1. state = e.saved /\ r = state.route BY <1>1 DEF Leads, e
 <2>2. RouteFits(r) /\ ContextFits(state.context) /\ (Stored(e) \/ Dialog(Named(e.path)))
       /\ (Scoped(e.path) => r.page = "problems" /\ r.report = Parse(e.path).report)
   BY <1>0, <1>1, <2>1 DEF EntryFits
 <2>3. Stored(e) => PathOf(r) = Named(e.path) BY <2>1 DEF Stored, Named
 <2>4. ~Stored(e) => Dead(e) BY <1>1, <2>1 DEF Dead
 <2>5. ContextFor(s, state) = None \/ ContextFits(ContextFor(s, state)) BY <2>2, ContextForFits
 <2>6. state.id \in Nat \ {0} BY <1>0, <1>1, <2>1 DEF EntryFits, Given
 <2>7. Tells(PathOf(r), r) BY <2>2, RouteTells
 <2> QED BY <1>0, <2>2, <2>3, <2>4, <2>5, <2>6, <2>7 DEF e
<1>2. CASE ~Given(state)
 <2>1. r = Parse(e.path) BY <1>2 DEF Leads, e
 <2>2. ContextFor(s, state) = None BY <1>2 DEF ContextFor
 <2>3. Tells(PathOf(r), r) BY <1>0, <2>1, RouteTells
 <2> QED BY <1>0, <1>2, <2>1, <2>2, <2>3 DEF Named, e
<1> QED BY <1>1, <1>2

(* Showing the route of the entry is good.                                 *)
LEMMA Entered ==
  ASSUME NEW s, NEW fresh, Held(s, fresh), NEW r, NEW state, Leads(s, r, state),
         NEW c, c = Shown(s.card, r, ContextFor(s, state)),
         NEW q, Entering(s, r, state, c, q)
  PROVE  Good(q, fresh)
<1> DEFINE e == Here(s)
           p == PathOf(r)
           id == IF Given(state) THEN state.id ELSE s.nav.sequence + 1
<1>1. /\ RouteFits(r) /\ Tells(p, r)
      /\ ContextFor(s, state) = None \/ ContextFits(ContextFor(s, state))
      /\ p = Named(e.path) \/ (Dead(e) /\ Dialog(Named(e.path)))
      /\ Scoped(e.path) => r.page = "problems" /\ r.report = Parse(e.path).report /\ r.report # None
      /\ Given(state) => ContextFits(state.context) /\ state.id \in Nat \ {0}
  BY LedTo
<1>2. CardFits(s.card) BY DEF Held
<1>3. /\ CardFits(c) /\ c.page = r.page /\ c.report = r.report
      /\ Seen(c) = p \/ Dialog(p)
      /\ c.pending # None => Dialog(p)
  BY <1>1, <1>2, ShownIs
<1>4. /\ StateFits(q) /\ q.card = c /\ q.tab = s.tab
      /\ q.nav.last = p /\ q.nav.id = id
      /\ q.nav.sequence = (IF Given(state) THEN s.nav.sequence ELSE s.nav.sequence + 1)
      /\ q.nav.entries = With(s.nav.entries, id, [route |-> r, context |-> ContextOf(c)])
      /\ q.nav.origins = s.nav.origins
      /\ q.nav.offered # None => id \in DOMAIN q.nav.origins /\ q.nav.offered = q.nav.origins[id]
  BY DEF Entering
<1>5. Here(q) = e BY <1>4 DEF Here
<1> HIDE DEF p, e
<1>6. Follows(q.card, q.nav.last) BY <1>1, <1>3, <1>4 DEF Follows, Tells
<1>7. Belongs(q) BY <1>1, <1>3, <1>4, <1>5 DEF Belongs
<1>8. s.nav.sequence \in Nat /\ id \in Nat \ {0} BY <1>1 DEF Held
<1>9. ASSUME NEW k \in DOMAIN q.nav.entries
      PROVE  ContextFits(q.nav.entries[k].context)
 <2>1. ContextFits(ContextOf(c)) BY <1>3, ContextOfFits
 <2>2. CASE k = id BY <1>4, <2>1, <2>2 DEF With
 <2>3. CASE k # id BY <1>4, <2>3 DEF With, Held
 <2> QED BY <2>2, <2>3
<1>10. ASSUME fresh
       PROVE  Numbered(q) /\ q.nav.id \in 1..q.nav.sequence
              /\ (~Given(state) => q.nav.id \notin DOMAIN q.nav.origins)
              /\ (Given(state) => Behind(q, q.tab.at, q.nav.id))
 <2>1. Numbered(s) BY <1>10 DEF Held
 <2>2. 1..s.nav.sequence \subseteq 1..q.nav.sequence BY <1>4, <1>8
 <2>3. \A i, k : Behind(s, i, k) => Behind(q, i, k) BY <1>4 DEF Behind
 <2>4. Numbered(q)
  <3>1. DOMAIN q.nav.origins \subseteq 1..q.nav.sequence BY <1>4, <2>1, <2>2 DEF Numbered
  <3>2. ASSUME NEW i \in 1..Len(q.tab.entries), Given(q.tab.entries[i].saved)
        PROVE  q.tab.entries[i].saved.id \in 1..q.nav.sequence /\ Behind(q, i, q.tab.entries[i].saved.id)
   <4>1. s.tab.entries[i].saved.id \in 1..s.nav.sequence /\ Behind(s, i, s.tab.entries[i].saved.id)
     BY <1>4, <2>1, <3>2 DEF Numbered
   <4>2. Behind(q, i, s.tab.entries[i].saved.id) BY <4>1, <2>3
   <4> QED BY <1>4, <2>2, <4>1, <4>2
  <3> QED BY <3>1, <3>2 DEF Numbered
 <2>5. CASE Given(state)
  <3>1. state = s.tab.entries[s.tab.at].saved /\ s.tab.at \in 1..Len(s.tab.entries)
    BY <2>5 DEF Leads, Here, Held
  <3>2. state.id \in 1..s.nav.sequence /\ Behind(s, s.tab.at, state.id)
    BY <2>1, <2>5, <3>1 DEF Numbered
  <3>3. Behind(q, s.tab.at, state.id) BY <3>2, <2>3
  <3> QED BY <1>4, <2>2, <2>4, <2>5, <3>2, <3>3
 <2>6. CASE ~Given(state)
  <3>1. id = s.nav.sequence + 1 /\ q.nav.sequence = s.nav.sequence + 1 BY <1>4, <2>6
  <3>2. id \notin DOMAIN q.nav.origins BY <1>4, <1>8, <2>1, <3>1 DEF Numbered
  <3>3. id \in 1..q.nav.sequence BY <1>8, <3>1
  <3> HIDE DEF id
  <3> QED BY <1>4, <2>4, <2>6, <3>2, <3>3
 <2> QED BY <2>5, <2>6
<1>11. ASSUME fresh
       PROVE  Counts(q)
 <2>1. Behind(q, q.tab.at, q.nav.id) BY <1>10, <1>11 DEF Behind
 <2>2. Given(e.saved) => q.nav.id = e.saved.id \/ Dead(e) BY <1>4 DEF Leads, e, Dead
 <2> QED BY <1>4, <1>5, <1>10, <1>11, <2>1, <2>2 DEF Counts
<1>12. q.nav.sequence \in Nat /\ q.nav.id \in Nat \ {0} BY <1>4, <1>8
<1>13. Held(q, fresh) BY <1>3, <1>4, <1>9, <1>10, <1>12 DEF Held
<1> QED BY <1>6, <1>7, <1>11, <1>12, <1>13 DEF Good

(* apply enters a route the entry leads to.                                *)
LEMMA ApplyIs ==
  ASSUME NEW s, NEW fresh, Held(s, fresh), NEW given, given = Here(s).saved \/ ~Given(given),
         NEW q, q = Apply(s, Here(s).path, given)
  PROVE  \E r, state, c :
           /\ Leads(s, r, state) /\ c = Shown(s.card, r, ContextFor(s, state))
           /\ Staying(s, r, state, q) \/ Entering(s, r, state, c, q)
           /\ ~Given(given) => PathOf(r) = Named(Here(s).path)
           /\ given = Here(s).saved => state = Here(s).saved
<1> DEFINE e == Here(s)
           state == StateOf(s, e.path, given)
           r == IF Given(state) THEN state.route ELSE Parse(e.path)
           c == Shown(s.card, r, ContextFor(s, state))
<1>1. q = Enter(s, r, state, c) BY DEF Apply
<1>2. state = IF ~Given(given) /\ Stored(e) THEN e.saved ELSE given BY DEF StateOf, Stored, Here
<1> HIDE DEF state, e
<1>3. Given(state) => state = e.saved BY <1>2 DEF e
<1>4. ~Given(state) => ~Stored(e) BY <1>2 DEF Stored, e
<1>5. Leads(s, r, state) BY <1>3, <1>4 DEF Leads, e
<1>6. ~Given(given) => PathOf(r) = Named(e.path) BY <1>2, <1>3, <1>4 DEF Stored, Named
<1>7. StateFits(s) BY DEF Held
<1> HIDE DEF r, c
<1>8. Staying(s, r, state, q) \/ Entering(s, r, state, c, q) BY <1>1, <1>7, EnterIs
<1>9. c = Shown(s.card, r, ContextFor(s, state)) BY DEF c
<1>10. given = e.saved => state = e.saved BY <1>2 DEF Stored
<1> QED BY <1>5, <1>6, <1>8, <1>9, <1>10 DEF e

(* A step that touches nothing but the path of the router and the memory  *)
(* of the views.                                                           *)
LEMMA Alike ==
  ASSUME NEW s, NEW fresh, NEW q, StateFits(q), q.card = s.card, q.tab = s.tab,
         q.nav.id = s.nav.id, q.nav.last = s.nav.last, q.nav.sequence = s.nav.sequence,
         q.nav.origins = s.nav.origins, q.nav.offered = s.nav.offered,
         \A id \in DOMAIN q.nav.entries : ContextFits(q.nav.entries[id].context)
  PROVE  /\ Held(s, fresh) => Held(q, fresh)
         /\ Good(s, fresh) => Good(q, fresh)
<1>1. \A i, id : Behind(q, i, id) <=> Behind(s, i, id) BY DEF Behind
<1>2. Numbered(s) => Numbered(q) BY <1>1 DEF Numbered
<1>3. Here(q) = Here(s) BY DEF Here
<1>4. Counts(s) => Counts(q) BY <1>1, <1>3 DEF Counts
<1>5. Held(s, fresh) => Held(q, fresh) BY <1>2 DEF Held
<1>6. Belongs(s) => Belongs(q) BY <1>3 DEF Belongs
<1> QED BY <1>4, <1>5, <1>6 DEF Good

(* The route Home Assistant sets for the address keeps a good state.       *)
LEMMA RouteKeeps ==
  ASSUME NEW s, NEW fresh, Good(s, fresh), NEW q, q = SetRoute(s, Here(s).path)
  PROVE  Good(q, fresh)
<1> DEFINE path == Here(s).path
           t == [s EXCEPT !.nav.ha = path]
<1>1. CASE path = s.nav.ha BY <1>1 DEF SetRoute
<1>2. CASE path # s.nav.ha
 <2>1. StateFits(s) /\ Held(s, fresh) BY DEF Good, Held
 <2>a. t = [s EXCEPT !.nav.ha = path] OBVIOUS
 <2>b. q = Apply(t, path, NoView) BY <1>2 DEF SetRoute
 <2> HIDE DEF t, path
 <2>2. /\ StateFits(t) /\ t.card = s.card /\ t.tab = s.tab
       /\ t.nav.id = s.nav.id /\ t.nav.last = s.nav.last /\ t.nav.sequence = s.nav.sequence
       /\ t.nav.origins = s.nav.origins /\ t.nav.offered = s.nav.offered
       /\ t.nav.entries = s.nav.entries
   BY <2>1, <2>a DEF StateFits
 <2>4. \A id \in DOMAIN t.nav.entries : ContextFits(t.nav.entries[id].context)
   BY <2>1, <2>2 DEF Held
 <2>5. Good(t, fresh) /\ Held(t, fresh) BY <2>1, <2>2, <2>4, Alike
 <2>6. Here(t).path = path BY <2>2 DEF Here, path
 <2>7. ~Given(NoView) BY DEF NoView, Given
 <2>8. PICK r, state, c :
          /\ Leads(t, r, state) /\ c = Shown(t.card, r, ContextFor(t, state))
          /\ Staying(t, r, state, q) \/ Entering(t, r, state, c, q)
  <3>1. q = Apply(t, Here(t).path, NoView) BY <2>b, <2>6
  <3> QED BY <2>5, <2>7, <3>1, ApplyIs
 <2>9. CASE Staying(t, r, state, q) BY <2>5, <2>9 DEF Staying
 <2>10. CASE Entering(t, r, state, c, q) BY <2>5, <2>8, <2>10, Entered
 <2> QED BY <2>8, <2>9, <2>10
<1> QED BY <1>1, <1>2

(* A panel that has just been created is nowhere, so it takes its address. *)
LEMMA FreshFits == CardFits(Fresh)
<1>1. Fresh = [x \in CardFields |-> Fresh[x]] BY DEF Fresh, CardFields
<1>2. /\ Fresh.page = "problems" /\ Fresh.detail = None /\ Fresh.definition = None /\ Fresh.report = None
      /\ Fresh.pending = None /\ Fresh.source = None /\ Fresh.history = None
      /\ Fresh.view = "source" /\ Fresh.section = "profiles"
  BY DEF Fresh
<1> HIDE DEF Fresh
<1> QED BY <1>1, <1>2, NavAssumption DEF CardFits, DetailFits, DefinitionFits, PageNames

(* A new panel over a session history is good.                             *)
LEMMA OpenedGood ==
  ASSUME NEW entries, IsSeq(entries), NEW at \in 1..Len(entries),
         \A i \in 1..Len(entries) : EntryFits(entries[i]), Beside(entries),
         NEW fresh, fresh => \A i \in 1..Len(entries) : ~Given(entries[i].saved),
         NEW q, q = Opened(entries, at)
  PROVE  Good(q, fresh) /\ q.tab = [entries |-> entries, at |-> at]
<1> DEFINE path == entries[at].path
           n == [NewNav EXCEPT !.ha = path]
           tb == [entries |-> entries, at |-> at]
           s == [card |-> Fresh, nav |-> n, tab |-> tb]
<1>1. q = Apply(s, path, NoView) BY DEF Opened
<1>2. /\ n = [x \in {"id", "last", "sequence", "entries", "origins", "ha", "offered"} |-> n[x]]
      /\ n.id = 0 /\ n.last = <<>> /\ n.sequence = 0 /\ n.entries = <<>> /\ n.origins = <<>>
  BY DEF NewNav
<1>3. tb.entries = entries /\ tb.at = at /\ tb = [x \in {"entries", "at"} |-> tb[x]] OBVIOUS
<1> HIDE DEF n, tb
<1>4. s.card = Fresh /\ s.nav = n /\ s.tab = tb /\ StateFits(s) BY <1>2, <1>3 DEF StateFits
<1> HIDE DEF s
<1>5. Here(s) = entries[at] BY <1>3, <1>4 DEF Here
<1>6. Numbered(s) \/ ~fresh BY <1>2, <1>3, <1>4 DEF Numbered
<1>7. Held(s, fresh) BY <1>2, <1>3, <1>4, <1>6, FreshFits DEF Held
<1>8. ~Given(NoView) BY DEF NoView, Given
<1>9. PICK r, state, c :
           /\ Leads(s, r, state) /\ c = Shown(s.card, r, ContextFor(s, state))
           /\ Staying(s, r, state, q) \/ Entering(s, r, state, c, q)
           /\ PathOf(r) = Named(Here(s).path)
  BY <1>1, <1>5, <1>7, <1>8, ApplyIs
<1>10. PathOf(r) # <<>> BY <1>7, <1>9, EntryIs DEF Tells
<1>11. Entering(s, r, state, c, q) BY <1>2, <1>4, <1>9, <1>10 DEF Staying
<1>12. Good(q, fresh) BY <1>7, <1>9, <1>11, Entered
<1> QED BY <1>4, <1>11, <1>12 DEF Entering, tb

(* capture, in memory. *)
LEMMA MemoryKeeps ==
  ASSUME NEW s, NEW fresh, Good(s, fresh), NEW q, q = Capture(s, FALSE)
  PROVE  /\ Good(q, fresh) /\ q.card = s.card /\ q.tab = s.tab
         /\ q.nav.id = s.nav.id /\ q.nav.last = s.nav.last /\ q.nav.sequence = s.nav.sequence
         /\ q.nav.origins = s.nav.origins /\ q.nav.offered = s.nav.offered /\ q.nav.ha = s.nav.ha
<1> DEFINE memory == With(s.nav.entries, s.nav.id, Entry(s.card))
<1>1. q = [s EXCEPT !.nav.entries = memory] BY DEF Capture
<1>2. ASSUME NEW k \in DOMAIN memory
      PROVE  ContextFits(memory[k].context)
 <2>1. ContextFits(Entry(s.card).context) BY ContextOfFits DEF Entry, Good, Held
 <2>2. CASE k = s.nav.id BY <2>1, <2>2 DEF With
 <2>3. CASE k # s.nav.id
  <3>1. k \in DOMAIN s.nav.entries /\ memory[k] = s.nav.entries[k] BY <2>3 DEF With
  <3> QED BY <3>1 DEF Good, Held
 <2> QED BY <2>2, <2>3
<1> HIDE DEF memory
<1>3. StateFits(s) BY DEF Good, Held
<1>4. /\ StateFits(q) /\ q.card = s.card /\ q.tab = s.tab
      /\ q.nav.id = s.nav.id /\ q.nav.last = s.nav.last /\ q.nav.sequence = s.nav.sequence
      /\ q.nav.origins = s.nav.origins /\ q.nav.offered = s.nav.offered /\ q.nav.ha = s.nav.ha
      /\ q.nav.entries = memory
  BY <1>1, <1>3 DEF StateFits
<1>5. \A k \in DOMAIN q.nav.entries : ContextFits(q.nav.entries[k].context) BY <1>2, <1>4
<1> QED BY <1>4, <1>5, Alike

(* Nothing is done for the entry moved to: the panel shows its place       *)
(* already, and the view it is at has no other origin there.               *)
LEMMA MovedStays ==
  ASSUME NEW s, NEW fresh, Good(s, fresh), NEW to \in 1..Len(s.tab.entries),
         to = s.tab.at - 1 \/ to = s.tab.at + 1,
         NEW q, StateFits(q), q.card = s.card, q.nav = s.nav, q.tab.entries = s.tab.entries, q.tab.at = to,
         NEW r, NEW state, Leads(q, r, state), state = Here(q).saved,
         PathOf(r) = s.nav.last, Given(state) => state.id = s.nav.id
  PROVE  Good(q, fresh)
<1> DEFINE e == Here(s)
           o == Here(q)
           id == s.nav.id
<1>1. \A i, k : Behind(q, i, k) <=> Behind(s, i, k) BY DEF Behind
<1>2. Numbered(s) => Numbered(q) BY <1>1 DEF Numbered
<1>3. Held(q, fresh) BY <1>2 DEF Held, Good
<1>4. /\ RouteFits(r) /\ Tells(PathOf(r), r)
      /\ PathOf(r) = Named(o.path) \/ (Dead(o) /\ Dialog(Named(o.path)))
      /\ Scoped(o.path) => r.page = "problems" /\ r.report = Parse(o.path).report /\ r.report # None
  BY <1>3, LedTo
<1>5. Follows(s.card, s.nav.last) /\ Belongs(s) /\ s.nav.id \in Nat \ {0} /\ (fresh => Counts(s))
  BY DEF Good
<1>6. Belongs(q)
 <2>1. Seen(q.card) = Named(o.path) \/ Dialog(Named(o.path)) BY <1>4, <1>5 DEF Follows
 <2>2. q.nav.last = Named(o.path) \/ Dead(o) BY <1>4
 <2>3. ASSUME Scoped(o.path)
       PROVE  q.card.page = "problems" /\ q.card.report = Parse(o.path).report /\ q.card.report # None
  <3>1. Scoped(s.nav.last) /\ Nth(s.nav.last, 2) = r.report BY <1>4, <2>3 DEF Tells
  <3> QED BY <1>4, <1>5, <2>3, <3>1 DEF Follows
 <2> QED BY <2>1, <2>2, <2>3 DEF Belongs
<1>7. ASSUME fresh
      PROVE  Counts(q)
 <2>1. Counts(s) /\ Numbered(s) BY <1>5, <1>7 DEF Good, Held
 <2>2. CASE Given(state)
  <3>1. o = s.tab.entries[to] /\ o.saved.id = id BY <2>2 DEF Here
  <3>2. Behind(s, to, id) BY <2>1, <2>2, <3>1 DEF Numbered
  <3>3. Behind(q, to, id) BY <3>2, <1>1
  <3> HIDE DEF o
  <3> QED BY <2>1, <3>1, <3>3 DEF Counts, o
 <2>3. CASE ~Given(state)
  <3>1. Behind(s, to, id)
   <4>1. ASSUME id \in DOMAIN s.nav.origins
         PROVE  to > 1 /\ s.tab.entries[to - 1] = e /\ Given(e.saved) /\ ~Stored(e)
    <5>1. Behind(s, s.tab.at, id) BY <2>1 DEF Counts
    <5>2. Given(s.tab.entries[s.tab.at - 1].saved) BY <4>1, <5>1 DEF Behind
    <5>3. to # s.tab.at - 1 BY <2>3, <5>2 DEF Here
    <5>4. to = s.tab.at + 1 /\ s.tab.at \in Nat \ {0} /\ to - 1 = s.tab.at
      BY <5>3, EntryIs DEF Good, Held
    <5>5. Beside(s.tab.entries) BY DEF Good, Held
    <5>6. Named(o.path) # Named(e.path) \/ Dead(e)
     <6>1. to > 1 BY <5>4
     <6>2. Named(s.tab.entries[to].path) # Named(s.tab.entries[to - 1].path) \/ Dead(s.tab.entries[to - 1])
       BY <5>5, <6>1 DEF Beside
     <6> QED BY <5>4, <6>2 DEF Here
    <5>7. ~Given(o.saved) BY <2>3
    <5>8. PathOf(r) = Named(o.path) BY <1>4, <5>7 DEF Dead
    <5>9. s.nav.last = Named(e.path) \/ Dead(e) BY <1>5 DEF Belongs
    <5>10. Dead(e) BY <5>6, <5>8, <5>9
    <5> QED BY <5>4, <5>10 DEF Dead, Here
   <4> QED BY <4>1 DEF Behind
  <3>2. Behind(q, to, id) BY <3>1, <1>1
  <3>3. ~Given(o.saved) BY <2>3
  <3> HIDE DEF o
  <3> QED BY <2>1, <3>2, <3>3 DEF Counts, o
 <2> QED BY <2>2, <2>3
<1> QED BY <1>3, <1>5, <1>6, <1>7 DEF Good

(* onPop. *)
LEMMA PoppedKeeps ==
  ASSUME NEW s, NEW fresh, Good(s, fresh), NEW to \in 1..Len(s.tab.entries),
         to = s.tab.at - 1 \/ to = s.tab.at + 1, NEW q, q = Popped(s, to)
  PROVE  Good(q, fresh)
<1> DEFINE a == Capture(s, FALSE)
           m == [a EXCEPT !.tab.at = to]
           entry == m.tab.entries[to]
           b == Apply(m, entry.path, entry.saved)
<1>1. q = SetRoute(b, entry.path) BY DEF Popped
<1>2. a = Capture(s, FALSE) OBVIOUS
<1>3. Good(a, fresh) /\ a.tab = s.tab
 <2> HIDE DEF a
 <2> QED BY <1>2, MemoryKeeps
<1> HIDE DEF a
<1>4. StateFits(a) BY <1>3 DEF Good, Held
<1>5. StateFits(m) /\ m.card = a.card /\ m.nav = a.nav /\ m.tab.entries = a.tab.entries /\ m.tab.at = to
  BY <1>4 DEF StateFits
<1>6. b = Apply(m, entry.path, entry.saved) OBVIOUS
<1> HIDE DEF m, b
<1>7. Here(m) = entry BY <1>5 DEF Here
<1>8. Held(m, fresh)
 <2>1. \A i, k : Behind(m, i, k) <=> Behind(a, i, k) BY <1>5 DEF Behind
 <2>2. Numbered(a) => Numbered(m) BY <1>5, <2>1 DEF Numbered
 <2> QED BY <1>3, <1>5, <2>2 DEF Good, Held
<1>9. PICK r, state, c :
        /\ Leads(m, r, state) /\ c = Shown(m.card, r, ContextFor(m, state))
        /\ Staying(m, r, state, b) \/ Entering(m, r, state, c, b)
        /\ state = Here(m).saved
  BY <1>6, <1>7, <1>8, ApplyIs
<1>10. Good(b, fresh) /\ b.tab = m.tab
 <2>1. CASE Staying(m, r, state, b)
  <3>1. b = m /\ PathOf(r) = m.nav.last /\ (Given(state) => state.id = m.nav.id) BY <2>1 DEF Staying
  <3>2. m.nav = a.nav /\ to \in 1..Len(a.tab.entries) /\ (to = a.tab.at - 1 \/ to = a.tab.at + 1)
    BY <1>3, <1>5
  <3>3. Good(m, fresh) BY <1>3, <1>5, <1>9, <3>1, <3>2, MovedStays
  <3> QED BY <3>1, <3>3
 <2>2. CASE Entering(m, r, state, c, b)
  <3>1. Good(b, fresh) BY <1>8, <1>9, <2>2, Entered
  <3> QED BY <2>2, <3>1 DEF Entering
 <2> QED BY <1>9, <2>1, <2>2
<1>11. Here(b).path = entry.path BY <1>7, <1>10 DEF Here
<1>12. q = SetRoute(b, Here(b).path) BY <1>1, <1>11
<1> QED BY <1>10, <1>12, RouteKeeps

-----------------------------------------------------------------------------
(* Pushing an entry, capturing the view, finishing a click. *)

(* What is so of the entries up to the position. *)
Below(s, fresh) ==
  /\ IsSeq(s.tab.entries) /\ s.tab.at \in 1..Len(s.tab.entries) /\ s.nav.sequence \in Nat
  /\ \A i \in 1..s.tab.at :
       /\ EntryFits(s.tab.entries[i])
       /\ i > 1 => \/ Named(s.tab.entries[i].path) # Named(s.tab.entries[i - 1].path)
                   \/ Dead(s.tab.entries[i - 1])
  /\ fresh => \A i \in 1..s.tab.at :
       Given(s.tab.entries[i].saved) =>
         s.tab.entries[i].saved.id \in 1..s.nav.sequence /\ Behind(s, i, s.tab.entries[i].saved.id)

(* What holds of every entry holds of those up to the position.            *)
LEMMA HeldBelow ==
  ASSUME NEW s, NEW fresh, Held(s, fresh)
  PROVE  Below(s, fresh)
<1>1. 1..s.tab.at \subseteq 1..Len(s.tab.entries) BY DEF Held, IsSeq
<1> QED BY <1>1 DEF Held, Below, Beside, Numbered

(* Another entry over those up to the position. *)
Extending(s, t, new, fresh) ==
  /\ StateFits(t) /\ CardFits(t.card)
  /\ \A id \in DOMAIN t.nav.entries : ContextFits(t.nav.entries[id].context)
  /\ fresh => DOMAIN t.nav.origins \subseteq 1..t.nav.sequence
  /\ PathFits(new.path) /\ new.saved = NoView /\ new = [path |-> new.path, saved |-> new.saved]
  /\ Named(new.path) # Named(Here(s).path) \/ Dead(Here(s))
  /\ t.nav.sequence \in Nat /\ s.nav.sequence <= t.nav.sequence
  /\ \A id \in 1..s.nav.sequence :
       /\ id \in DOMAIN t.nav.origins <=> id \in DOMAIN s.nav.origins
       /\ id \in DOMAIN s.nav.origins => t.nav.origins[id] = s.nav.origins[id]
  /\ t.tab.entries = Grown(s.tab.entries, s.tab.at, new) /\ t.tab.at = s.tab.at + 1

(* A session history that is extended by one entry keeps what holds of it. *)
LEMMA Extended ==
  ASSUME NEW s, NEW fresh, Below(s, fresh), NEW t, NEW new, Extending(s, t, new, fresh)
  PROVE  /\ Held(t, fresh) /\ Here(t) = new
         /\ s.tab.at \in 1..s.tab.at /\ \A i \in 1..s.tab.at : t.tab.entries[i] = s.tab.entries[i]
<1> DEFINE f == s.tab.entries
           at == s.tab.at
           g == t.tab.entries
<1>a. /\ PathFits(new.path) /\ new.saved = NoView /\ new = [path |-> new.path, saved |-> new.saved]
      /\ Named(new.path) # Named(Here(s).path) \/ Dead(Here(s))
      /\ g = Grown(f, at, new) /\ t.tab.at = at + 1 /\ t.nav.sequence \in Nat
      /\ StateFits(t) /\ CardFits(t.card)
      /\ \A id \in DOMAIN t.nav.entries : ContextFits(t.nav.entries[id].context)
      /\ fresh => DOMAIN t.nav.origins \subseteq 1..t.nav.sequence
  BY DEF Extending
<1>b. 1..s.nav.sequence \subseteq 1..t.nav.sequence BY DEF Extending, Below
<1> HIDE DEF g
<1>0. IsSeq(f) /\ at \in 1..Len(f) /\ at \in Nat \ {0} /\ Len(f) \in Nat BY DEF Below, IsSeq
<1>1. /\ IsSeq(g) /\ Len(g) = at + 1
      /\ \A i \in 1..at : g[i] = f[i]
      /\ g[at + 1] = new
 <2> HIDE DEF f, at
 <2> QED BY <1>0, <1>a, Cut
<1>2. t.tab.entries = g /\ t.tab.at = at + 1 BY <1>a DEF g
<1>3. ~Given(NoView) /\ NoView.id = 0 BY DEF NoView, Given
<1>4. \A i \in 1..at : EntryFits(f[i]) BY DEF Below
<1>5. EntryFits(new) BY <1>3, <1>a DEF EntryFits
<1>6. ASSUME NEW i \in 1..Len(g)
      PROVE  EntryFits(g[i])
 <2>1. CASE i \in 1..at BY <1>1, <1>4, <2>1
 <2>2. CASE i \notin 1..at
  <3>1. i = at + 1 BY <1>0, <1>1, <2>2
  <3> QED BY <1>1, <1>5, <3>1
 <2> QED BY <2>1, <2>2
<1>7. Beside(g)
 <2>1. ASSUME NEW i \in 1..Len(g), i > 1
       PROVE  Named(g[i].path) # Named(g[i - 1].path) \/ Dead(g[i - 1])
  <3>1. CASE i \in 1..at
   <4>1. g[i] = f[i] /\ g[i - 1] = f[i - 1]
    <5>1. i - 1 \in 1..at BY <1>0, <2>1, <3>1
    <5> HIDE DEF at, f
    <5> QED BY <1>1, <3>1, <5>1
   <4>2. Named(f[i].path) # Named(f[i - 1].path) \/ Dead(f[i - 1]) BY <2>1, <3>1 DEF Below
   <4> QED BY <4>1, <4>2
  <3>2. CASE i \notin 1..at
   <4>1. i = at + 1 /\ i - 1 = at BY <1>0, <1>1, <3>2
   <4>2. g[i] = new /\ g[i - 1] = f[at] /\ f[at] = Here(s)
    <5>1. at \in 1..at BY <1>0
    <5>2. g[at] = f[at] /\ g[at + 1] = new BY <1>1, <5>1
    <5> HIDE DEF at, f
    <5>3. g[i] = new /\ g[i - 1] = f[at] BY <4>1, <5>2
    <5> QED BY <5>3 DEF Here, at, f
   <4> QED BY <1>a, <4>2
  <3> QED BY <3>1, <3>2
 <2> QED BY <2>1 DEF Beside
<1>8. ASSUME fresh
      PROVE  Numbered(t)
 <2>2. ASSUME NEW i \in 1..Len(g), Given(g[i].saved)
       PROVE  g[i].saved.id \in 1..t.nav.sequence /\ Behind(t, i, g[i].saved.id)
  <3>1. i # at + 1 BY <1>1, <1>3, <1>a, <2>2
  <3>2. i \in 1..at /\ g[i] = f[i] BY <1>0, <1>1, <3>1
  <3>3. f[i].saved.id \in 1..s.nav.sequence /\ Behind(s, i, f[i].saved.id)
    BY <1>8, <2>2, <3>2 DEF Below
  <3>4. i > 1 => g[i - 1] = f[i - 1]
   <4> SUFFICES ASSUME i > 1 PROVE g[i - 1] = f[i - 1] OBVIOUS
   <4>1. i - 1 \in 1..at BY <1>0, <3>2
   <4> HIDE DEF at, f
   <4> QED BY <1>1, <4>1
  <3> DEFINE id == f[i].saved.id
  <3>5. /\ id \in DOMAIN t.nav.origins <=> id \in DOMAIN s.nav.origins
        /\ id \in DOMAIN s.nav.origins => t.nav.origins[id] = s.nav.origins[id]
    BY <3>3 DEF Extending
  <3> HIDE DEF id
  <3>6. Behind(s, i, id) BY <3>3 DEF id
  <3>7. Behind(t, i, id) BY <1>2, <3>4, <3>5, <3>6 DEF Behind
  <3> QED BY <1>b, <3>2, <3>3, <3>7 DEF id
 <2> QED BY <1>2, <1>a, <1>8, <2>2 DEF Numbered
<1>9. at + 1 \in 1..Len(g) BY <1>0, <1>1
<1>10. Held(t, fresh) BY <1>1, <1>2, <1>a, <1>6, <1>7, <1>8, <1>9 DEF Held
<1>11. s.tab.at \in 1..s.tab.at BY <1>0
<1> QED BY <1>1, <1>2, <1>10, <1>11 DEF Here

(* A link to another place. *)
LEMMA LinkKeeps ==
  ASSUME NEW s, NEW fresh, Good(s, fresh), NEW path, PathFits(path), path # s.nav.ha,
         Named(path) # s.nav.last,
         NEW t, t = [s EXCEPT !.tab = [entries |-> Append(SubSeq(s.tab.entries, 1, s.tab.at),
                                                          [path |-> path, saved |-> NoView]),
                                       at |-> s.tab.at + 1]],
         NEW q, q = SetRoute(t, path)
  PROVE  Good(q, fresh)
<1> DEFINE new == [path |-> path, saved |-> NoView]
           g == Grown(s.tab.entries, s.tab.at, new)
           tb == [entries |-> g, at |-> s.tab.at + 1]
<1>1. g = Grown(s.tab.entries, s.tab.at, new) OBVIOUS
<1>2. t = [s EXCEPT !.tab = tb] BY DEF Grown
<1>0. new.path = path /\ new.saved = NoView /\ new = [path |-> new.path, saved |-> new.saved]
  OBVIOUS
<1> HIDE DEF g, new
<1>3. tb.entries = g /\ tb.at = s.tab.at + 1 /\ tb = [x \in {"entries", "at"} |-> tb[x]] OBVIOUS
<1> HIDE DEF tb
<1>4. Held(s, fresh) /\ StateFits(s) /\ Belongs(s) BY DEF Good, Held
<1>5. StateFits(t) /\ t.card = s.card /\ t.nav = s.nav /\ t.tab = tb
  BY <1>2, <1>3, <1>4 DEF StateFits
<1>6. Named(path) # Named(Here(s).path) \/ Dead(Here(s)) BY <1>4 DEF Belongs
<1>7. Held(t, fresh) /\ Here(t) = new
 <2>1. CardFits(t.card) /\ \A id \in DOMAIN t.nav.entries : ContextFits(t.nav.entries[id].context)
   BY <1>4, <1>5 DEF Held
 <2>2. t.tab.entries = g /\ t.tab.at = s.tab.at + 1 /\ t.nav.sequence = s.nav.sequence
       /\ t.nav.origins = s.nav.origins
   BY <1>3, <1>5
 <2>3. s.nav.sequence \in Nat /\ Below(s, fresh) /\ (fresh => DOMAIN t.nav.origins \subseteq 1..t.nav.sequence)
   BY <1>4, <2>2, HeldBelow DEF Held, Numbered
 <2>4. Extending(s, t, new, fresh) BY <1>0, <1>1, <1>5, <1>6, <2>1, <2>2, <2>3 DEF Extending
 <2> QED BY <2>3, <2>4, Extended
<1> DEFINE u == [t EXCEPT !.nav.ha = path]
<1>8. q = Apply(u, path, NoView)
 <2>1. t.nav.ha # path BY <1>5
 <2> QED BY <2>1 DEF SetRoute
<1>9. /\ StateFits(u) /\ u.card = t.card /\ u.tab = t.tab
      /\ u.nav.id = t.nav.id /\ u.nav.last = t.nav.last /\ u.nav.sequence = t.nav.sequence
      /\ u.nav.origins = t.nav.origins /\ u.nav.offered = t.nav.offered
      /\ u.nav.entries = t.nav.entries
  BY <1>5 DEF StateFits
<1> HIDE DEF u
<1>10. \A id \in DOMAIN u.nav.entries : ContextFits(u.nav.entries[id].context)
  BY <1>7, <1>9 DEF Held
<1>11. Held(u, fresh) BY <1>7, <1>9, <1>10, Alike
<1>12. Here(u).path = path BY <1>0, <1>7, <1>9 DEF Here
<1>13. ~Given(NoView) BY DEF NoView, Given
<1>14. PICK r, state, c :
           /\ Leads(u, r, state) /\ c = Shown(u.card, r, ContextFor(u, state))
           /\ Staying(u, r, state, q) \/ Entering(u, r, state, c, q)
           /\ PathOf(r) = Named(Here(u).path)
  BY <1>8, <1>11, <1>12, <1>13, ApplyIs
<1>15. ~Staying(u, r, state, q) BY <1>5, <1>9, <1>12, <1>14 DEF Staying
<1> QED BY <1>11, <1>14, <1>15, Entered

(* The view persist stores.                                                *)
ViewOf(s) == [id |-> s.nav.id, route |-> RouteOf(s.card), context |-> ContextOf(s.card)]

(* What capture with persist does. *)
Keeping(s, q) ==
  /\ StateFits(q) /\ q.card = s.card
  /\ q.nav.id = s.nav.id /\ q.nav.last = s.nav.last /\ q.nav.sequence = s.nav.sequence
  /\ q.nav.origins = s.nav.origins /\ q.nav.offered = s.nav.offered /\ q.nav.ha = s.nav.ha
  /\ q.tab.at = s.tab.at
  /\ IsSeq(q.tab.entries) /\ Len(q.tab.entries) = Len(s.tab.entries)
  /\ \A i \in 1..Len(s.tab.entries) : i # s.tab.at => q.tab.entries[i] = s.tab.entries[i]
  /\ Here(q) = [path |-> Here(s).path, saved |-> ViewOf(s)]
  /\ \A id \in DOMAIN q.nav.entries : ContextFits(q.nav.entries[id].context)

(* Storing the view touches the stored view of one entry alone.            *)
LEMMA PersistIs ==
  ASSUME NEW s, StateFits(s), IsSeq(s.tab.entries), s.tab.at \in 1..Len(s.tab.entries),
         Here(s) = [path |-> Here(s).path, saved |-> Here(s).saved],
         \A id \in DOMAIN s.nav.entries : ContextFits(s.nav.entries[id].context),
         NEW q, q = Persist(s)
  PROVE  Keeping(s, q)
<1> DEFINE v == ViewOf(s)
           f == s.tab.entries
           at == s.tab.at
           g == [f EXCEPT ![at].saved = v]
           tb == [s.tab EXCEPT !.entries = g]
<1>1. q = [s EXCEPT !.tab = tb] BY DEF Persist, ViewOf, StateFits
<1>2. /\ IsSeq(g) /\ Len(g) = Len(f)
      /\ \A i \in 1..Len(f) : i # at => g[i] = f[i]
      /\ g[at] = [path |-> f[at].path, saved |-> v]
 <2>1. f[at] = [path |-> f[at].path, saved |-> f[at].saved] /\ IsSeq(f) /\ at \in 1..Len(f)
   BY DEF Here
 <2>2. g = Refiled(f, at, v) BY DEF Refiled
 <2> HIDE DEF f, at, v, g
 <2> QED BY <2>1, <2>2, Filed
<1> HIDE DEF g, v
<1>3. tb.entries = g /\ tb.at = at /\ tb = [x \in {"entries", "at"} |-> tb[x]] BY DEF StateFits
<1> HIDE DEF tb
<1>4. q.card = s.card /\ q.nav = s.nav /\ q.tab = tb /\ StateFits(q) BY <1>1, <1>3 DEF StateFits
<1>5. Here(q) = [path |-> Here(s).path, saved |-> ViewOf(s)] BY <1>2, <1>3, <1>4 DEF Here, v
<1> QED BY <1>2, <1>3, <1>4, <1>5 DEF Keeping

(* So does capturing it.                                                   *)
LEMMA CaptureIs ==
  ASSUME NEW s, NEW fresh, Held(s, fresh), NEW q, q = Capture(s, TRUE)
  PROVE  Keeping(s, q)
<1> DEFINE memory == With(s.nav.entries, s.nav.id, Entry(s.card))
           t == [s EXCEPT !.nav.entries = memory]
<1>1. q = Persist(t) BY DEF Capture
<1>2. ASSUME NEW k \in DOMAIN memory
      PROVE  ContextFits(memory[k].context)
 <2>1. ContextFits(Entry(s.card).context) BY ContextOfFits DEF Entry, Held
 <2>2. CASE k = s.nav.id BY <2>1, <2>2 DEF With
 <2>3. CASE k # s.nav.id
  <3>1. k \in DOMAIN s.nav.entries /\ memory[k] = s.nav.entries[k] BY <2>3 DEF With
  <3> QED BY <3>1 DEF Held
 <2> QED BY <2>2, <2>3
<1> HIDE DEF memory
<1>3. StateFits(s) BY DEF Held
<1>4. /\ StateFits(t) /\ t.card = s.card /\ t.tab = s.tab
      /\ t.nav.id = s.nav.id /\ t.nav.last = s.nav.last /\ t.nav.sequence = s.nav.sequence
      /\ t.nav.origins = s.nav.origins /\ t.nav.offered = s.nav.offered /\ t.nav.ha = s.nav.ha
      /\ t.nav.entries = memory
  BY <1>3 DEF StateFits
<1> HIDE DEF t
<1>5. Here(t) = Here(s) /\ ViewOf(t) = ViewOf(s) BY <1>4 DEF Here, ViewOf
<1>6. Here(s) = [path |-> Here(s).path, saved |-> Here(s).saved] BY EntryIs DEF EntryFits
<1>7. Keeping(t, q)
 <2>1. IsSeq(t.tab.entries) /\ t.tab.at \in 1..Len(t.tab.entries) BY <1>4 DEF Held
 <2>2. Here(t) = [path |-> Here(t).path, saved |-> Here(t).saved] BY <1>5, <1>6
 <2>3. \A id \in DOMAIN t.nav.entries : ContextFits(t.nav.entries[id].context) BY <1>2, <1>4
 <2> QED BY <1>1, <1>4, <2>1, <2>2, <2>3, PersistIs
<1> QED BY <1>4, <1>5, <1>7 DEF Keeping

(* capture, when what is stored at an address that it does not belong to   *)
(* is not replaced by something that does; the rest of what is stored is   *)
(* as it was, and the numbers are.                                         *)
LEMMA Kept ==
  ASSUME NEW s, NEW fresh, Good(s, fresh), NEW q, Keeping(s, q)
  PROVE  /\ EntryFits(Here(q)) /\ Given(Here(q).saved)
         /\ Stored(Here(q)) <=> Seen(s.card) = Named(Here(s).path)
         /\ Named(Here(q).path) = Named(Here(s).path)
<1> DEFINE e == Here(s)
           v == ViewOf(s)
<1>1. Here(q) = [path |-> e.path, saved |-> v] BY DEF Keeping
<1>2. v.id = s.nav.id /\ v.route = RouteOf(s.card) /\ v.context = ContextOf(s.card) BY DEF ViewOf
<1>3. CardFits(s.card) /\ s.nav.id \in Nat \ {0} /\ Belongs(s) /\ Held(s, fresh) BY DEF Good, Held
<1>4. RouteFits(v.route) /\ ContextFits(v.context) BY <1>2, <1>3, RouteOfFits, ContextOfFits
<1>5. EntryFits(e) BY <1>3, EntryIs
<1> HIDE DEF e, v
<1> DEFINE o == [path |-> e.path, saved |-> v]
<1>6. o.path = e.path /\ o.saved = v /\ o = [path |-> o.path, saved |-> o.saved] OBVIOUS
<1> HIDE DEF o
<1>7. Given(v) BY <1>2, <1>3 DEF Given
<1>8. Stored(o) <=> Seen(s.card) = Named(e.path) BY <1>2, <1>6, <1>7 DEF Stored, Seen, Named
<1>9. Stored(o) \/ Dialog(Named(e.path)) BY <1>3, <1>8 DEF Belongs, e
<1>10. Scoped(e.path) => v.route.page = "problems" /\ v.route.report = Parse(e.path).report
  BY <1>2, <1>3 DEF Belongs, e, RouteOf
<1>11. EntryFits(o) BY <1>2, <1>3, <1>4, <1>5, <1>6, <1>9, <1>10 DEF EntryFits
<1> QED BY <1>1, <1>6, <1>7, <1>8, <1>11 DEF o, e

(* capture, when what is stored at an address that it does not belong to   *)
(* is not replaced by something that does.                                 *)
LEMMA KeepingGood ==
  ASSUME NEW s, NEW fresh, Good(s, fresh), NEW q, Keeping(s, q),
         Dead(Here(s)) => Seen(s.card) # Named(Here(s).path)
  PROVE  Good(q, fresh)
<1> DEFINE e == Here(s)
           o == Here(q)
           at == s.tab.at
           f == s.tab.entries
           g == q.tab.entries
<1>1. /\ EntryFits(o) /\ Given(o.saved)
      /\ Stored(o) <=> Seen(s.card) = Named(e.path)
      /\ Named(o.path) = Named(e.path)
  BY Kept
<1>2. /\ StateFits(q) /\ q.card = s.card
      /\ q.nav.id = s.nav.id /\ q.nav.last = s.nav.last /\ q.nav.sequence = s.nav.sequence
      /\ q.nav.origins = s.nav.origins /\ q.nav.offered = s.nav.offered
      /\ q.tab.at = at /\ IsSeq(g) /\ Len(g) = Len(f)
      /\ \A i \in 1..Len(f) : i # at => g[i] = f[i]
      /\ \A id \in DOMAIN q.nav.entries : ContextFits(q.nav.entries[id].context)
      /\ o.saved.id = s.nav.id /\ o.path = e.path
  BY DEF Keeping, ViewOf
<1>3. e = f[at] /\ o = g[at] /\ at \in 1..Len(f) /\ at \in Nat \ {0} /\ Len(f) \in Nat
 <2>1. Held(s, fresh) BY DEF Good
 <2>2. at \in Nat \ {0} /\ at \in 1..Len(f) /\ Len(f) \in Nat BY <2>1, EntryIs DEF Held, IsSeq
 <2> QED BY <1>2, <2>2 DEF Here
<1>4. CardFits(s.card) /\ s.nav.sequence \in Nat /\ Beside(f) /\ Belongs(s) /\ Follows(s.card, s.nav.last)
      /\ s.nav.id \in Nat \ {0} /\ (\A i \in 1..Len(f) : EntryFits(f[i]))
      /\ (fresh => Counts(s) /\ Numbered(s))
  BY DEF Good, Held
<1>5. Dead(e) => Dead(o) BY <1>1 DEF Dead
<1> HIDE DEF e, o, f, g, at
<1>6. ASSUME NEW i \in 1..Len(g), i > 1
      PROVE  Named(g[i].path) # Named(g[i - 1].path) \/ Dead(g[i - 1])
 <2>1. i \in 1..Len(f) /\ i - 1 \in 1..Len(f) BY <1>2, <1>3, <1>6
 <2>2. Named(f[i].path) # Named(f[i - 1].path) \/ Dead(f[i - 1]) BY <1>4, <1>6, <2>1 DEF Beside
 <2>3. \A k \in 1..Len(f) : Named(g[k].path) = Named(f[k].path) /\ (Dead(f[k]) => Dead(g[k]))
   BY <1>1, <1>2, <1>3, <1>5
 <2> QED BY <2>1, <2>2, <2>3
<1>7. Beside(g) BY <1>6 DEF Beside
<1>8. \A i \in 1..Len(g) : EntryFits(g[i]) BY <1>1, <1>2, <1>3, <1>4
<1>9. ASSUME fresh, NEW i \in 1..Len(f), NEW id, Behind(s, i, id)
      PROVE  Behind(q, i, id)
 <2> SUFFICES ASSUME id \in DOMAIN s.nav.origins
              PROVE  /\ i > 1 /\ Given(g[i - 1].saved)
                     /\ Stored(g[i - 1]) => g[i - 1].saved.id = s.nav.origins[id]
   BY <1>2 DEF Behind, g
 <2>1. i > 1 /\ Given(f[i - 1].saved) /\ (Stored(f[i - 1]) => f[i - 1].saved.id = s.nav.origins[id])
   BY <1>9 DEF Behind, f
 <2>2. i - 1 \in 1..Len(f) BY <1>3, <2>1
 <2>3. CASE i - 1 # at BY <1>2, <2>1, <2>2, <2>3
 <2>4. CASE i - 1 = at
  <3>1. g[i - 1] = o /\ f[i - 1] = e BY <1>3, <2>4
  <3>2. Given(e.saved) => s.nav.id = e.saved.id \/ Dead(e) BY <1>4, <1>9 DEF Counts, e
  <3>3. Stored(o) => Stored(e) BY <1>5, <2>1, <3>1 DEF Dead
  <3> QED BY <1>1, <1>2, <2>1, <3>1, <3>2, <3>3 DEF Dead
 <2> QED BY <2>3, <2>4
<1>10. ASSUME fresh
       PROVE  Numbered(q) /\ Counts(q)
 <2>1. Behind(q, at, s.nav.id) BY <1>3, <1>4, <1>9, <1>10 DEF Counts, at
 <2>2. ASSUME NEW i \in 1..Len(g), Given(g[i].saved)
       PROVE  g[i].saved.id \in 1..q.nav.sequence /\ Behind(q, i, g[i].saved.id)
  <3>1. CASE i = at BY <1>2, <1>3, <1>4, <1>10, <2>1, <3>1 DEF Counts
  <3>2. CASE i # at
   <4>1. i \in 1..Len(f) /\ g[i] = f[i] BY <1>2, <3>2
   <4>2. f[i].saved.id \in 1..s.nav.sequence /\ Behind(s, i, f[i].saved.id)
     BY <1>4, <1>10, <2>2, <4>1 DEF Numbered, f
   <4>3. Behind(q, i, f[i].saved.id) BY <1>9, <1>10, <4>1, <4>2
   <4> QED BY <1>2, <4>1, <4>2, <4>3
  <3> QED BY <3>1, <3>2
 <2>3. DOMAIN q.nav.origins \subseteq 1..q.nav.sequence BY <1>2, <1>4, <1>10 DEF Numbered
 <2>4. Numbered(q) BY <2>2, <2>3 DEF Numbered, g
 <2>5. Counts(q) BY <1>2, <1>4, <1>10, <2>1 DEF Counts, o, at
 <2> QED BY <2>4, <2>5
<1>11. Belongs(q) BY <1>1, <1>2, <1>4, <1>5 DEF Belongs, e, o
<1>12. Held(q, fresh) BY <1>2, <1>3, <1>4, <1>7, <1>8, <1>10 DEF Held, g
<1> QED BY <1>2, <1>4, <1>10, <1>11, <1>12 DEF Good

(* Another card at the same path. *)
LEMMA CardTells ==
  ASSUME NEW c, CardFits(c)
  PROVE  /\ Tells(Seen(c), RouteOf(c)) /\ PathFits(Seen(c)) /\ Named(Seen(c)) = Seen(c)
         /\ Scoped(Seen(c)) <=> c.page = "problems" /\ c.report # None
         /\ Scoped(Seen(c)) => Nth(Seen(c), 2) = c.report /\ Parse(Seen(c)).report = c.report
<1>1. Tells(Seen(c), RouteOf(c)) BY RouteOfFits, RouteTells DEF Seen
<1>2. RouteOf(c).page = c.page /\ (c.page = "problems" => RouteOf(c).report = c.report)
  BY DEF RouteOf
<1> QED BY <1>1, <1>2 DEF Tells

(* A change of the card that shows the same place keeps a good state.      *)
LEMMA CardChanges ==
  ASSUME NEW s, NEW fresh, Good(s, fresh), NEW c, CardFits(c), Seen(c) = Seen(s.card),
         c.pending # None => s.card.pending # None, NEW q, q = [s EXCEPT !.card = c]
  PROVE  Good(q, fresh)
<1>1. StateFits(s) /\ CardFits(s.card) /\ Held(s, fresh) BY DEF Good, Held
<1>2. StateFits(q) /\ q.card = c /\ q.nav = s.nav /\ q.tab = s.tab BY <1>1 DEF StateFits
<1>3. Here(q) = Here(s) /\ \A i, id : Behind(q, i, id) <=> Behind(s, i, id) BY <1>2 DEF Here, Behind
<1>4. Held(q, fresh) BY <1>1, <1>2, <1>3 DEF Held, Numbered
<1>5. fresh => Counts(q) BY <1>2, <1>3 DEF Good, Counts
<1>6. Follows(s.card, s.nav.last) /\ Belongs(s) /\ s.nav.id \in Nat \ {0} BY DEF Good
<1>7. ASSUME s.card.page = "problems", s.card.report # None
      PROVE  c.page = "problems" /\ c.report = s.card.report
  BY <1>1, <1>7, CardTells
<1>8. Follows(c, s.nav.last) BY <1>6, <1>7 DEF Follows
<1>9. Belongs(q) BY <1>2, <1>3, <1>6, <1>7 DEF Belongs
<1> QED BY <1>2, <1>4, <1>5, <1>6, <1>8, <1>9 DEF Good

(* What Pushed does before it stores the new view. *)
Pushing(b, origin, c, t) ==
  LET id == b.nav.sequence + 1
  IN /\ StateFits(t) /\ t.card = c /\ t.nav.id = id /\ t.nav.sequence = id /\ t.nav.last = Seen(c)
     /\ t.nav.origins = With(b.nav.origins, id, origin)
     /\ t.nav.entries = With(b.nav.entries, id, Entry(c))
     /\ t.nav.offered # None => id \in DOMAIN t.nav.origins /\ t.nav.offered = t.nav.origins[id]
     /\ t.tab.entries = Grown(b.tab.entries, b.tab.at, [path |-> Seen(c), saved |-> NoView])
     /\ t.tab.at = b.tab.at + 1

(* Pushing an entry is extending the history and storing the view.         *)
LEMMA PushedIs ==
  ASSUME NEW b, StateFits(b), NEW origin, NEW c, c = b.card, NEW q, q = Pushed(b, origin)
  PROVE  \E t : Pushing(b, origin, c, t) /\ q = Persist(t)
<1> DEFINE id == b.nav.sequence + 1
           path == Seen(c)
           origins == With(b.nav.origins, id, origin)
           memory == With(b.nav.entries, id, Entry(c))
           n == [b.nav EXCEPT !.sequence = id, !.id = id, !.last = path, !.origins = origins, !.entries = memory]
           offered == Return(c, n)
           m == [n EXCEPT !.offered = offered]
           tb == [entries |-> Grown(b.tab.entries, b.tab.at, [path |-> path, saved |-> NoView]),
                  at |-> b.tab.at + 1]
           t == [b EXCEPT !.nav = m, !.tab = tb]
<1>1. q = Persist(t) BY DEF Pushed, Grown, Seen
<1>2. offered # None => n.id \in DOMAIN n.origins /\ offered = n.origins[n.id] BY ReturnIs
<1>a. tb.at = b.tab.at + 1 /\ tb = [x \in {"entries", "at"} |-> tb[x]]
      /\ tb.entries = Grown(b.tab.entries, b.tab.at, [path |-> path, saved |-> NoView])
  OBVIOUS
<1> HIDE DEF id, origins, memory, offered, path, tb
<1>3. /\ n = [x \in {"id", "last", "sequence", "entries", "origins", "ha", "offered"} |-> n[x]]
      /\ n.last = path /\ n.id = id /\ n.sequence = id /\ n.entries = memory /\ n.origins = origins
  BY DEF StateFits
<1> HIDE DEF n
<1>4. /\ m = [x \in {"id", "last", "sequence", "entries", "origins", "ha", "offered"} |-> m[x]]
      /\ m.last = path /\ m.id = id /\ m.sequence = id /\ m.entries = memory /\ m.origins = origins
      /\ m.offered = offered
  BY <1>3
<1> HIDE DEF m
<1>5. t.card = c /\ t.nav = m /\ t.tab = tb /\ t = [x \in {"card", "nav", "tab"} |-> t[x]]
  BY DEF StateFits
<1> HIDE DEF t
<1>6. StateFits(t) BY <1>4, <1>5, <1>a DEF StateFits
<1>7. offered # None => id \in DOMAIN origins /\ offered = origins[id] BY <1>2, <1>3
<1>8. Pushing(b, origin, c, t)
  BY <1>4, <1>5, <1>6, <1>7, <1>a DEF Pushing, id, origins, memory, path
<1> QED BY <1>1, <1>8

(* A click that leads elsewhere. *)
LEMMA PushGood ==
  ASSUME NEW s, NEW fresh, Good(s, fresh), NEW a, Keeping(s, a),
         NEW c, CardFits(c), Seen(c) # Seen(s.card), c.pending = None,
         NEW b, StateFits(b), b.card = c, b.nav = a.nav, b.tab = a.tab, NEW q, q = Pushed(b, s.nav.id)
  PROVE  /\ Good(q, fresh) /\ q.card = c
         /\ Seen(c) = Named(Here(q).path) /\ ~Dead(Here(q))
<1> DEFINE o == Here(a)
           id == s.nav.sequence + 1
           at == s.tab.at
           f == s.tab.entries
           g == a.tab.entries
           new == [path |-> Seen(c), saved |-> NoView]
<1>1. /\ EntryFits(o) /\ Given(o.saved)
      /\ Stored(o) <=> Seen(s.card) = Named(Here(s).path)
      /\ Named(o.path) = Named(Here(s).path)
  BY Kept
<1>2. /\ StateFits(a) /\ a.nav.sequence = s.nav.sequence /\ a.nav.origins = s.nav.origins
      /\ a.tab.at = at /\ IsSeq(g) /\ Len(g) = Len(f)
      /\ \A i \in 1..Len(f) : i # at => g[i] = f[i]
      /\ \A k \in DOMAIN a.nav.entries : ContextFits(a.nav.entries[k].context)
      /\ o.saved.id = s.nav.id
  BY DEF Keeping, ViewOf
<1>3. Held(s, fresh) /\ Belongs(s) /\ (fresh => Counts(s) /\ Numbered(s)) /\ s.nav.sequence \in Nat
      /\ s.nav.id \in Nat \ {0}
  BY DEF Good, Held
<1>4. at \in Nat \ {0} /\ at \in 1..Len(f) /\ Len(f) \in Nat BY <1>3, EntryIs DEF Held, IsSeq
<1>5. o = g[at] BY <1>2 DEF Here
<1>6. /\ StateFits(b) /\ b.card = c /\ b.nav = a.nav /\ b.tab = a.tab OBVIOUS
<1>7. PICK t : Pushing(b, s.nav.id, c, t) /\ q = Persist(t) BY <1>6, PushedIs
<1>8. /\ StateFits(t) /\ t.card = c /\ t.nav.id = id /\ t.nav.sequence = id /\ t.nav.last = Seen(c)
      /\ t.nav.origins = With(s.nav.origins, id, s.nav.id)
      /\ t.nav.entries = With(a.nav.entries, id, Entry(c))
      /\ t.nav.offered # None => id \in DOMAIN t.nav.origins /\ t.nav.offered = t.nav.origins[id]
      /\ t.tab.entries = Grown(g, at, new) /\ t.tab.at = at + 1
  BY <1>2, <1>6, <1>7 DEF Pushing
<1>9. /\ PathFits(Seen(c)) /\ Named(Seen(c)) = Seen(c)
      /\ Scoped(Seen(c)) <=> c.page = "problems" /\ c.report # None
      /\ Scoped(Seen(c)) => Nth(Seen(c), 2) = c.report /\ Parse(Seen(c)).report = c.report
  BY CardTells
<1>10. new.path = Seen(c) /\ new.saved = NoView /\ new = [path |-> new.path, saved |-> new.saved]
  OBVIOUS
<1>a. id \in Nat \ {0} /\ s.nav.sequence <= id /\ 1..s.nav.sequence \subseteq 1..id /\ id \notin 1..s.nav.sequence
      /\ id \in 1..id
  BY <1>3
<1> HIDE DEF new, o, f, g, at, id
<1>11. Below(a, fresh)
 <2>1. ASSUME NEW i \in 1..at
       PROVE  /\ EntryFits(g[i])
              /\ i > 1 => Named(g[i].path) # Named(g[i - 1].path) \/ Dead(g[i - 1])
  <3>1. i \in 1..Len(f) BY <1>4
  <3>2. EntryFits(f[i]) /\ (i > 1 => Named(f[i].path) # Named(f[i - 1].path) \/ Dead(f[i - 1]))
    BY <1>3, <3>1 DEF Held, Beside, f
  <3>3. i > 1 => g[i - 1] = f[i - 1] BY <1>2, <1>4
  <3>4. Named(g[i].path) = Named(f[i].path) /\ EntryFits(g[i])
    BY <1>1, <1>2, <1>5, <3>1, <3>2 DEF Here, f, at
  <3> QED BY <3>2, <3>3, <3>4
 <2>2. ASSUME fresh, NEW i \in 1..at, Given(g[i].saved)
       PROVE  g[i].saved.id \in 1..a.nav.sequence /\ Behind(a, i, g[i].saved.id)
  <3>1. i \in 1..Len(f) /\ (i > 1 => g[i - 1] = f[i - 1]) BY <1>2, <1>4
  <3>2. g[i].saved.id \in 1..s.nav.sequence /\ Behind(s, i, g[i].saved.id)
   <4>1. CASE i = at BY <1>2, <1>3, <1>5, <2>2, <4>1 DEF Counts, at
   <4>2. CASE i # at BY <1>2, <1>3, <2>2, <3>1, <4>2 DEF Numbered, f
   <4> QED BY <4>1, <4>2
  <3>3. Behind(a, i, g[i].saved.id) BY <1>2, <3>1, <3>2 DEF Behind, f, g
  <3> QED BY <1>2, <3>2, <3>3
 <2> QED BY <1>2, <1>3, <1>4, <2>1, <2>2 DEF Below, g
<1>12. Named(new.path) # Named(o.path) \/ Dead(o) BY <1>1, <1>9, <1>10 DEF Dead
<1>13. Extending(a, t, new, fresh)
 <2>1. ASSUME NEW k \in DOMAIN t.nav.entries
       PROVE  ContextFits(t.nav.entries[k].context)
  <3>1. ContextFits(Entry(c).context) BY ContextOfFits DEF Entry
  <3>2. CASE k = id BY <1>8, <3>1, <3>2 DEF With
  <3>3. CASE k # id
   <4>1. k \in DOMAIN a.nav.entries /\ t.nav.entries[k] = a.nav.entries[k] BY <1>8, <3>3 DEF With
   <4> QED BY <1>2, <4>1
  <3> QED BY <3>2, <3>3
 <2>2. fresh => DOMAIN t.nav.origins \subseteq 1..t.nav.sequence
   BY <1>3, <1>8, <1>a DEF Numbered, With
 <2>3. ASSUME NEW k \in 1..s.nav.sequence
       PROVE  /\ k \in DOMAIN t.nav.origins <=> k \in DOMAIN s.nav.origins
              /\ k \in DOMAIN s.nav.origins => t.nav.origins[k] = s.nav.origins[k]
  <3>1. k # id BY <1>a
  <3> QED BY <1>8, <3>1 DEF With
 <2> QED BY <1>2, <1>8, <1>9, <1>10, <1>12, <1>a, <2>1, <2>2, <2>3 DEF Extending, o, g, at
<1>14. /\ Held(t, fresh) /\ Here(t) = new
       /\ at \in 1..at /\ \A i \in 1..at : t.tab.entries[i] = g[i]
  BY <1>2, <1>11, <1>13, Extended DEF at, g
<1>15. Follows(c, Seen(c)) BY <1>9 DEF Follows
<1>16. Belongs(t) BY <1>8, <1>9, <1>10, <1>14 DEF Belongs
<1>17. ASSUME fresh
       PROVE  Counts(t)
 <2>1. t.nav.origins[id] = s.nav.id BY <1>8 DEF With
 <2>2. t.tab.entries[at] = o BY <1>5, <1>14
 <2>3. t.tab.at > 1 /\ t.tab.at - 1 = at BY <1>4, <1>8
 <2>4. Behind(t, t.tab.at, id) BY <1>1, <1>2, <2>1, <2>2, <2>3 DEF Behind
 <2>5. ~Given(new.saved) BY <1>10 DEF NoView, Given
 <2> QED BY <1>8, <1>14, <1>a, <2>4, <2>5 DEF Counts
<1>18. Good(t, fresh) BY <1>8, <1>14, <1>15, <1>16, <1>17, <1>a DEF Good
<1>19. Keeping(t, q)
 <2>1. Here(t) = [path |-> Here(t).path, saved |-> Here(t).saved] BY <1>10, <1>14
 <2>2. StateFits(t) /\ IsSeq(t.tab.entries) /\ t.tab.at \in 1..Len(t.tab.entries)
       /\ \A k \in DOMAIN t.nav.entries : ContextFits(t.nav.entries[k].context)
   BY <1>14 DEF Held
 <2> QED BY <1>7, <2>1, <2>2, PersistIs
<1>20. ~Dead(Here(t)) BY <1>10, <1>14 DEF Dead, Given, NoView
<1>21. Good(q, fresh) BY <1>18, <1>19, <1>20, KeepingGood
<1>22. /\ Stored(Here(q)) <=> Seen(t.card) = Named(Here(t).path)
       /\ Named(Here(q).path) = Named(Here(t).path)
  BY <1>18, <1>19, Kept
<1>23. q.card = c BY <1>8, <1>19 DEF Keeping
<1> QED BY <1>8, <1>9, <1>10, <1>14, <1>21, <1>22, <1>23 DEF Dead

(* The invariant: a good state, in which numbers count until a reload.     *)
SpentFits == spent = [x \in {"clicks", "moves", "unseen", "reloads", "relinks"} |-> spent[x]] /\ spent.reloads \in Nat

NavInv == SpentFits /\ Good(Now, spent.reloads = 0)

(* Capturing keeps a good state, unless a dialog shows over a dead entry.  *)
LEMMA CaptureGood ==
  ASSUME NEW s, NEW fresh, Good(s, fresh), ~Dialog(Seen(s.card)) \/ ~Dead(Here(s)),
         NEW q, q = Capture(s, TRUE)
  PROVE  Good(q, fresh) /\ Keeping(s, q)
<1>1. Held(s, fresh) BY DEF Good
<1>2. Keeping(s, q) BY <1>1, CaptureIs
<1>3. EntryFits(Here(s)) BY <1>1, EntryIs
<1>4. Dead(Here(s)) => Seen(s.card) # Named(Here(s).path) BY <1>3 DEF Dead, EntryFits
<1> QED BY <1>2, <1>4, KeepingGood

(* From a dialog a click leads elsewhere. *)
Differs(c, d) == c.detail = None \/ d.detail = None \/ (c.detail.kind = "episode" /\ d.detail.kind = "node")

(* A click that changes a dialog and shows the same place leaves no        *)
(* dialog.                                                                 *)
LEMMA DialogLeft ==
  ASSUME NEW c, CardFits(c), NEW d, CardFits(d), Differs(c, d), Seen(c) = Seen(d)
  PROVE  ~Dialog(Seen(c))
<1>1. RouteOf(c).detail = c.detail /\ RouteOf(d).detail = d.detail BY DEF RouteOf
<1> QED BY <1>1, CardTells DEF Tells, Differs

(* What finish is called with.                                             *)
Finishing(s, c, a, b, before, q) ==
  /\ a = Capture(s, TRUE) /\ b = [a EXCEPT !.card = c] /\ q = Finish(b, before)
  /\ before.id = s.nav.id /\ before.route = RouteOf(s.card)

(* WorkspaceNavigation.finish after a click that changed the card.         *)
LEMMA FinishGood ==
  ASSUME NEW s, NEW fresh, Good(s, fresh), NEW c, CardFits(c), c.pending = None, Differs(s.card, c),
         NEW a, NEW b, NEW before, NEW q, Finishing(s, c, a, b, before, q)
  PROVE  Good(q, fresh) /\ q.card = c /\ (~Dialog(Seen(q.card)) \/ ~Dead(Here(q)))
<1>1. Held(s, fresh) /\ CardFits(s.card) BY DEF Good, Held
<1>2. Keeping(s, a) BY <1>1, CaptureIs DEF Finishing
<1>3. StateFits(b) /\ b.card = c /\ b.nav = a.nav /\ b.tab = a.tab
  BY <1>2 DEF Finishing, Keeping, StateFits
<1>4. q = IF Seen(c) = Seen(s.card) THEN b ELSE Pushed(b, s.nav.id)
  BY <1>3 DEF Finishing, Finish, Seen
<1>5. CASE Seen(c) = Seen(s.card)
 <2>1. ~Dialog(Seen(s.card)) BY <1>1, <1>5, DialogLeft
 <2>2. Good(a, fresh) /\ a.card = s.card BY <1>2, <2>1, CaptureGood DEF Finishing, Keeping
 <2>3. Good(b, fresh) BY <1>5, <2>2, CardChanges DEF Finishing
 <2> QED BY <1>3, <1>4, <1>5, <2>1, <2>3
<1>6. CASE Seen(c) # Seen(s.card)
 <2>1. q = Pushed(b, s.nav.id) BY <1>4, <1>6
 <2> QED BY <1>2, <1>3, <1>6, <2>1, PushGood
<1> QED BY <1>5, <1>6

(* The state after a step is the one the step names.                       *)
LEMMA BecomesIs ==
  ASSUME NEW s, StateFits(s), Becomes(s)
  PROVE  Now' = s
BY DEF StateFits, Becomes, Now

(* The parts of the state.                                                 *)
LEMMA NowIs == Now.card = card /\ Now.nav = nav /\ Now.tab = tab
BY DEF Now

(* A click the tools handle keeps a good state.                            *)
LEMMA ToolClickGood ==
  ASSUME NavInv, NEW c, CardFits(c), c.pending = None, Differs(card, c), ToolClick(c)
  PROVE  Good(Now', spent.reloads = 0)
<1> DEFINE a == Capture(Now, TRUE)
           b == [a EXCEPT !.card = c]
           before == [id |-> a.nav.id, route |-> RouteOf(card)]
           q == Finish(b, before)
<1>1. Becomes(q) BY DEF ToolClick
<1>2. a = Capture(Now, TRUE) /\ b = [a EXCEPT !.card = c] /\ q = Finish(b, before)
      /\ before.id = a.nav.id /\ before.route = RouteOf(card)
  OBVIOUS
<1> HIDE DEF a, b, before, q
<1>3. Good(Now, spent.reloads = 0) BY DEF NavInv
<1>4. a.nav.id = nav.id BY <1>2, <1>3, CaptureIs, NowIs DEF Good, Keeping
<1> DEFINE s == Now fresh == (spent.reloads = 0)
<1>5. s.card = card /\ s.nav.id = nav.id /\ Good(s, fresh) /\ a = Capture(s, TRUE)
  BY <1>2, <1>3, NowIs
<1> HIDE DEF s, fresh
<1>a. Finishing(s, c, a, b, before, q) BY <1>2, <1>4, <1>5 DEF Finishing
<1>6. Good(q, fresh) BY <1>5, <1>a, FinishGood
<1>7. StateFits(q) BY <1>6 DEF Good, Held
<1>8. Now' = q BY <1>1, <1>7, BecomesIs
<1> QED BY <1>6, <1>8 DEF fresh

(* A click the card handles keeps a good state.                            *)
LEMMA ClickGood ==
  ASSUME NavInv, NEW c, CardFits(c), c.pending = None, Differs(card, c), Click(c)
  PROVE  Good(Now', spent.reloads = 0)
<1> DEFINE a == Capture(Now, TRUE)
           b == [a EXCEPT !.card = c]
           before == [id |-> a.nav.id, route |-> RouteOf(card)]
           q == Finish(b, before)
           z == Capture(q, TRUE)
<1>1. Becomes(z) BY DEF Click
<1>2. a = Capture(Now, TRUE) /\ b = [a EXCEPT !.card = c] /\ q = Finish(b, before)
      /\ before.id = a.nav.id /\ before.route = RouteOf(card) /\ z = Capture(q, TRUE)
  OBVIOUS
<1> HIDE DEF a, b, before, q, z
<1>3. Good(Now, spent.reloads = 0) BY DEF NavInv
<1>4. a.nav.id = nav.id BY <1>2, <1>3, CaptureIs, NowIs DEF Good, Keeping
<1> DEFINE s == Now fresh == (spent.reloads = 0)
<1>5. s.card = card /\ s.nav.id = nav.id /\ Good(s, fresh) /\ a = Capture(s, TRUE)
  BY <1>2, <1>3, NowIs
<1> HIDE DEF s, fresh
<1>a. Finishing(s, c, a, b, before, q) BY <1>2, <1>4, <1>5 DEF Finishing
<1>6. Good(q, fresh) /\ (~Dialog(Seen(q.card)) \/ ~Dead(Here(q))) BY <1>5, <1>a, FinishGood
<1>7. Good(z, fresh) BY <1>2, <1>6, CaptureGood
<1>8. StateFits(z) BY <1>7 DEF Good, Held
<1>9. Now' = z BY <1>1, <1>8, BecomesIs
<1> QED BY <1>7, <1>9 DEF fresh

-----------------------------------------------------------------------------
(* The actions. *)

(* A change of the card no click made, and nothing captures.               *)
LEMMA CardReplaced ==
  ASSUME NEW s, NEW fresh, Good(s, fresh), NEW c, CardFits(c), Follows(c, s.nav.last),
         Seen(c) = Named(Here(s).path) \/ Dialog(Named(Here(s).path)),
         Scoped(Here(s).path) => c.page = "problems" /\ c.report = s.card.report,
         NEW q, q = [s EXCEPT !.card = c]
  PROVE  Good(q, fresh)
<1>1. StateFits(s) /\ CardFits(s.card) /\ Held(s, fresh) BY DEF Good, Held
<1>2. StateFits(q) /\ q.card = c /\ q.nav = s.nav /\ q.tab = s.tab BY <1>1 DEF StateFits
<1>3. Here(q) = Here(s) /\ \A i, id : Behind(q, i, id) <=> Behind(s, i, id) BY <1>2 DEF Here, Behind
<1>4. Held(q, fresh) BY <1>1, <1>2, <1>3 DEF Held, Numbered
<1>5. fresh => Counts(q) BY <1>2, <1>3 DEF Good, Counts
<1>6. Belongs(s) /\ s.nav.id \in Nat \ {0} BY DEF Good
<1>7. Belongs(q) BY <1>2, <1>3, <1>6 DEF Belongs
<1> QED BY <1>2, <1>4, <1>5, <1>6, <1>7 DEF Good

(* A dialog that closes of itself, outside the scope of a notification.    *)
LEMMA DialogGone ==
  ASSUME NEW s, NEW fresh, Good(s, fresh), s.card.detail # None,
         ~(s.card.page = "problems" /\ s.card.members # None), NEW c, CardFits(c), c.pending = None,
         NEW q, q = [s EXCEPT !.card = c]
  PROVE  Good(q, fresh)
<1>1. CardFits(s.card) /\ Held(s, fresh) /\ Follows(s.card, s.nav.last) /\ Belongs(s)
  BY DEF Good, Held
<1>2. ~(s.card.page = "problems" /\ s.card.report # None) BY <1>1 DEF CardFits
<1>3. /\ RouteOf(s.card).page = s.card.page /\ RouteOf(s.card).detail = s.card.detail
      /\ s.card.page = "problems" => RouteOf(s.card).report = s.card.report
                                     /\ RouteOf(s.card).members = s.card.members
  BY DEF RouteOf
<1>4. Plain(RouteOf(s.card)) BY <1>2, <1>3 DEF Plain, Listed
<1>5. Dialog(Seen(s.card)) BY <1>1, <1>3, <1>4, CardTells DEF Tells
<1>6. Dialog(s.nav.last) /\ ~Scoped(s.nav.last) BY <1>1, <1>2, <1>5 DEF Follows
<1>7. Dialog(Named(Here(s).path)) /\ ~Scoped(Here(s).path) BY <1>1, <1>2, <1>5 DEF Belongs
<1>8. Follows(c, s.nav.last) BY <1>6 DEF Follows
<1> QED BY <1>7, <1>8, CardReplaced

(* The card each handler makes. *)
LEMMA HereNow ==
  ASSUME NavInv
  PROVE  /\ CardFits(card) /\ Good(Now, spent.reloads = 0)
         /\ card.detail # None \/ card.page # "problems" \/ card.members # <<>> => card.pending = None
BY NowIs DEF NavInv, Good, Held, CardFits

(* Issues and sources have names.                                          *)
LEMMA EpisodeIds == Episodes \subseteq Ids /\ Sources \subseteq Ids /\ None \notin Ids /\ Keep \notin Ids
<1>1. Episodes \subseteq Ids /\ Sources \subseteq Ids BY DEF Ids
<1> QED BY <1>1, NavAssumption

(* Opening a page keeps a good state.                                      *)
LEMMA OpenPageGood ==
  ASSUME NavInv, NEW page \in Pages, OpenPage(page)
  PROVE  Good(Now', spent.reloads = 0)
<1> DEFINE definition == IF page \in {"policies", "notifications"} THEN None ELSE card.definition
           mobile == IF page = "sources" THEN FALSE ELSE card.mobile
           c == [Unscoped(card) EXCEPT !.detail = None, !.page = page, !.definition = definition, !.mobile = mobile]
<1>0. CardFits(card) BY HereNow
<1>1. Click([Unscoped(card) EXCEPT !.detail = None, !.page = page,
               !.definition = IF page \in {"policies", "notifications"} THEN None ELSE @,
               !.mobile = IF page = "sources" THEN FALSE ELSE @])
  BY DEF OpenPage
<1>2. /\ Unscoped(card) = [x \in CardFields |-> Unscoped(card)[x]]
      /\ Unscoped(card).definition = card.definition /\ Unscoped(card).mobile = card.mobile
      /\ Unscoped(card).report = None /\ Unscoped(card).members = None /\ Unscoped(card).pending = None
      /\ Unscoped(card).source = card.source /\ Unscoped(card).view = card.view
      /\ Unscoped(card).section = card.section /\ Unscoped(card).history = card.history
      /\ Unscoped(card).detail = card.detail /\ Unscoped(card).page = card.page
  BY <1>0 DEF Unscoped, CardFits, CardFields
<1>3. Click(c) BY <1>1, <1>2
<1> HIDE DEF definition, mobile
<1>4. /\ c = [x \in CardFields |-> c[x]]
      /\ c.page = page /\ c.report = None /\ c.pending = None /\ c.source = card.source
      /\ c.view = card.view /\ c.definition = definition /\ c.section = card.section
      /\ c.history = card.history /\ c.detail = None
  BY <1>2 DEF CardFields
<1> HIDE DEF c
<1>5. CardFits(c) BY <1>0, <1>4, NavAssumption DEF CardFits, definition, DetailFits, DefinitionFits
<1> QED BY <1>3, <1>4, <1>5, ClickGood DEF Differs

(* Leaving a notification for all issues keeps a good state.               *)
LEMMA AllIssuesGood ==
  ASSUME NavInv, AllIssues
  PROVE  Good(Now', spent.reloads = 0)
<1> DEFINE c == [Unscoped(card) EXCEPT !.search = ""]
<1>0. CardFits(card) BY HereNow
<1>1. Click(c) /\ card.detail = None BY DEF AllIssues, Free
<1>2. CardFits(c) /\ c.pending = None BY <1>0 DEF Unscoped, CardFits, CardFields
<1> HIDE DEF c
<1> QED BY <1>1, <1>2, ClickGood DEF Differs

(* Selecting a source keeps a good state.                                  *)
LEMMA SelectSourceGood ==
  ASSUME NavInv, NEW source \in Sources, SelectSource(source)
  PROVE  Good(Now', spent.reloads = 0)
<1> DEFINE c == [card EXCEPT !.source = source, !.view = "source", !.mobile = TRUE]
<1>0. CardFits(card) /\ source # Keep BY HereNow, EpisodeIds
<1>1. Click(c) /\ card.detail = None /\ card.page = "sources" BY DEF SelectSource, Free
<1>2. CardFits(c) /\ c.pending = None BY <1>0, <1>1, NavAssumption DEF CardFits, CardFields
<1> HIDE DEF c
<1> QED BY <1>1, <1>2, ClickGood DEF Differs

(* The link to a source keeps a good state.                                *)
LEMMA SourceLinkGood ==
  ASSUME NavInv, NEW source \in Sources, SourceLink(source)
  PROVE  Good(Now', spent.reloads = 0)
<1> DEFINE c == [card EXCEPT !.detail = None, !.mobile = TRUE, !.view = "source", !.source = source,
                             !.page = "sources"]
<1>0. CardFits(card) /\ source # Keep BY HereNow, EpisodeIds
<1>1. Click(c) /\ (card.detail # None \/ (card.page = "problems" /\ card.members # <<>>))
  BY DEF SourceLink
<1>2. card.pending = None BY <1>1, HereNow
<1>3. CardFits(c) /\ c.pending = None /\ c.detail = None
  BY <1>0, <1>2, NavAssumption DEF CardFits, CardFields, DetailFits, PageNames
<1> HIDE DEF c
<1> QED BY <1>1, <1>3, ClickGood DEF Differs

(* Turning to the history of a source or back keeps a good state.          *)
LEMMA SourceViewGood ==
  ASSUME NavInv, SourceView
  PROVE  Good(Now', spent.reloads = 0)
<1> DEFINE view == IF card.view = "source" THEN "history" ELSE "source"
           c == [card EXCEPT !.view = view]
<1>0. CardFits(card) BY HereNow
<1>1. Click(c) /\ card.detail = None /\ card.page = "sources" BY DEF SourceView, Free
<1> HIDE DEF view
<1>2. CardFits(c) /\ c.pending = None BY <1>0, <1>1, NavAssumption DEF CardFits, CardFields, view
<1> HIDE DEF c
<1> QED BY <1>1, <1>2, ClickGood DEF Differs

(* Going back to the list of sources keeps a good state.                   *)
LEMMA BackToSourcesGood ==
  ASSUME NavInv, BackToSources
  PROVE  Good(Now', spent.reloads = 0)
<1> DEFINE c == [card EXCEPT !.mobile = FALSE]
<1>0. CardFits(card) BY HereNow
<1>1. Click(c) /\ card.detail = None /\ card.page = "sources" BY DEF BackToSources, Free
<1>2. CardFits(c) /\ c.pending = None BY <1>0, <1>1 DEF CardFits, CardFields
<1> HIDE DEF c
<1> QED BY <1>1, <1>2, ClickGood DEF Differs

(* Opening an issue or the issues of a device keeps a good state.          *)
LEMMA OpenDetailGood ==
  ASSUME NavInv, NEW kind \in {"episode", "device"}, NEW id \in Episodes, OpenDetail(kind, id)
  PROVE  Good(Now', spent.reloads = 0)
<1> DEFINE detail == [kind |-> kind, id |-> id]
           c == [card EXCEPT !.detail = detail]
<1>0. CardFits(card) /\ DetailFits(detail) BY HereNow, EpisodeIds, SelectionFits
<1>1. Click(c) /\ card.detail = None BY DEF OpenDetail, Free
<1>2. card.members # None => \E i \in DOMAIN card.members : card.members[i] = id BY DEF OpenDetail
<1>3. card.members # <<>> BY <1>2, NavAssumption
<1>4. card.pending = None BY <1>3, HereNow
<1> HIDE DEF detail
<1>5. CardFits(c) /\ c.pending = None BY <1>0, <1>4 DEF CardFits, CardFields
<1> HIDE DEF c
<1> QED BY <1>1, <1>5, ClickGood DEF Differs

(* Opening the connection of an issue keeps a good state.                  *)
LEMMA OpenNodeGood ==
  ASSUME NavInv, NEW id \in Sources, OpenNode(id)
  PROVE  Good(Now', spent.reloads = 0)
<1> DEFINE detail == [kind |-> "node", id |-> id]
           c == [card EXCEPT !.detail = detail]
<1>0. CardFits(card) /\ DetailFits(detail) /\ detail.kind = "node"
  BY HereNow, EpisodeIds, SelectionFits
<1>1. Click(c) /\ Is(card.detail, "episode") BY DEF OpenNode
<1>2. card.detail # None /\ card.detail.kind = "episode" BY <1>1 DEF Is
<1>3. card.pending = None BY <1>2, HereNow
<1> HIDE DEF detail
<1>4. CardFits(c) /\ c.pending = None /\ c.detail = detail BY <1>0, <1>3 DEF CardFits, CardFields
<1> HIDE DEF c
<1> QED BY <1>0, <1>1, <1>2, <1>4, ClickGood DEF Differs

(* Opening a definition keeps a good state.                                *)
LEMMA EditGood ==
  ASSUME NavInv, NEW d \in Definitions, Edit(d)
  PROVE  Good(Now', spent.reloads = 0)
<1> DEFINE page == IF d.kind = "policies" THEN "policies" ELSE "notifications"
           section == IF d.kind = "policies" THEN card.section ELSE d.kind
           c == [card EXCEPT !.detail = None, !.definition = d, !.page = page, !.section = section]
<1>0. CardFits(card) BY HereNow
<1>1. DefinitionFits(d) /\ d.kind \in {"policies", "profiles", "methods"}
  BY NavAssumption DEF DefinitionFits
<1>2. Click(c) /\ (card.detail # None \/ card.page \in {"sources", "policies", "notifications"})
  BY DEF Edit
<1>3. card.pending = None BY <1>2, HereNow
<1> HIDE DEF page, section
<1>4. section # Keep /\ page \in PageNames
  BY <1>0, <1>1, NavAssumption DEF section, page, CardFits, PageNames
<1>5. CardFits(c) /\ c.pending = None /\ c.detail = None
  BY <1>0, <1>1, <1>3, <1>4 DEF CardFits, CardFields, DetailFits
<1> HIDE DEF c
<1> QED BY <1>2, <1>5, ClickGood DEF Differs

(* The card without its dialog.                                            *)
LEMMA CloseFits ==
  ASSUME NavInv, card.detail # None, NEW c, c = [card EXCEPT !.detail = None]
  PROVE  CardFits(c) /\ c.pending = None /\ c.detail = None
<1>1. CardFits(card) /\ card.pending = None BY HereNow
<1> QED BY <1>1 DEF CardFits, CardFields, DetailFits

(* Closing a dialog with its button keeps a good state.                    *)
LEMMA CloseGood ==
  ASSUME NavInv, Close
  PROVE  Good(Now', spent.reloads = 0)
<1> DEFINE c == [card EXCEPT !.detail = None]
<1>1. Click(c) /\ card.detail # None BY DEF Close
<1>2. CardFits(c) /\ c.pending = None /\ c.detail = None BY <1>1, CloseFits
<1> HIDE DEF c
<1> QED BY <1>1, <1>2, ClickGood DEF Differs

(* The state after a change of the card alone.                             *)
LEMMA UnseenIs ==
  ASSUME NavInv, NEW c, card' = c, UNCHANGED <<nav, tab>>
  PROVE  Now' = [Now EXCEPT !.card = c]
BY DEF Now

(* Closing a dialog with Escape keeps a good state.                        *)
LEMMA EscapeGood ==
  ASSUME NavInv, Escape
  PROVE  Good(Now', spent.reloads = 0)
<1> DEFINE c == [card EXCEPT !.detail = None]
<1>1. card.detail # None BY DEF Escape
<1>2. CardFits(c) /\ c.pending = None /\ c.detail = None BY <1>1, CloseFits
<1>3. CASE card.page = "problems" /\ card.members # None /\ ~Is(card.detail, "device")
 <2>1. ToolClick(c) BY <1>3 DEF Escape
 <2> HIDE DEF c
 <2> QED BY <1>2, <2>1, ToolClickGood DEF Differs
<1>4. CASE ~(card.page = "problems" /\ card.members # None /\ ~Is(card.detail, "device"))
 <2>1. ~Is(card.detail, "device") /\ card' = c /\ UNCHANGED <<nav, tab>> BY <1>4 DEF Escape
 <2> HIDE DEF c
 <2>2. Now' = [Now EXCEPT !.card = c] BY <2>1, UnseenIs
 <2>3. Now.card.detail # None /\ ~(Now.card.page = "problems" /\ Now.card.members # None)
   BY <1>1, <1>4, <2>1, NowIs
 <2> DEFINE s == Now fresh == (spent.reloads = 0) q == Now'
 <2>4. Good(s, fresh) BY HereNow
 <2>5. s.card.detail # None /\ ~(s.card.page = "problems" /\ s.card.members # None)
       /\ q = [s EXCEPT !.card = c]
   BY <2>2, <2>3
 <2> HIDE DEF s, fresh, q
 <2>6. Good(q, fresh) BY <1>2, <2>4, <2>5, DialogGone
 <2> QED BY <2>6 DEF q, fresh
<1> QED BY <1>3, <1>4

(* Closing the issues of a device keeps a good state.                      *)
LEMMA CloseDeviceGood ==
  ASSUME NavInv, CloseDevice
  PROVE  Good(Now', spent.reloads = 0)
<1> DEFINE c == [card EXCEPT !.detail = None]
<1>1. ToolClick(c) /\ card.detail # None BY DEF CloseDevice, Is
<1>2. CardFits(c) /\ c.pending = None /\ c.detail = None BY <1>1, CloseFits
<1> HIDE DEF c
<1> QED BY <1>1, <1>2, ToolClickGood DEF Differs

(* Opening or folding a record of the history keeps a good state.          *)
LEMMA ToggleHistoryGood ==
  ASSUME NavInv, NEW id \in Episodes, ToggleHistory(id)
  PROVE  Good(Now', spent.reloads = 0)
<1> DEFINE c == IF card.history = id THEN [card EXCEPT !.history = None] ELSE ShowHistory(card, id)
<1>0. CardFits(card) /\ id # Keep /\ None # Keep BY HereNow, EpisodeIds, NavAssumption
<1>1. ToolClick(c) /\ card.detail = None /\ card.page = "history" BY DEF ToggleHistory, Free
<1>2. CardFits(c) /\ c.pending = None
 <2>1. CASE card.history = id BY <1>0, <1>1, <2>1 DEF CardFits, CardFields
 <2>2. CASE card.history # id BY <1>0, <1>1, <2>2 DEF CardFits, CardFields, ShowHistory
 <2> QED BY <2>1, <2>2
<1> HIDE DEF c
<1> QED BY <1>1, <1>2, ToolClickGood DEF Differs

(* Opening an issue from the history keeps a good state.                   *)
LEMMA OpenFromHistoryGood ==
  ASSUME NavInv, NEW id \in Episodes, OpenFromHistory(id)
  PROVE  Good(Now', spent.reloads = 0)
<1> DEFINE detail == [kind |-> "episode", id |-> id]
           c == [card EXCEPT !.history = None, !.detail = detail]
<1>0. CardFits(card) /\ DetailFits(detail) BY HereNow, EpisodeIds, SelectionFits
<1>1. ToolClick(c) /\ card.detail = None /\ card.page = "history" BY DEF OpenFromHistory, Free
<1> HIDE DEF detail
<1>2. CardFits(c) /\ c.pending = None BY <1>0, <1>1, NavAssumption DEF CardFits, CardFields
<1> HIDE DEF c
<1> QED BY <1>1, <1>2, ToolClickGood DEF Differs

(* A search keeps a good state.                                            *)
LEMMA SearchGood ==
  ASSUME NavInv, NEW text \in Texts, Search(text)
  PROVE  Good(Now', spent.reloads = 0)
<1> DEFINE c == [card EXCEPT !.search = text]
<1>0. CardFits(card) /\ Good(Now, spent.reloads = 0) BY HereNow
<1>1. card' = c /\ UNCHANGED <<nav, tab>> BY DEF Search
<1>2. CardFits(c) /\ c.pending = card.pending BY <1>0 DEF CardFits, CardFields
<1>3. /\ c.page = card.page /\ c.report = card.report /\ c.members = card.members /\ c.source = card.source
      /\ c.view = card.view /\ c.definition = card.definition /\ c.section = card.section
      /\ c.history = card.history /\ c.detail = card.detail
  BY <1>0 DEF CardFits, CardFields
<1> HIDE DEF c
<1>4. RouteOf(c) = RouteOf(card) BY <1>3 DEF RouteOf
<1>5. Seen(c) = Seen(card) BY <1>4 DEF Seen
<1>6. Now' = [Now EXCEPT !.card = c] BY <1>1, UnseenIs
<1> DEFINE s == Now fresh == (spent.reloads = 0) q == Now'
<1>7. s.card = card /\ Good(s, fresh) /\ q = [s EXCEPT !.card = c] BY <1>0, <1>6, NowIs
<1> HIDE DEF s, fresh, q
<1>8. Good(q, fresh) BY <1>2, <1>5, <1>7, CardChanges
<1> QED BY <1>8 DEF q, fresh

(* The end of an issue under its dialog keeps a good state.                *)
LEMMA IssueEndsGood ==
  ASSUME NavInv, IssueEnds
  PROVE  Good(Now', spent.reloads = 0)
<1> DEFINE c == ShowHistory(card, card.detail.id)
<1>0. CardFits(card) /\ Good(Now, spent.reloads = 0) /\ Keep \notin Ids BY HereNow, EpisodeIds
<1>1. /\ card' = c /\ UNCHANGED <<nav, tab>>
      /\ card.detail # None /\ ~(card.page = "problems" /\ card.members # None)
  BY DEF IssueEnds, Is
<1>2. card.detail.id \in Ids BY <1>0, <1>1 DEF CardFits, DetailFits
<1>3. card.pending = None BY <1>1, HereNow
<1>4. CardFits(c) /\ c.pending = None
  BY <1>0, <1>2, <1>3 DEF CardFits, CardFields, ShowHistory, DetailFits, PageNames
<1> HIDE DEF c
<1>6. Now' = [Now EXCEPT !.card = c] BY <1>1, UnseenIs
<1> DEFINE s == Now fresh == (spent.reloads = 0) q == Now'
<1>7. s.card.detail # None /\ ~(s.card.page = "problems" /\ s.card.members # None)
      /\ Good(s, fresh) /\ q = [s EXCEPT !.card = c]
  BY <1>0, <1>1, <1>6, NowIs
<1> HIDE DEF s, fresh, q
<1>8. Good(q, fresh) BY <1>4, <1>7, DialogGone
<1> QED BY <1>8 DEF q, fresh

(* The members of a report that come in keeps a good state.                *)
LEMMA ReportLoadedGood ==
  ASSUME NavInv, ReportLoaded
  PROVE  Good(Now', spent.reloads = 0)
<1> DEFINE detail == IF card.pending # None /\ \E i \in DOMAIN Reported : Reported[i] = card.pending.id
                     THEN card.pending ELSE card.detail
           c == [card EXCEPT !.members = Reported, !.pending = None, !.detail = detail]
<1>0. CardFits(card) /\ Good(Now, spent.reloads = 0) BY HereNow
<1>1. card' = c /\ UNCHANGED <<nav, tab>> /\ card.report # None BY DEF ReportLoaded
<1>2. DetailFits(detail) /\ (card.pending = None => detail = card.detail) BY <1>0 DEF CardFits
<1>3. card.pending # None => card.page = "problems" BY <1>0 DEF CardFits
<1> HIDE DEF detail
<1>4. /\ CardFits(c) /\ c.pending = None
      /\ c.page = card.page /\ c.report = card.report /\ c.members = Reported /\ c.source = card.source
      /\ c.view = card.view /\ c.definition = card.definition /\ c.section = card.section
      /\ c.history = card.history /\ c.detail = detail
  BY <1>0, <1>2, NavAssumption DEF CardFits, CardFields
<1> HIDE DEF c
<1>6. Now' = [Now EXCEPT !.card = c] BY <1>1, UnseenIs
<1> DEFINE s == Now fresh == (spent.reloads = 0) q == Now'
<1>7. s.card = card /\ Good(s, fresh) /\ q = [s EXCEPT !.card = c] BY <1>0, <1>6, NowIs
<1> HIDE DEF s, fresh, q
<1>8. CASE card.pending = None
 <2>1. Seen(c) = Seen(card)
  <3> DEFINE a == RouteOf(card) b == RouteOf(c)
  <3>1. /\ a.page = b.page /\ a.report = b.report /\ a.detail = b.detail /\ a.definition = b.definition
        /\ a.history = b.history /\ a.source = b.source /\ a.view = b.view /\ a.section = b.section
        /\ a.page = card.page /\ (card.page = "problems" => a.report = card.report)
        /\ (card.page # "problems" => a.members = b.members)
    BY <1>2, <1>4, <1>8 DEF RouteOf
  <3> HIDE DEF a, b
  <3>2. CASE card.page = "problems"
   <4>1. a.report # None /\ b.report # None /\ a.page = "problems" /\ b.page = "problems"
     BY <1>1, <3>1, <3>2
   <4>2. PathOf(a) = IF Is(a.detail, "episode") THEN <<"notification", a.report, "episode", a.detail.id>>
                     ELSE <<"notification", a.report>>
     BY <4>1, ReportPath
   <4>3. PathOf(b) = IF Is(b.detail, "episode") THEN <<"notification", b.report, "episode", b.detail.id>>
                     ELSE <<"notification", b.report>>
     BY <4>1, ReportPath
   <4> QED BY <3>1, <4>2, <4>3 DEF Seen, a, b
  <3>3. CASE card.page # "problems"
   <4>1. PathOf(b) = PathOf(a) BY <3>1, <3>3, SamePath
   <4> QED BY <4>1 DEF Seen, a, b
  <3> QED BY <3>2, <3>3
 <2>2. Good(q, fresh) BY <1>4, <1>7, <2>1, CardChanges
 <2> QED BY <2>2 DEF q, fresh
<1>9. CASE card.pending # None
 <2>1. Follows(s.card, s.nav.last) /\ Belongs(s) /\ EntryFits(Here(s)) BY <1>7, EntryIs DEF Good
 <2>2. Dialog(s.nav.last) BY <1>7, <1>9, <2>1 DEF Follows
 <2>3. Follows(c, s.nav.last) BY <1>4, <1>7, <2>1, <2>2 DEF Follows
 <2>4. Dialog(Named(Here(s).path)) BY <2>1, <2>2 DEF Belongs, Dead, EntryFits
 <2>5. Scoped(Here(s).path) => c.page = "problems" /\ c.report = s.card.report
   BY <1>3, <1>4, <1>7, <1>9
 <2>6. Good(q, fresh) BY <1>4, <1>7, <2>3, <2>4, <2>5, CardReplaced
 <2> QED BY <2>6 DEF q, fresh
<1> QED BY <1>8, <1>9

(* Going back or forward keeps a good state.                               *)
LEMMA MoveGood ==
  ASSUME NavInv, NEW to, to = tab.at - 1 \/ to = tab.at + 1, Move(to)
  PROVE  Good(Now', spent.reloads = 0)
<1> DEFINE s == Now fresh == (spent.reloads = 0) q == Popped(Now, to)
<1>1. Good(s, fresh) /\ s.tab = tab BY HereNow, NowIs
<1>2. Becomes(q) /\ to \in DOMAIN tab.entries /\ q = Popped(s, to) BY DEF Move
<1> HIDE DEF s, fresh, q
<1>3. to \in 1..Len(s.tab.entries) BY <1>1, <1>2 DEF Good, Held, IsSeq
<1>4. to = s.tab.at - 1 \/ to = s.tab.at + 1 BY <1>1
<1>5. Good(q, fresh) BY <1>1, <1>2, <1>3, <1>4, PoppedKeeps
<1>6. StateFits(q) BY <1>5 DEF Good, Held
<1>7. Now' = q BY <1>2, <1>6, BecomesIs
<1> QED BY <1>5, <1>7 DEF fresh

(* A link that is followed keeps a good state.                             *)
LEMMA NewLinkGood ==
  ASSUME NavInv, NEW path \in Links, NewLink(path)
  PROVE  Good(Now', spent.reloads = 0)
<1> DEFINE s == Now fresh == (spent.reloads = 0)
           t == [Now EXCEPT !.tab = [entries |-> Append(SubSeq(tab.entries, 1, tab.at),
                                                        [path |-> path, saved |-> NoView]),
                                     at |-> tab.at + 1]]
           q == SetRoute(t, path)
<1>1. Good(s, fresh) /\ s.tab = tab /\ s.nav = nav BY HereNow, NowIs
<1>2. Becomes(q) /\ path # nav.ha /\ Named(path) # nav.last BY DEF NewLink, Link, Followed, Named
<1>3. t = [s EXCEPT !.tab = [entries |-> Append(SubSeq(s.tab.entries, 1, s.tab.at),
                                                [path |-> path, saved |-> NoView]),
                             at |-> s.tab.at + 1]]
  BY <1>1
<1>4. q = SetRoute(t, path) OBVIOUS
<1>5. PathFits(path) BY LinkFits
<1> HIDE DEF s, fresh, t, q
<1>6. Good(q, fresh) BY <1>1, <1>2, <1>3, <1>4, <1>5, LinkKeeps
<1>7. StateFits(q) BY <1>6 DEF Good, Held
<1>8. Now' = q BY <1>2, <1>7, BecomesIs
<1> QED BY <1>6, <1>8 DEF fresh

(* Loading the page again leads to a good state without numbers.           *)
LEMMA ReloadGood ==
  ASSUME NavInv, Reload
  PROVE  Good(Now', FALSE)
<1> DEFINE q == Opened(tab.entries, tab.at)
<1>1. Becomes(q) BY DEF Reload
<1>2. Held(Now, spent.reloads = 0) BY HereNow DEF Good
<1>3. /\ IsSeq(tab.entries) /\ tab.at \in 1..Len(tab.entries)
      /\ \A i \in 1..Len(tab.entries) : EntryFits(tab.entries[i])
      /\ Beside(tab.entries)
  BY <1>2, NowIs DEF Held
<1>4. q = Opened(tab.entries, tab.at) OBVIOUS
<1> HIDE DEF q
<1>5. Good(q, FALSE) BY <1>3, <1>4, OpenedGood
<1>6. StateFits(q) BY <1>5 DEF Good, Held
<1>7. Now' = q BY <1>1, <1>6, BecomesIs
<1> QED BY <1>5, <1>7

(* A panel that opens at a link or at no path starts in the invariant.     *)
LEMMA NavBegins ==
  ASSUME NavInit
  PROVE  NavInv
<1>1. PICK path \in Links \cup {<<>>} :
        LET s == Opened(<<[path |-> path, saved |-> NoView]>>, 1)
        IN card = s.card /\ nav = s.nav /\ tab = s.tab
  BY DEF NavInit
<1> DEFINE e == [path |-> path, saved |-> NoView]
           entries == <<e>>
           q == Opened(entries, 1)
<1>2. card = q.card /\ nav = q.nav /\ tab = q.tab BY <1>1
<1>3. e.path = path /\ e.saved = NoView /\ e = [path |-> e.path, saved |-> e.saved] OBVIOUS
<1> HIDE DEF e
<1>4. /\ entries = [i \in 1..1 |-> entries[i]] /\ Len(entries) = 1 /\ entries[1] = e OBVIOUS
<1>5. q = Opened(entries, 1) OBVIOUS
<1> HIDE DEF entries, q
<1>6. IsSeq(entries) /\ 1 \in 1..Len(entries) BY <1>4, SeqOf
<1>7. ~Given(NoView) /\ NoView.id = 0 BY DEF NoView, Given
<1>8. EntryFits(e) BY <1>3, <1>7, LinkFits DEF EntryFits
<1>9. /\ \A i \in 1..Len(entries) : EntryFits(entries[i]) /\ ~Given(entries[i].saved)
      /\ Beside(entries)
  BY <1>3, <1>4, <1>7, <1>8 DEF Beside
<1>10. Good(q, TRUE) BY <1>5, <1>6, <1>9, OpenedGood
<1>12. Now = q BY <1>2, <1>10 DEF Good, Held, StateFits, Now
<1>13. spent = [clicks |-> 0, moves |-> 0, unseen |-> 0, reloads |-> 0, relinks |-> 0]
  BY DEF NavInit
<1>14. SpentFits /\ spent.reloads = 0 BY <1>13 DEF SpentFits
<1>15. (spent.reloads = 0) = TRUE BY <1>14
<1> QED BY <1>10, <1>12, <1>14, <1>15 DEF NavInv

-----------------------------------------------------------------------------
(* The invariant of every step, and what follows from it. *)

(* What a step costs is counted, and only a reload counts as a reload. *)
LEMMA SpendIs ==
  ASSUME SpentFits, NEW kind \in {"clicks", "moves", "unseen", "reloads", "relinks"}, NEW limit,
         Spend(kind, limit)
  PROVE  /\ SpentFits'
         /\ kind # "reloads" => spent'.reloads = spent.reloads
         /\ kind = "reloads" => spent'.reloads # 0
<1> DEFINE kinds == {"clicks", "moves", "unseen", "reloads", "relinks"}
<1>1. spent = [x \in kinds |-> spent[x]] /\ spent["reloads"] \in Nat BY DEF SpentFits
<1>2. spent' = [spent EXCEPT ![kind] = spent[kind] + 1] BY DEF Spend
<1>3. kind \in kinds /\ "reloads" \in kinds OBVIOUS
<1> HIDE DEF kinds
<1>4. \A x \in kinds : spent'[x] = IF x = kind THEN spent[kind] + 1 ELSE spent[x] BY <1>1, <1>2
<1>5. spent' = [x \in kinds |-> spent'[x]] BY <1>1, <1>2
<1>6. spent'["reloads"] = IF kind = "reloads" THEN spent["reloads"] + 1 ELSE spent["reloads"]
  BY <1>3, <1>4
<1>7. spent'["reloads"] \in Nat /\ (kind = "reloads" => spent'["reloads"] # 0) BY <1>1, <1>6
<1> QED BY <1>5, <1>6, <1>7 DEF SpentFits, kinds

(* The invariant holds after a step whose state is good and that is no     *)
(* reload.                                                                 *)
LEMMA Counted ==
  ASSUME NavInv, Good(Now', spent.reloads = 0), SpentFits', spent'.reloads = spent.reloads
  PROVE  NavInv'
<1> DEFINE fresh == (spent.reloads = 0) q == Now'
<1>1. Good(q, fresh) OBVIOUS
<1>2. (spent'.reloads = 0) = fresh OBVIOUS
<1>3. Good(q, spent'.reloads = 0)
 <2> HIDE DEF fresh, q
 <2> QED BY <1>1, <1>2
<1> QED BY <1>3 DEF NavInv

(* A click is counted as one.                                              *)
LEMMA ClickSpends ==
  ASSUME NEW c, Click(c) \/ ToolClick(c)
  PROVE  Spend("clicks", MaxClicks)
<1>1. CASE Click(c) BY <1>1 DEF Click
<1>2. CASE ToolClick(c) BY <1>2 DEF ToolClick
<1> QED BY <1>1, <1>2

(* The invariant after a step of a kind that is counted.                   *)
LEMMA ClickCounted ==
  ASSUME NavInv, Good(Now', spent.reloads = 0), NEW kind \in {"clicks", "moves", "unseen", "relinks"},
         NEW limit, Spend(kind, limit)
  PROVE  NavInv'
<1>1. SpentFits' /\ spent'.reloads = spent.reloads BY SpendIs DEF NavInv
<1> QED BY <1>1, Counted

(* Opening a page keeps the invariant.                                     *)
LEMMA OpenPageKept ==
  ASSUME NavInv, NEW page \in Pages, OpenPage(page)
  PROVE  NavInv'
<1>1. Good(Now', spent.reloads = 0) BY OpenPageGood
<1>2. Spend("clicks", MaxClicks) BY ClickSpends DEF OpenPage
<1> QED BY <1>1, <1>2, ClickCounted

(* Leaving a notification for all issues keeps the invariant.              *)
LEMMA AllIssuesKept ==
  ASSUME NavInv, AllIssues
  PROVE  NavInv'
<1>1. Good(Now', spent.reloads = 0) BY AllIssuesGood
<1>2. Spend("clicks", MaxClicks) BY ClickSpends DEF AllIssues
<1> QED BY <1>1, <1>2, ClickCounted

(* Turning to the history of a source or back keeps the invariant.         *)
LEMMA SourceViewKept ==
  ASSUME NavInv, SourceView
  PROVE  NavInv'
<1>1. Good(Now', spent.reloads = 0) BY SourceViewGood
<1>2. Spend("clicks", MaxClicks) BY ClickSpends DEF SourceView
<1> QED BY <1>1, <1>2, ClickCounted

(* Going back to the list of sources keeps the invariant.                  *)
LEMMA BackToSourcesKept ==
  ASSUME NavInv, BackToSources
  PROVE  NavInv'
<1>1. Good(Now', spent.reloads = 0) BY BackToSourcesGood
<1>2. Spend("clicks", MaxClicks) BY ClickSpends DEF BackToSources
<1> QED BY <1>1, <1>2, ClickCounted

(* Closing a dialog with its button keeps the invariant.                   *)
LEMMA CloseKept ==
  ASSUME NavInv, Close
  PROVE  NavInv'
<1>1. Good(Now', spent.reloads = 0) BY CloseGood
<1>2. Spend("clicks", MaxClicks) BY ClickSpends DEF Close
<1> QED BY <1>1, <1>2, ClickCounted

(* Closing the issues of a device keeps the invariant.                     *)
LEMMA CloseDeviceKept ==
  ASSUME NavInv, CloseDevice
  PROVE  NavInv'
<1>1. Good(Now', spent.reloads = 0) BY CloseDeviceGood
<1>2. Spend("clicks", MaxClicks) BY ClickSpends DEF CloseDevice
<1> QED BY <1>1, <1>2, ClickCounted

(* Selecting a source keeps the invariant.                                 *)
LEMMA SelectSourceKept ==
  ASSUME NavInv, NEW source \in Sources, SelectSource(source)
  PROVE  NavInv'
<1>1. Good(Now', spent.reloads = 0) BY SelectSourceGood
<1>2. Spend("clicks", MaxClicks) BY ClickSpends DEF SelectSource
<1> QED BY <1>1, <1>2, ClickCounted

(* The link to a source keeps the invariant.                               *)
LEMMA SourceLinkKept ==
  ASSUME NavInv, NEW source \in Sources, SourceLink(source)
  PROVE  NavInv'
<1>1. Good(Now', spent.reloads = 0) BY SourceLinkGood
<1>2. Spend("clicks", MaxClicks) BY ClickSpends DEF SourceLink
<1> QED BY <1>1, <1>2, ClickCounted

(* Opening the connection of an issue keeps the invariant.                 *)
LEMMA OpenNodeKept ==
  ASSUME NavInv, NEW id \in Sources, OpenNode(id)
  PROVE  NavInv'
<1>1. Good(Now', spent.reloads = 0) BY OpenNodeGood
<1>2. Spend("clicks", MaxClicks) BY ClickSpends DEF OpenNode
<1> QED BY <1>1, <1>2, ClickCounted

(* Opening an issue or the issues of a device keeps the invariant.         *)
LEMMA OpenDetailKept ==
  ASSUME NavInv, NEW kind \in {"episode", "device"}, NEW id \in Episodes, OpenDetail(kind, id)
  PROVE  NavInv'
<1>1. Good(Now', spent.reloads = 0) BY OpenDetailGood
<1>2. Spend("clicks", MaxClicks) BY ClickSpends DEF OpenDetail
<1> QED BY <1>1, <1>2, ClickCounted

(* Opening a definition keeps the invariant.                               *)
LEMMA EditKept ==
  ASSUME NavInv, NEW d \in Definitions, Edit(d)
  PROVE  NavInv'
<1>1. Good(Now', spent.reloads = 0) BY EditGood
<1>2. Spend("clicks", MaxClicks) BY ClickSpends DEF Edit
<1> QED BY <1>1, <1>2, ClickCounted

(* Opening or folding a record of the history keeps the invariant.         *)
LEMMA ToggleHistoryKept ==
  ASSUME NavInv, NEW id \in Episodes, ToggleHistory(id)
  PROVE  NavInv'
<1>1. Good(Now', spent.reloads = 0) BY ToggleHistoryGood
<1>2. Spend("clicks", MaxClicks) BY ClickSpends DEF ToggleHistory
<1> QED BY <1>1, <1>2, ClickCounted

(* Opening an issue from the history keeps the invariant.                  *)
LEMMA OpenFromHistoryKept ==
  ASSUME NavInv, NEW id \in Episodes, OpenFromHistory(id)
  PROVE  NavInv'
<1>1. Good(Now', spent.reloads = 0) BY OpenFromHistoryGood
<1>2. Spend("clicks", MaxClicks) BY ClickSpends DEF OpenFromHistory
<1> QED BY <1>1, <1>2, ClickCounted

(* A search keeps the invariant.                                           *)
LEMMA SearchKept ==
  ASSUME NavInv, NEW text \in Texts, Search(text)
  PROVE  NavInv'
<1>1. Good(Now', spent.reloads = 0) BY SearchGood
<1>2. Spend("unseen", MaxUnseen) BY DEF Search
<1> QED BY <1>1, <1>2, ClickCounted

(* The end of an issue under its dialog keeps the invariant.               *)
LEMMA IssueEndsKept ==
  ASSUME NavInv, IssueEnds
  PROVE  NavInv'
<1>1. Good(Now', spent.reloads = 0) BY IssueEndsGood
<1>2. Spend("unseen", MaxUnseen) BY DEF IssueEnds
<1> QED BY <1>1, <1>2, ClickCounted

(* Closing a dialog with Escape keeps the invariant.                       *)
LEMMA EscapeKept ==
  ASSUME NavInv, Escape
  PROVE  NavInv'
<1>1. Good(Now', spent.reloads = 0) BY EscapeGood
<1>2. ToolClick([card EXCEPT !.detail = None]) \/ Spend("unseen", MaxUnseen) BY DEF Escape
<1>3. Spend("clicks", MaxClicks) \/ Spend("unseen", MaxUnseen) BY <1>2, ClickSpends
<1> QED BY <1>1, <1>3, ClickCounted

(* The members of a report that come in keeps the invariant.               *)
LEMMA ReportLoadedKept ==
  ASSUME NavInv, ReportLoaded
  PROVE  NavInv'
<1>1. Good(Now', spent.reloads = 0) BY ReportLoadedGood
<1>2. SpentFits' /\ spent'.reloads = spent.reloads BY DEF ReportLoaded, NavInv, SpentFits
<1> QED BY <1>1, <1>2, Counted

(* Going back or forward keeps the invariant.                              *)
LEMMA MoveKept ==
  ASSUME NavInv, Back \/ Forward \/ ContextualBack
  PROVE  NavInv'
<1>1. PICK to \in {tab.at - 1, tab.at + 1} : Move(to) BY DEF Back, Forward, ContextualBack
<1>2. Good(Now', spent.reloads = 0) BY <1>1, MoveGood
<1>3. Spend("moves", MaxMoves) BY <1>1 DEF Move
<1> QED BY <1>2, <1>3, ClickCounted

(* A link that is followed keeps the invariant.                            *)
LEMMA NewLinkKept ==
  ASSUME NavInv, NEW path \in Links, NewLink(path)
  PROVE  NavInv'
<1>1. Good(Now', spent.reloads = 0) BY NewLinkGood
<1>2. Spend("clicks", MaxClicks) BY DEF NewLink, Link
<1> QED BY <1>1, <1>2, ClickCounted

(* Loading the page again keeps the invariant.                             *)
LEMMA ReloadKept ==
  ASSUME NavInv, Reload
  PROVE  NavInv'
<1> DEFINE q == Now'
<1>1. Good(q, FALSE) BY ReloadGood
<1>2. SpentFits' /\ spent'.reloads # 0 BY SpendIs DEF Reload, NavInv
<1>3. Good(q, spent'.reloads = 0)
 <2>1. (spent'.reloads = 0) = FALSE BY <1>2
 <2> HIDE DEF q
 <2> QED BY <1>1, <2>1
<1> QED BY <1>2, <1>3 DEF NavInv

(* Every step keeps the invariant.                                         *)
LEMMA NavSteps ==
  ASSUME NavInv, [NavNext]_views
  PROVE  NavInv'
<1>1. CASE UNCHANGED views
 <2>1. UNCHANGED <<card, nav, tab, spent>> BY <1>1 DEF views
 <2>2. Now' = Now /\ spent' = spent BY <2>1 DEF Now
 <2> QED BY <2>2 DEF NavInv, SpentFits
<1>2. CASE NavNext
 <2>1. CASE \E page \in Pages : OpenPage(page) BY <2>1, OpenPageKept
 <2>2. CASE AllIssues \/ SourceView \/ BackToSources \/ Close \/ Escape \/ CloseDevice
   BY <2>2, AllIssuesKept, SourceViewKept, BackToSourcesKept, CloseKept, EscapeKept, CloseDeviceKept
 <2>3. CASE \E s \in Sources : SelectSource(s) \/ SourceLink(s) \/ OpenNode(s)
   BY <2>3, SelectSourceKept, SourceLinkKept, OpenNodeKept
 <2>4. CASE \E e \in Episodes : OpenDetail("episode", e) \/ OpenDetail("device", e)
   BY <2>4, OpenDetailKept
 <2>5. CASE \E d \in Definitions : Edit(d) BY <2>5, EditKept
 <2>6. CASE \E e \in Episodes : ToggleHistory(e) \/ OpenFromHistory(e)
   BY <2>6, ToggleHistoryKept, OpenFromHistoryKept
 <2>7. CASE \E t \in Texts : Search(t) BY <2>7, SearchKept
 <2>8. CASE IssueEnds \/ ReportLoaded \/ Reload BY <2>8, IssueEndsKept, ReportLoadedKept, ReloadKept
 <2>9. CASE Back \/ Forward \/ ContextualBack BY <2>9, MoveKept
 <2>10. CASE \E path \in Links : NewLink(path) BY <2>10, NewLinkKept
 <2> QED BY <1>2, <2>1, <2>2, <2>3, <2>4, <2>5, <2>6, <2>7, <2>8, <2>9, <2>10 DEF NavNext
<1> QED BY <1>1, <1>2

(* The contextual Back: the number of the view has an origin, and what the *)
(* entry behind holds under its address has the number of that origin.     *)
LEMMA OriginBehind ==
  ASSUME NavInv
  PROVE  BackIsOrigin
<1> DEFINE s == Now
           entry == tab.entries[tab.at - 1]
<1> SUFFICES ASSUME nav.offered # None, spent.reloads = 0
             PROVE  tab.at > 1 /\ (Stored(entry) => entry.saved.id = nav.offered)
  BY DEF BackIsOrigin
<1>1. Counts(s) /\ s.nav = nav /\ s.tab = tab BY NowIs DEF NavInv, Good
<1> HIDE DEF s
<1>2. nav.id \in DOMAIN nav.origins /\ nav.offered = nav.origins[nav.id] BY <1>1 DEF Counts
<1>3. Behind(s, tab.at, nav.id) BY <1>1 DEF Counts
<1> QED BY <1>1, <1>2, <1>3 DEF Behind

(* The scope of a notification is kept: the card shows the report its      *)
(* address names.                                                          *)
LEMMA ScopeHeld ==
  ASSUME NavInv
  PROVE  ScopeKept
<1> DEFINE path == tab.entries[tab.at].path
<1>1. Belongs(Now) /\ CardFits(card) BY HereNow DEF Good
<1>2. Here(Now).path = path /\ Now.card = card BY DEF Here, Now
<1>3. Scoped(path) => card.report = Parse(path).report /\ card.report # None
  BY <1>1, <1>2 DEF Belongs
<1>4. card.report # None => card.members # None BY <1>1 DEF CardFits
<1> QED BY <1>3, <1>4 DEF ScopeKept, Scoped

(* The invariant of the navigation holds in every state of every panel.    *)
THEOREM PagesHeld == NavSpec => []NavInv
<1>1. NavInit => NavInv BY NavBegins
<1>2. NavInv /\ [NavNext]_views => NavInv' BY NavSteps
<1> QED BY <1>1, <1>2, PTL DEF NavSpec

(* What the page offers and shows belongs to its address: the contextual   *)
(* Back leads to the view it names, and the page of a notification shows   *)
(* its issues alone, whatever is clicked, linked, gone back to or loaded   *)
(* again.                                                                  *)
THEOREM PagesKept == NavSpec => []PlaceKept
<1>1. NavInv => PlaceKept BY OriginBehind, ScopeHeld DEF PlaceKept
<1> QED BY <1>1, PagesHeld, PTL
=============================================================================
