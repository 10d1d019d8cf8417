--------------------------- MODULE SettingsSafety ---------------------------
(***************************************************************************)
(* The safety properties of ScopedSettings, for any settings, users and    *)
(* panels: types, unsaved work kept, removals valid, saves scoped.  First  *)
(* what each operation on one editor state preserves, for the operators    *)
(* that translate scoped-configuration.mjs; then the sessions and panels.  *)
(***************************************************************************)
EXTENDS ScopedSettings, FiniteSetTheorems, TLAPS

(* A draft differs from its baseline exactly where there is an unsaved     *)
(* entry, which started from that baseline; of the installation fields,    *)
(* only the first half is true.                                            *)
Tracked(e) ==
  \A k \in Keys :
    /\ e.typed[k].set => /\ k \notin {Inline, Switch}
                         /\ e.draft[k] = e.typed[k].value
                         /\ e.draft[k] # e.base[k]
    /\ k \notin General => /\ e.draft[k] # e.base[k] => e.typed[k].set
                           /\ e.typed[k].set => e.typed[k].from = e.base[k]

(* An editor state that has read the settings has all three copies.        *)
Drafting(e) ==
  /\ e \in Editors
  /\ (e.conf = None) = (e.draft = None) /\ (e.conf = None) = (e.base = None)
  /\ IF e.conf = None THEN e.typed = Untyped ELSE Tracked(e)

(* The parts of an editor state its operations leave alone. *)
SameHolder(e, f) == f.owner = e.owner /\ f.left = e.left /\ f.task = e.task

LEMMA NoneIsNothing ==
  /\ None \notin Settings /\ None \notin Values /\ None \notin Panels
  /\ None \notin Items /\ None \notin Reviews /\ None \notin Tasks /\ None \notin Codes
BY SettingsAssumption

LEMMA KeyKinds ==
  /\ General \subseteq Keys /\ Policies \subseteq Keys /\ Items \subseteq Keys
  /\ Inline \in Keys /\ Switch \in Keys /\ Inline # Switch
  /\ Inline \notin General \cup Policies \cup Items
  /\ Switch \notin General \cup Policies \cup Items
  /\ \A k \in Policies \cup Items : k \notin General
BY SettingsAssumption DEF Keys, Items

(* A refreshed editor state: each entry follows the saved settings or is   *)
(* kept with its baseline.                                                 *)
LEMMA RebaseParts ==
  ASSUME NEW e \in Editors, e.conf # None, e.draft # None, e.base # None,
         NEW fresh \in Settings
  PROVE  LET f == Rebase(e, fresh) IN
           /\ f \in Editors /\ f.conf = fresh /\ f.draft \in Settings /\ f.base \in Settings
           /\ SameHolder(e, f)
           /\ \A k \in Keys :
                /\ IF k = Inline \/ e.draft[k] = e.base[k] \/ e.draft[k] = fresh[k]
                   THEN f.draft[k] = fresh[k] /\ f.base[k] = fresh[k]
                   ELSE f.draft[k] = e.draft[k] /\ f.base[k] = e.base[k]
                /\ f.typed[k] = IF e.draft[k] = fresh[k] THEN Unset ELSE e.typed[k]
<1> DEFINE follows(k) == k = Inline \/ e.draft[k] = e.base[k] \/ e.draft[k] = fresh[k]
           draft == [k \in Keys |-> IF follows(k) THEN fresh[k] ELSE e.draft[k]]
           base == [k \in Keys |-> IF follows(k) THEN fresh[k] ELSE e.base[k]]
           typed == [k \in Keys |-> IF e.draft[k] = fresh[k] THEN Unset ELSE e.typed[k]]
<1>1. e.draft \in Settings /\ e.base \in Settings BY DEF Editors
<1>2. draft \in Settings /\ base \in Settings BY <1>1 DEF Settings
<1>3. typed \in [Keys -> Marks] BY DEF Editors, Marks
<1>4. Rebase(e, fresh) = [e EXCEPT !.conf = fresh, !.refresh = FALSE, !.draft = draft,
                                   !.base = base, !.typed = typed]
  BY DEF Rebase
<1>5. Rebase(e, fresh) = [owner |-> e.owner, conf |-> fresh, draft |-> draft, base |-> base,
                          refresh |-> FALSE, task |-> e.task, typed |-> typed, left |-> e.left]
  BY <1>4 DEF Editors
<1> HIDE DEF draft, base, typed
<1>6. Rebase(e, fresh) \in Editors BY <1>2, <1>3, <1>5 DEF Editors
<1> QED BY <1>2, <1>5, <1>6 DEF draft, base, typed, SameHolder

LEMMA RebaseKeeps ==
  ASSUME NEW e, Drafting(e), e.conf # None, NEW fresh \in Settings
  PROVE  LET f == Rebase(e, fresh) IN Drafting(f) /\ f.conf = fresh /\ SameHolder(e, f)
<1> DEFINE f == Rebase(e, fresh)
<1>1. /\ e \in Editors /\ e.draft # None /\ e.base # None /\ Tracked(e) BY DEF Drafting
<1>2. /\ f \in Editors /\ f.conf = fresh /\ f.draft \in Settings /\ f.base \in Settings
      /\ SameHolder(e, f)
  BY <1>1, RebaseParts
<1>3. \A k \in Keys :
         /\ IF k = Inline \/ e.draft[k] = e.base[k] \/ e.draft[k] = fresh[k]
            THEN f.draft[k] = fresh[k] /\ f.base[k] = fresh[k]
            ELSE f.draft[k] = e.draft[k] /\ f.base[k] = e.base[k]
         /\ f.typed[k] = IF e.draft[k] = fresh[k] THEN Unset ELSE e.typed[k]
  BY <1>1, RebaseParts
<1> HIDE DEF f
<1>4. Tracked(f) BY <1>1, <1>3 DEF Tracked, Unset
<1> QED BY <1>2, <1>4, NoneIsNothing DEF f, Drafting

LEMMA FreshKeeps == Drafting(FreshEditors) /\ FreshEditors.task = None
BY NoneIsNothing DEF Drafting, FreshEditors, Editors, Untyped, Marks

(* A first read gives the draft and its baseline; a later one rebases. *)
LEMMA LoadedKeeps ==
  ASSUME NEW e, Drafting(e), NEW fresh \in Settings
  PROVE  LET f == Loaded(e, fresh) IN Drafting(f) /\ f.conf = fresh /\ SameHolder(e, f)
<1>1. CASE e.conf # None BY <1>1, RebaseKeeps DEF Loaded
<1>2. CASE e.conf = None
 <2> DEFINE f == [e EXCEPT !.conf = fresh, !.draft = fresh, !.base = fresh]
 <2>1. Loaded(e, fresh) = f BY <1>2 DEF Loaded
 <2>2. e \in Editors /\ e.typed = Untyped BY <1>2 DEF Drafting
 <2>3. f \in Editors /\ f.conf = fresh /\ f.draft = fresh /\ f.base = fresh
       /\ f.typed = Untyped /\ SameHolder(e, f)
   BY <2>2 DEF Editors, SameHolder
 <2>4. Tracked(f) BY <2>3 DEF Tracked, Untyped, Unset
 <2> HIDE DEF f
 <2> QED BY <2>1, <2>3, <2>4, NoneIsNothing DEF Drafting
<1> QED BY <1>1, <1>2

(* Typing changes one entry, never one of the two rows no editor edits. *)
LEMMA EditedKeeps ==
  ASSUME NEW e, Drafting(e), e.conf # None,
         NEW k \in Keys \ {Inline, Switch}, NEW value \in Entry
  PROVE  LET f == Edited(e, k, value) IN Drafting(f) /\ f.conf = e.conf /\ SameHolder(e, f)
<1> DEFINE mark == IF value = e.base[k] THEN Unset
                   ELSE [set |-> TRUE, value |-> value,
                         from |-> IF e.typed[k].set THEN e.typed[k].from ELSE e.draft[k]]
<1>1. /\ e \in Editors /\ e.draft \in Settings /\ e.base \in Settings /\ e.draft # None
      /\ e.base # None /\ e.typed \in [Keys -> Marks] /\ Tracked(e)
  BY DEF Drafting, Editors
<1>3. mark \in Marks
 <2>1. e.draft[k] \in Entry BY <1>1 DEF Settings
 <2>2. e.typed[k] \in Marks /\ (e.typed[k].set => e.typed[k] # Unset) BY <1>1 DEF Unset
 <2> QED BY <2>1, <2>2 DEF Marks, Unset
<1> DEFINE draft == [e.draft EXCEPT ![k] = value]
           typed == [e.typed EXCEPT ![k] = mark]
           f == [e EXCEPT !.draft = draft, !.typed = typed]
<1>2. Edited(e, k, value) = f BY DEF Edited
<1>4. draft \in Settings /\ typed \in [Keys -> Marks] BY <1>1, <1>3 DEF Settings
<1>5. \A j \in Keys : /\ draft[j] = IF j = k THEN value ELSE e.draft[j]
                      /\ typed[j] = IF j = k THEN mark ELSE e.typed[j]
  BY <1>1, <1>4 DEF Settings
<1> HIDE DEF mark, draft, typed
<1>7. f \in Editors /\ f.conf = e.conf /\ f.draft = draft /\ f.base = e.base
      /\ f.typed = typed /\ SameHolder(e, f)
  BY <1>1, <1>4 DEF Editors, SameHolder
<1> HIDE DEF f
<1>8. Tracked(f)
 <2> SUFFICES ASSUME NEW j \in Keys
              PROVE  /\ typed[j].set => /\ j \notin {Inline, Switch}
                                        /\ draft[j] = typed[j].value
                                        /\ draft[j] # e.base[j]
                     /\ j \notin General => /\ draft[j] # e.base[j] => typed[j].set
                                            /\ typed[j].set => typed[j].from = e.base[j]
   BY <1>7 DEF Tracked
 <2>1. CASE j # k BY <2>1, <1>1, <1>5 DEF Tracked
 <2>2. CASE j = k /\ value = e.base[k] BY <2>2, <1>5 DEF Unset, mark
 <2>3. CASE j = k /\ value # e.base[k]
  <3>1. draft[j] = value /\ typed[j] = [set |-> TRUE, value |-> value,
                       from |-> IF e.typed[k].set THEN e.typed[k].from ELSE e.draft[k]]
    BY <2>3, <1>5 DEF mark
  <3>2. k \notin General =>
          (IF e.typed[k].set THEN e.typed[k].from ELSE e.draft[k]) = e.base[k]
    BY <1>1 DEF Tracked
  <3> QED BY <3>1, <3>2, <2>3
 <2> QED BY <2>1, <2>2, <2>3
<1> QED BY <1>1, <1>2, <1>4, <1>7, <1>8, NoneIsNothing DEF Drafting

(* Discarding makes draft and baseline of the scope what is saved. *)
LEMMA DiscardedKeeps ==
  ASSUME NEW e, Drafting(e), e.conf # None, NEW scope
  PROVE  LET f == Discarded(e, scope) IN Drafting(f) /\ f.conf = e.conf /\ SameHolder(e, f)
<1> DEFINE over(old) == [k \in Keys |-> IF k \in scope THEN e.conf[k] ELSE old[k]]
           typed == [k \in Keys |-> IF k \in scope THEN Unset ELSE e.typed[k]]
           draft == over(e.draft)
           base == over(e.base)
           f == [e EXCEPT !.draft = draft, !.base = base, !.typed = typed]
<1>1. /\ e \in Editors /\ e.draft \in Settings /\ e.base \in Settings /\ e.conf \in Settings
      /\ e.typed \in [Keys -> Marks] /\ e.draft # None /\ e.base # None /\ Tracked(e)
  BY DEF Drafting, Editors
<1>2. Discarded(e, scope) = f BY DEF Discarded
<1>3. draft \in Settings /\ base \in Settings /\ typed \in [Keys -> Marks]
  BY <1>1 DEF Settings, Marks
<1>4. \A k \in Keys : IF k \in scope
                      THEN draft[k] = e.conf[k] /\ base[k] = e.conf[k] /\ typed[k] = Unset
                      ELSE draft[k] = e.draft[k] /\ base[k] = e.base[k] /\ typed[k] = e.typed[k]
  OBVIOUS
<1> HIDE DEF draft, base, typed
<1>6. f \in Editors /\ f.conf = e.conf /\ f.draft = draft /\ f.base = base
      /\ f.typed = typed /\ SameHolder(e, f)
  BY <1>1, <1>3 DEF Editors, SameHolder
<1> HIDE DEF f
<1>7. Tracked(f) BY <1>1, <1>4, <1>6 DEF Tracked, Unset
<1> QED BY <1>2, <1>3, <1>6, <1>7, NoneIsNothing DEF Drafting

-----------------------------------------------------------------------------
(* What an accepted save needs to know of the drafts at the moment it was  *)
(* submitted.                                                              *)
Prepared(e, op, c) ==
  /\ c \in Settings
  /\ op.kind = "save" =>
       \A k \in op.scope : e.typed[k].set \/ op.scope # General => c[k] = e.draft[k]
  /\ op.kind = "remove" => e.draft[op.id] = e.conf[op.id]
  /\ op.kind = "availability" =>
       \A k \in op.review.affected : /\ e.draft[k] = e.conf[k]
                                     /\ e.draft[k] = op.review.revision[k]

(* A submitted value replaces one its user has seen. *)
Seen(e, op, c) ==
  /\ op.kind = "save" =>
       \A k \in op.scope \ General : c[k] # e.conf[k] =>
         e.typed[k].set /\ e.typed[k].from = e.conf[k]
  /\ op.kind = "availability" =>
       \A k \in op.review.affected : e.conf[k] = op.review.revision[k]

LEMMA OperationKinds ==
  ASSUME NEW op \in Operations
  PROVE  /\ op.kind \in {"save", "switch", "remove", "availability"}
         /\ op.kind = "save" => op.scope \in Scopes
         /\ op.kind = "switch" => op.value \in Entry
         /\ op.kind = "remove" => op.id \in Items /\ op.replacement \in Items \cup {None}
         /\ op.kind = "availability" => op.review \in Reviews
BY DEF Operations

LEMMA ScopesAreKeys == \A scope \in Scopes : scope \subseteq Keys
BY KeyKinds DEF Scopes

LEMMA WithParts ==
  ASSUME NEW settings \in Settings, NEW changes, \A k \in DOMAIN changes : changes[k] \in Entry
  PROVE  /\ With(settings, changes) \in Settings
         /\ \A k \in Keys : With(settings, changes)[k] =
              IF k \in DOMAIN changes THEN changes[k] ELSE settings[k]
BY DEF With, Settings

(* Taking a definition out of a value leaves a value; it uses what it used *)
(* but for the definition, and the replacement if there is one.            *)
LEMMA WithoutParts ==
  ASSUME NEW value \in Entry, NEW id \in Items, NEW r \in Items \cup {None}
  PROVE  LET w == Without(value, id, r) IN
           /\ w \in Entry
           /\ value # None => w # None
           /\ id \notin UsesOf(value) => w = value
           /\ \A i \in UsesOf(w) : (i \in UsesOf(value) /\ i # id) \/ (r # None /\ i = r)
<1> DEFINE w == Without(value, id, r)
           uses == (value.uses \ {id}) \cup ({r} \ {None})
<1>1. CASE id \notin UsesOf(value) BY <1>1 DEF Without
<1>2. CASE id \in UsesOf(value)
 <2>1. value # None /\ value \in Values BY <1>2 DEF UsesOf, Entry
 <2>2. value.uses \in SUBSET Items BY <2>1 DEF Values
 <2>3. uses \in SUBSET Items BY <2>2
 <2>4. w = [value EXCEPT !.uses = uses] BY <1>2 DEF Without
 <2> HIDE DEF uses
 <2>5. w \in Values /\ w.uses = uses BY <2>1, <2>3, <2>4 DEF Values
 <2>6. w # None BY <2>5, NoneIsNothing
 <2>7. UsesOf(value) = value.uses /\ UsesOf(w) = uses BY <2>1, <2>5, <2>6 DEF UsesOf
 <2> QED BY <1>2, <2>5, <2>6, <2>7 DEF uses, Entry
<1> QED BY <1>1, <1>2

LEMMA SaveProposed ==
  ASSUME NEW e, Drafting(e), e.conf # None, NEW scope \in Scopes,
         ScopeProposal(e, scope) # None
  PROVE  LET c == ScopeProposal(e, scope) IN
           /\ c \in Settings
           /\ \A k \in Keys \ scope : c[k] = e.conf[k]
           /\ \A k \in scope : e.typed[k].set \/ scope # General => c[k] = e.draft[k]
           /\ \A k \in scope \ General : c[k] # e.conf[k] =>
                e.typed[k].set /\ e.typed[k].from = e.conf[k]
<1> DEFINE ks == Submitted(e, scope)
           changes == [k \in ks |-> e.draft[k]]
<1>1. /\ e \in Editors /\ e.conf \in Settings /\ e.draft \in Settings
      /\ e.base \in Settings /\ Tracked(e)
  BY DEF Drafting, Editors
<1>2. ks \subseteq scope /\ scope \subseteq Keys BY ScopesAreKeys, KeyKinds DEF Submitted
<1>3. /\ ScopeProposal(e, scope) = With(e.conf, changes)
      /\ \A k \in ks : e.conf[k] = e.base[k]
  BY DEF ScopeProposal
<1>4. /\ With(e.conf, changes) \in Settings
      /\ \A k \in Keys : With(e.conf, changes)[k] =
           IF k \in ks THEN e.draft[k] ELSE e.conf[k]
 <2>1. \A k \in DOMAIN changes : changes[k] \in Entry BY <1>1, <1>2 DEF Settings
 <2>2. DOMAIN changes = ks /\ \A k \in ks : changes[k] = e.draft[k] OBVIOUS
 <2> HIDE DEF changes
 <2> QED BY <1>1, <2>1, <2>2, WithParts
<1>5. \A k \in scope : e.typed[k].set \/ scope # General => k \in ks
  BY <1>1, <1>2 DEF Tracked, Submitted
<1>6. \A k \in scope \ General : k \in ks BY <1>5
<1> HIDE DEF ks, changes
<1> QED BY <1>1, <1>2, <1>3, <1>4, <1>5, <1>6 DEF Tracked

LEMMA RemovalProposed ==
  ASSUME NEW e, Drafting(e), e.conf # None, NEW id \in Items,
         NEW r \in Items \cup {None}, NEW drop,
         RemovalProposal(e, id, r, drop) # None
  PROVE  LET c == RemovalProposal(e, id, r, drop) IN
           /\ c \in Settings
           /\ \A k \in Keys : k # id /\ id \notin UsesOf(e.conf[k]) => c[k] = e.conf[k]
           /\ e.draft[id] = e.conf[id]
           /\ Valid(e.conf) => Valid(c)
<1> DEFINE c == [k \in Keys |-> IF k = id THEN None ELSE Without(e.conf[k], id, r)]
<1>1. e.conf \in Settings /\ \A k \in Keys : e.conf[k] \in Entry BY DEF Drafting, Editors, Settings
<1>2. /\ RemovalProposal(e, id, r, drop) = c
      /\ e.draft[id] = e.conf[id]
      /\ r # None => r \in Kin(id) \ {id} /\ e.conf[r] # None
  BY DEF RemovalProposal, Dirty
<1>3. c \in Settings BY <1>1, WithoutParts DEF Settings, Entry
<1>4. \A k \in Keys : k # id /\ id \notin UsesOf(e.conf[k]) => c[k] = e.conf[k]
  BY <1>1, WithoutParts
<1>5. ASSUME Valid(e.conf), NEW k \in Keys, NEW i \in UsesOf(c[k])
      PROVE  c[i] # None
 <2>1. k # id /\ i \in UsesOf(Without(e.conf[k], id, r)) BY <1>5 DEF UsesOf
 <2>2. (i \in UsesOf(e.conf[k]) /\ i # id) \/ (r # None /\ i = r) BY <1>1, <2>1, WithoutParts
 <2>3. i # id /\ e.conf[i] # None BY <1>2, <1>5, <2>2 DEF Valid
 <2>4. i \in Keys
  <3>1. UsesOf(e.conf[k]) \subseteq Items BY <1>1 DEF UsesOf, Entry, Values
  <3> QED BY <2>2, <3>1, KeyKinds
 <2> QED BY <1>1, <2>3, <2>4, WithoutParts
<1> HIDE DEF c
<1> QED BY <1>2, <1>3, <1>4, <1>5 DEF Valid

LEMMA SwitchProposed ==
  ASSUME NEW settings \in Settings, NEW value \in Entry
  PROVE  LET c == With(settings, [k \in {Switch} |-> value]) IN
           c \in Settings /\ \A k \in Keys \ {Switch} : c[k] = settings[k]
<1> DEFINE changes == [k \in {Switch} |-> value]
<1>1. DOMAIN changes = {Switch} /\ \A k \in DOMAIN changes : changes[k] \in Entry OBVIOUS
<1> HIDE DEF changes
<1>2. With(settings, changes) \in Settings
      /\ \A k \in Keys \ {Switch} : With(settings, changes)[k] = settings[k]
  BY <1>1, WithParts
<1> QED BY <1>2 DEF changes

LEMMA ReviewProposed ==
  ASSUME NEW e, Drafting(e), e.conf # None, NEW review \in Reviews,
         ReviewProposal(e, review) # None
  PROVE  LET c == ReviewProposal(e, review) IN
           /\ c \in Settings
           /\ \A k \in Keys \ review.affected : c[k] = e.conf[k]
           /\ \A k \in review.affected : /\ e.draft[k] = e.conf[k]
                                         /\ e.conf[k] = review.revision[k]
<1> DEFINE changes == [k \in review.affected |-> review.after[k]]
<1>1. e.conf \in Settings BY DEF Drafting, Editors
<1>2. review.affected \subseteq Policies /\ \A k \in review.affected : review.after[k] \in Entry
  BY DEF Reviews
<1>3. /\ ReviewProposal(e, review) = With(e.conf, changes)
      /\ review.revision = e.conf
      /\ \A k \in review.affected : e.draft[k] = e.conf[k]
  BY DEF ReviewProposal, Dirty
<1>4. DOMAIN changes = review.affected /\ \A k \in DOMAIN changes : changes[k] \in Entry BY <1>2
<1> HIDE DEF changes
<1>5. With(e.conf, changes) \in Settings
      /\ \A k \in Keys \ review.affected : With(e.conf, changes)[k] = e.conf[k]
  BY <1>1, <1>4, WithParts
<1> QED BY <1>3, <1>5

(* Whatever is submitted, it is settings; it names every entry it changes, *)
(* and a removal leaves no reference behind.                               *)
LEMMA Proposed ==
  ASSUME NEW e, Drafting(e), e.conf # None, NEW op \in Operations, Proposal(e, op) # None
  PROVE  LET c == Proposal(e, op) IN
           /\ Prepared(e, op, c)
           /\ Seen(e, op, c)
           /\ \A k \in Keys \ Named(op, e.conf) : c[k] = e.conf[k]
           /\ op.kind = "remove" /\ Valid(e.conf) => Valid(c)
<1>1. e.conf \in Settings BY DEF Drafting, Editors
<1>2. CASE op.kind = "save"
 <2>1. op.scope \in Scopes BY <1>2, OperationKinds
 <2>2. Proposal(e, op) = ScopeProposal(e, op.scope) /\ Named(op, e.conf) = op.scope
   BY <1>2 DEF Proposal, Named
 <2> QED BY <1>2, <2>1, <2>2, SaveProposed DEF Prepared, Seen
<1>3. CASE op.kind = "switch"
 <2>1. op.value \in Entry BY <1>3, OperationKinds
 <2>2. /\ Proposal(e, op) = With(e.conf, [k \in {Switch} |-> op.value])
       /\ Named(op, e.conf) = {Switch}
   BY <1>3 DEF Proposal, Named
 <2> DEFINE c == With(e.conf, [k \in {Switch} |-> op.value])
 <2>3. c \in Settings /\ \A k \in Keys \ {Switch} : c[k] = e.conf[k] BY <1>1, <2>1, SwitchProposed
 <2> HIDE DEF c
 <2>4. Proposal(e, op) = c BY <2>2 DEF c
 <2> QED BY <1>3, <2>2, <2>3, <2>4 DEF Prepared, Seen
<1>4. CASE op.kind = "remove"
 <2>1. op.id \in Items /\ op.replacement \in Items \cup {None} BY <1>4, OperationKinds
 <2>2. /\ Proposal(e, op) = RemovalProposal(e, op.id, op.replacement, op.drop)
       /\ Named(op, e.conf) = {op.id} \cup {k \in Keys : op.id \in UsesOf(e.conf[k])}
   BY <1>4 DEF Proposal, Named
 <2> QED BY <1>4, <2>1, <2>2, RemovalProposed DEF Prepared, Seen
<1>5. CASE op.kind = "availability"
 <2>1. op.review \in Reviews BY <1>5, OperationKinds
 <2>2. /\ Proposal(e, op) = ReviewProposal(e, op.review)
       /\ Named(op, e.conf) = op.review.affected
   BY <1>5 DEF Proposal, Named
 <2> QED BY <1>5, <2>1, <2>2, ReviewProposed DEF Prepared, Seen
<1> QED BY <1>2, <1>3, <1>4, <1>5, OperationKinds

(* A confirmed save moves the baseline of what was submitted; no unsaved   *)
(* entry is left where the baseline moved.                                 *)
LEMMA AcceptedKeeps ==
  ASSUME NEW e, Drafting(e), e.conf # None, NEW op \in Operations, NEW c, Prepared(e, op, c)
  PROVE  LET f == Accepted(e, op, c) IN Drafting(f) /\ f.conf = e.conf /\ SameHolder(e, f)
<1> DEFINE scope == CASE op.kind = "save" -> op.scope
                      [] op.kind = "switch" -> {Switch}
                      [] op.kind = "remove" -> {op.id}
                      [] op.kind = "availability" -> op.review.affected
           drawn == CASE op.kind = "save" -> {}
                      [] op.kind = "availability" ->
                           {k \in scope : e.draft[k] = op.review.revision[k]}
                      [] OTHER -> scope
           confirmed(k) == /\ k \in scope /\ e.typed[k].set
                           /\ e.typed[k].value \in {c[k], e.conf[k]}
           base == [k \in Keys |-> IF k \in scope THEN c[k] ELSE e.base[k]]
           draft == [k \in Keys |-> IF k \in drawn THEN c[k] ELSE e.draft[k]]
           typed == [k \in Keys |-> IF confirmed(k) THEN Unset ELSE e.typed[k]]
           f == [e EXCEPT !.base = base, !.draft = draft, !.typed = typed]
<1>1. /\ e \in Editors /\ e.draft \in Settings /\ e.base \in Settings /\ e.conf \in Settings
      /\ e.typed \in [Keys -> Marks] /\ c \in Settings /\ Tracked(e)
  BY DEF Drafting, Editors, Prepared
<1>2. Accepted(e, op, c) = f BY DEF Accepted
<1>3. drawn \subseteq scope BY OperationKinds
<1>4. base \in Settings /\ draft \in Settings /\ typed \in [Keys -> Marks]
  BY <1>1 DEF Settings, Marks
<1>5. \A k \in Keys \ scope :
        base[k] = e.base[k] /\ draft[k] = e.draft[k] /\ typed[k] = e.typed[k]
  BY <1>3
<1>6. ASSUME NEW k \in Keys, k \in scope
      PROVE  ~typed[k].set /\ (k \notin General => draft[k] = base[k])
 <2>1. base[k] = c[k] /\ draft[k] = (IF k \in drawn THEN c[k] ELSE e.draft[k]) BY <1>6
 <2>2. e.typed[k].set => e.typed[k].value = e.draft[k] /\ k \notin {Inline, Switch}
   BY <1>1 DEF Tracked
 <2>3. (e.typed[k].set => e.typed[k].value \in {c[k], e.conf[k]}) => ~typed[k].set BY <1>6 DEF Unset
 <2>4. CASE op.kind = "save"
  <3>1. scope = op.scope /\ op.scope \in Scopes BY <2>4, OperationKinds
  <3>2. k \notin General => op.scope # General BY <1>6, <3>1
  <3>3. e.typed[k].set \/ op.scope # General => c[k] = e.draft[k] BY <1>6, <2>4, <3>1 DEF Prepared
  <3> HIDE DEF scope, drawn, base, draft, typed
  <3> QED BY <2>1, <2>2, <2>3, <3>2, <3>3
 <2>5. CASE op.kind = "switch"
  <3>1. scope = {Switch} /\ drawn = {Switch} BY <2>5
  <3> HIDE DEF scope, drawn, base, draft, typed
  <3> QED BY <1>6, <2>1, <2>2, <2>3, <3>1
 <2>6. CASE op.kind = "remove"
  <3>1. scope = {op.id} /\ drawn = {op.id} BY <2>6
  <3>2. e.draft[op.id] = e.conf[op.id] BY <2>6 DEF Prepared
  <3> HIDE DEF scope, drawn, base, draft, typed
  <3> QED BY <1>6, <2>1, <2>2, <2>3, <3>1, <3>2
 <2>7. CASE op.kind = "availability"
  <3>1. /\ scope = op.review.affected
        /\ drawn = {j \in op.review.affected : e.draft[j] = op.review.revision[j]}
    BY <2>7
  <3>2. \A j \in op.review.affected : /\ e.draft[j] = e.conf[j]
                                      /\ e.draft[j] = op.review.revision[j]
    BY <2>7 DEF Prepared
  <3> HIDE DEF scope, drawn, base, draft, typed
  <3> QED BY <1>6, <2>1, <2>2, <2>3, <3>1, <3>2
 <2> HIDE DEF scope, drawn, base, draft, typed
 <2> QED BY <2>4, <2>5, <2>6, <2>7, OperationKinds
<1> HIDE DEF scope, drawn, base, draft, typed
<1>7. f \in Editors /\ f.conf = e.conf /\ f.draft = draft /\ f.base = base
      /\ f.typed = typed /\ SameHolder(e, f)
  BY <1>1, <1>4 DEF Editors, SameHolder
<1> HIDE DEF f
<1>8. Tracked(f)
 <2> SUFFICES ASSUME NEW k \in Keys
              PROVE  /\ typed[k].set => /\ k \notin {Inline, Switch}
                                        /\ draft[k] = typed[k].value
                                        /\ draft[k] # base[k]
                     /\ k \notin General => /\ draft[k] # base[k] => typed[k].set
                                            /\ typed[k].set => typed[k].from = base[k]
   BY <1>7 DEF Tracked
 <2>1. CASE k \in scope BY <2>1, <1>6
 <2>2. CASE k \notin scope BY <2>2, <1>1, <1>5 DEF Tracked
 <2> QED BY <2>1, <2>2
<1> QED BY <1>2, <1>4, <1>7, <1>8, NoneIsNothing DEF Drafting

-----------------------------------------------------------------------------
(* What is submitted stays as it was while the server answers. *)
Underway(e) ==
  e.task # None =>
    /\ e.task.phase # "load" => e.conf # None
    /\ e.task.phase = "write" => Prepared(e, e.task.op, e.task.candidate)

Sound(e) == Drafting(e) /\ Underway(e)

(* Who holds an editor state does not matter to its drafts. *)
LEMMA SoundAlike ==
  ASSUME NEW e, Sound(e), NEW f \in Editors,
         f.conf = e.conf, f.draft = e.draft, f.base = e.base, f.typed = e.typed, f.task = e.task
  PROVE  Sound(f) /\ (Unfinished(f) <=> Unfinished(e))
<1>1. Drafting(f) BY DEF Sound, Drafting, Tracked
<1>2. Underway(f) BY DEF Sound, Underway, Prepared
<1> QED BY <1>1, <1>2 DEF Sound, Unfinished

(* An answer is one the request under way can have, and no removal is      *)
(* refused as invalid.                                                     *)
Fits(answer, task) ==
  /\ task # None
  /\ answer.ok => IF task.phase = "write" THEN answer = Saved
                  ELSE answer \in [ok: {TRUE}, settings: Settings]
  /\ answer = Refusal("invalid_settings") => task.phase = "write" /\ task.op.kind # "remove"

(* At most one reply, to the request under way. *)
Answering(sent, s, task) ==
  /\ sent \in Seq(Messages)
  /\ \A i \in DOMAIN sent : sent[i].kind = "reply" =>
       sent[i].to = s /\ Fits(sent[i].answer, task)
  /\ \A i, j \in DOMAIN sent : sent[i].kind = "reply" /\ sent[j].kind = "reply" => i = j

(* What an outcome writes is what its operation named and its user saw. *)
ScopedWrite(o) ==
  o.settings # server =>
    LET t == o.editors.task IN
    /\ t # None /\ t.phase = "write"
    /\ o.editors.conf = server /\ Seen(o.editors, t.op, o.settings)
    /\ \A k \in Keys \ Named(t.op, server) : o.settings[k] = server[k]

SoundOutcome(o, e, s) ==
  /\ Sound(o.editors) /\ o.editors.owner = e.owner /\ o.editors.left = e.left
  /\ o.settings \in Settings /\ Valid(o.settings)
  /\ Answering(o.sent, s, o.editors.task)
  /\ ScopedWrite(o)

LEMMA TaskTyped ==
  ASSUME NEW p \in Panels
  PROVE  /\ Task(p, None, "load") \in Tasks
         /\ \A op \in Operations, phase \in {"refresh", "write", "reread"} :
              /\ Task(p, op, phase) \in Tasks
              /\ \A c \in Settings :
                   LET t == [Task(p, op, phase) EXCEPT !.candidate = c]
                   IN t \in Tasks /\ t.panel = p /\ t.op = op /\ t.phase = phase
                        /\ t.candidate = c
BY DEF Task, Tasks

LEMMA TaskParts ==
  ASSUME NEW t \in Tasks
  PROVE  /\ t # None /\ t.panel \in Panels
         /\ t.phase \in {"load", "refresh", "write", "reread"}
         /\ t.phase # "load" => t.op \in Operations
BY NoneIsNothing DEF Tasks

(* The messages of one request. *)
LEMMA ReplyAnswers ==
  ASSUME NEW s \in SessionIds, NEW task, NEW answer \in Answers, Fits(answer, task)
  PROVE  Answering(Reply(s, answer), s, task)
<1> DEFINE m == [kind |-> "reply", to |-> s, answer |-> answer]
<1>1. m \in Messages BY DEF Messages
<1>2. Reply(s, answer) = <<m>> BY DEF Reply
<1> HIDE DEF m
<1>3. <<m>> \in Seq(Messages) /\ DOMAIN <<m>> = {1} /\ <<m>>[1] = m BY <1>1
<1>4. m.to = s /\ m.answer = answer BY DEF m
<1> QED BY <1>2, <1>3, <1>4 DEF Answering

LEMMA AnnouncedReplyAnswers ==
  ASSUME NEW s \in SessionIds, NEW task, NEW answer \in Answers, Fits(answer, task),
         NEW settings \in Settings
  PROVE  Answering(Announce(settings) \o Reply(s, answer), s, task)
<1> DEFINE m == [kind |-> "reply", to |-> s, answer |-> answer]
           n == [kind |-> "event", on |-> settings[Switch]]
<1>1. m \in Messages /\ n \in Messages BY KeyKinds DEF Messages, Settings
<1>2. Announce(settings) \o Reply(s, answer) = <<n>> \o <<m>> BY DEF Reply, Announce
<1>3. m.to = s /\ m.answer = answer /\ n.kind = "event" OBVIOUS
<1> HIDE DEF m, n
<1>4. /\ <<n>> \o <<m>> \in Seq(Messages)
      /\ DOMAIN (<<n>> \o <<m>>) = {1, 2}
      /\ (<<n>> \o <<m>>)[1] = n /\ (<<n>> \o <<m>>)[2] = m
  BY <1>1
<1> QED BY <1>2, <1>3, <1>4 DEF Answering

LEMMA NoMessageAnswers ==
  ASSUME NEW s, NEW task
  PROVE  Answering(<<>>, s, task)
<1>1. <<>> \in Seq(Messages) /\ DOMAIN <<>> = {} OBVIOUS
<1> QED BY <1>1 DEF Answering

LEMMA AnswersTyped ==
  /\ \A settings \in Settings : Read(settings) \in Answers
                             /\ Read(settings) \in [ok: {TRUE}, settings: Settings]
  /\ Saved \in Answers /\ Saved.ok = TRUE
  /\ \A code \in Codes : Refusal(code) \in Answers /\ Refusal(code).ok = FALSE
BY DEF Answers, Read, Saved, Refusal

LEMMA RefusalsDiffer ==
  ASSUME NEW code, code # "invalid_settings"
  PROVE  Refusal(code) # Refusal("invalid_settings")
<1>1. Refusal(code).code = code /\ Refusal("invalid_settings").code = "invalid_settings"
  BY DEF Refusal
<1> QED BY <1>1

LEMMA TaskChanged ==
  ASSUME NEW e, Drafting(e), NEW task \in Tasks \cup {None}, NEW refresh \in BOOLEAN
  PROVE  /\ LET f == [e EXCEPT !.task = task] IN
              /\ Drafting(f) /\ f.task = task /\ f.owner = e.owner /\ f.left = e.left
              /\ f.conf = e.conf /\ f.draft = e.draft /\ f.typed = e.typed
         /\ LET f == [e EXCEPT !.refresh = refresh] IN
              Drafting(f) /\ SameHolder(e, f) /\ f.conf = e.conf
<1>1. e \in Editors BY DEF Drafting
<1> DEFINE f == [e EXCEPT !.task = task]
           g == [e EXCEPT !.refresh = refresh]
<1>3. /\ f \in Editors /\ f.task = task /\ f.owner = e.owner /\ f.left = e.left
      /\ f.conf = e.conf /\ f.draft = e.draft /\ f.typed = e.typed /\ f.base = e.base
  BY <1>1 DEF Editors
<1>4. /\ g \in Editors /\ g.task = e.task /\ g.owner = e.owner /\ g.left = e.left
      /\ g.conf = e.conf /\ g.draft = e.draft /\ g.typed = e.typed /\ g.base = e.base
  BY <1>1 DEF Editors
<1> HIDE DEF f, g
<1>5. Drafting(f) /\ Drafting(g) BY <1>1, <1>3, <1>4 DEF Drafting, Tracked
<1> QED BY <1>3, <1>4, <1>5 DEF f, g, SameHolder

(* The settings as the server keeps them. *)
Keeping == server \in Settings /\ Valid(server)

LEMMA FinishedSound ==
  ASSUME Keeping, NEW e, Drafting(e), NEW s
  PROVE  SoundOutcome(Finished(e), e, s)
<1>1. LET f == [e EXCEPT !.task = None] IN
        Drafting(f) /\ f.task = None /\ f.owner = e.owner /\ f.left = e.left
  BY TaskChanged
<1>2. /\ Finished(e).editors = [e EXCEPT !.task = None] /\ Finished(e).settings = server
      /\ Finished(e).sent = <<>>
  BY DEF Finished, Outcome
<1> QED BY <1>1, <1>2, NoMessageAnswers DEF SoundOutcome, Sound, Underway, ScopedWrite, Keeping

(* A read is answered with the settings, or refused. *)
LEMMA AskingSound ==
  ASSUME Keeping, NEW e, Drafting(e), NEW s \in SessionIds, NEW p \in Panels,
         NEW op, NEW phase,
         \/ phase = "load" /\ op = None
         \/ phase \in {"refresh", "reread"} /\ op \in Operations /\ e.conf # None
  PROVE  \A o \in Asking(e, s, Task(p, op, phase), server) : SoundOutcome(o, e, s)
<1> DEFINE task == Task(p, op, phase)
           f == [e EXCEPT !.task = task]
<1>1. task \in Tasks /\ task.phase = phase /\ task.phase # "write" BY TaskTyped DEF Task
<1>2. task # None BY <1>1, NoneIsNothing
<1> HIDE DEF task
<1>3. Drafting(f) /\ f.task = task /\ f.owner = e.owner /\ f.left = e.left /\ f.conf = e.conf
  BY <1>1, TaskChanged
<1>4. Sound(f) BY <1>1, <1>3 DEF Sound, Underway
<1>5. Read(server) \in Answers /\ Fits(Read(server), task)
 <2>1. Read(server).ok = TRUE /\ Refusal("invalid_settings").ok = FALSE BY DEF Read, Refusal
 <2> QED BY <1>1, <1>2, <2>1, AnswersTyped DEF Fits, Keeping
<1>6. Refusal("not_ready") \in Answers /\ Fits(Refusal("not_ready"), task)
 <2>1. Refusal("not_ready").ok = FALSE /\ Refusal("not_ready") # Refusal("invalid_settings")
   BY RefusalsDiffer DEF Refusal
 <2>2. "not_ready" \in Codes BY DEF Codes
 <2> QED BY <1>2, <2>1, <2>2, AnswersTyped DEF Fits
<1>7. /\ Answering(Reply(s, Read(server)), s, task)
      /\ Answering(Reply(s, Refusal("not_ready")), s, task)
  BY <1>5, <1>6, ReplyAnswers
<1> HIDE DEF f
<1>8. SUFFICES ASSUME NEW o \in Asking(e, s, task, server)
               PROVE  SoundOutcome(o, e, s)
  BY DEF task
<1>9. o.editors = f /\ o.settings = server
      /\ o.sent \in {Reply(s, Read(server)), Reply(s, Refusal("not_ready"))}
  BY <1>8 DEF Asking, Outcome, f
<1> QED BY <1>3, <1>4, <1>7, <1>9 DEF SoundOutcome, ScopedWrite, Keeping

(* A write saves the whole candidate over the settings it was made from,   *)
(* or nothing.                                                             *)
LEMMA WritingSound ==
  ASSUME Keeping, NEW e, Drafting(e), e.conf # None, NEW s \in SessionIds,
         NEW task \in Tasks, task.phase = "write", task.op \in Operations,
         NEW c, task.candidate = c,
         Prepared(e, task.op, c), Seen(e, task.op, c),
         \A k \in Keys \ Named(task.op, e.conf) : c[k] = e.conf[k],
         task.op.kind = "remove" /\ Valid(e.conf) => Valid(c)
  PROVE  \A o \in Writing(e, s, task, c) : SoundOutcome(o, e, s)
<1> DEFINE now == [e EXCEPT !.task = task]
<1>1. /\ Drafting(now) /\ now.task = task /\ now.owner = e.owner /\ now.left = e.left
      /\ now.conf = e.conf /\ now.draft = e.draft /\ now.typed = e.typed
  BY TaskChanged
<1> HIDE DEF now
<1>2. /\ Prepared(now, task.op, c) /\ Seen(now, task.op, c) BY <1>1 DEF Prepared, Seen
<1>3. Sound(now) /\ task # None BY <1>1, <1>2, NoneIsNothing DEF Sound, Underway
<1>4. ASSUME NEW code \in Codes,
             code = "invalid_settings" => task.op.kind # "remove",
             NEW o, o.editors = now, o.settings = server, o.sent = Reply(s, Refusal(code))
      PROVE  SoundOutcome(o, e, s)
 <2>1. Refusal(code) \in Answers /\ Refusal(code).ok = FALSE BY AnswersTyped
 <2>2. Fits(Refusal(code), task) BY <1>3, <1>4, <2>1, RefusalsDiffer DEF Fits
 <2>3. Answering(o.sent, s, task) BY <1>4, <2>1, <2>2, ReplyAnswers
 <2> QED BY <1>1, <1>3, <1>4, <2>3 DEF SoundOutcome, ScopedWrite, Keeping
<1>5. CASE server # e.conf
 <2>1. "stale_configuration" \in Codes BY DEF Codes
 <2> SUFFICES ASSUME NEW o \in Writing(e, s, task, c)
              PROVE  SoundOutcome(o, e, s)
   OBVIOUS
 <2>2. o.editors = now /\ o.settings = server /\ o.sent = Reply(s, Refusal("stale_configuration"))
   BY <1>5 DEF Writing, Outcome, now
 <2> QED BY <1>4, <2>1, <2>2
<1>6. CASE server = e.conf /\ ~Valid(c)
 <2>1. "invalid_settings" \in Codes /\ task.op.kind # "remove" BY <1>6 DEF Codes, Keeping
 <2> SUFFICES ASSUME NEW o \in Writing(e, s, task, c)
              PROVE  SoundOutcome(o, e, s)
   OBVIOUS
 <2>2. o.editors = now /\ o.settings = server /\ o.sent = Reply(s, Refusal("invalid_settings"))
   BY <1>6 DEF Writing, Outcome, now
 <2> QED BY <1>4, <2>1, <2>2
<1>7. CASE server = e.conf /\ Valid(c)
 <2> SUFFICES ASSUME NEW o \in Writing(e, s, task, c)
              PROVE  SoundOutcome(o, e, s)
   OBVIOUS
 <2>1. o \in {Outcome(now, c, Announce(c) \o Reply(s, Saved), FALSE),
              Outcome(now, server, Reply(s, Refusal("apply_failed")), TRUE)}
   BY <1>7 DEF Writing, now
 <2>2. CASE o = Outcome(now, server, Reply(s, Refusal("apply_failed")), TRUE)
  <3>1. o.editors = now /\ o.settings = server /\ o.sent = Reply(s, Refusal("apply_failed"))
    BY <2>2 DEF Outcome
  <3>2. "apply_failed" \in Codes BY DEF Codes
  <3> QED BY <1>4, <3>1, <3>2
 <2>3. CASE o = Outcome(now, c, Announce(c) \o Reply(s, Saved), FALSE)
  <3>1. o.editors = now /\ o.settings = c /\ o.sent = Announce(c) \o Reply(s, Saved)
    BY <2>3 DEF Outcome
  <3>2. Fits(Saved, task) /\ Saved \in Answers BY <1>3, AnswersTyped DEF Fits, Refusal
  <3>3. c \in Settings BY DEF Prepared
  <3>4. Answering(o.sent, s, task) BY <3>1, <3>2, <3>3, AnnouncedReplyAnswers
  <3>5. ScopedWrite(o) BY <1>1, <1>2, <1>3, <1>7, <3>1 DEF ScopedWrite
  <3> QED BY <1>1, <1>3, <1>7, <3>1, <3>3, <3>4, <3>5 DEF SoundOutcome
 <2> QED BY <2>1, <2>2, <2>3
<1> QED BY <1>5, <1>6, <1>7

LEMMA SubmitSound ==
  ASSUME Keeping, NEW e, Drafting(e), e.conf # None, NEW s \in SessionIds,
         NEW p \in Panels, NEW op \in Operations
  PROVE  \A o \in Submit(e, s, p, op) : SoundOutcome(o, e, s)
<1> DEFINE c == Proposal(e, op)
           f == [e EXCEPT !.refresh = TRUE]
<1>1. CASE c = None
 <2>1. Submit(e, s, p, op) = {Finished(f)} BY <1>1 DEF Submit
 <2>2. Drafting(f) /\ f.owner = e.owner /\ f.left = e.left BY TaskChanged DEF SameHolder
 <2> HIDE DEF f
 <2>3. SoundOutcome(Finished(f), f, s) BY <2>2, FinishedSound
 <2> QED BY <2>1, <2>2, <2>3 DEF SoundOutcome
<1>2. CASE c # None /\ c = e.conf
 <2>1. Submit(e, s, p, op) = {Finished(e)} BY <1>2 DEF Submit
 <2> QED BY <2>1, FinishedSound
<1>3. CASE c # None /\ c # e.conf
 <2> DEFINE task == [Task(p, op, "write") EXCEPT !.candidate = c]
 <2>1. Submit(e, s, p, op) = Writing(e, s, task, c) BY <1>3 DEF Submit
 <2>2. /\ Prepared(e, op, c) /\ Seen(e, op, c)
       /\ \A k \in Keys \ Named(op, e.conf) : c[k] = e.conf[k]
       /\ op.kind = "remove" /\ Valid(e.conf) => Valid(c)
   BY <1>3, Proposed
 <2> HIDE DEF c
 <2>3. task \in Tasks /\ task.phase = "write" /\ task.op = op /\ task.candidate = c
   BY <2>2, TaskTyped DEF Prepared
 <2> HIDE DEF task
 <2> QED BY <2>1, <2>2, <2>3, WritingSound
<1> QED BY <1>1, <1>2, <1>3

LEMMA BeginSound ==
  ASSUME Keeping, NEW e, Drafting(e), e.conf # None, NEW s \in SessionIds,
         NEW p \in Panels, NEW op \in Operations
  PROVE  \A o \in Begin(e, s, p, op) : SoundOutcome(o, e, s)
<1>1. CASE e.refresh BY <1>1, AskingSound DEF Begin
<1>2. CASE ~e.refresh BY <1>2, SubmitSound DEF Begin
<1> QED BY <1>1, <1>2

(* The continuation of a request with an answer that fits it. *)
LEMMA ContinuedSound ==
  ASSUME Keeping, NEW e, Sound(e), NEW s \in SessionIds, NEW answer,
         Fits(answer, e.task)
  PROVE  \A o \in Continued(e, s, answer) : SoundOutcome(o, e, s)
<1> DEFINE t == e.task
<1>1. Drafting(e) /\ t \in Tasks BY DEF Sound, Drafting, Editors, Fits
<1>2. /\ t.panel \in Panels /\ t.phase \in {"load", "refresh", "write", "reread"}
      /\ t.phase # "load" => t.op \in Operations /\ e.conf # None
      /\ t.phase = "write" => Prepared(e, t.op, t.candidate)
  BY <1>1, TaskParts DEF Sound, Underway
<1>3. answer.ok => IF t.phase = "write" THEN answer = Saved ELSE answer.settings \in Settings
  BY DEF Fits
<1>4. CASE t.phase = "load"
 <2> DEFINE f == IF answer.ok THEN Loaded(e, answer.settings) ELSE e
 <2>1. Continued(e, s, answer) = {Finished(f)} BY <1>4 DEF Continued
 <2>2. Drafting(f) /\ f.owner = e.owner /\ f.left = e.left
   BY <1>1, <1>3, <1>4, LoadedKeeps DEF SameHolder
 <2> HIDE DEF f
 <2>3. SoundOutcome(Finished(f), f, s) BY <2>2, FinishedSound
 <2> QED BY <2>1, <2>2, <2>3 DEF SoundOutcome
<1>5. CASE t.phase = "refresh" /\ answer.ok
 <2> DEFINE f == Rebase(e, answer.settings)
 <2>1. Continued(e, s, answer) = Submit(f, s, t.panel, t.op) BY <1>5 DEF Continued
 <2>2. Drafting(f) /\ f.conf = answer.settings /\ f.owner = e.owner /\ f.left = e.left
   BY <1>1, <1>2, <1>3, <1>5, RebaseKeeps DEF SameHolder
 <2>3. f.conf # None BY <1>3, <1>5, <2>2, NoneIsNothing
 <2> HIDE DEF f
 <2>4. \A o \in Submit(f, s, t.panel, t.op) : SoundOutcome(o, f, s)
   BY <1>2, <1>5, <2>2, <2>3, SubmitSound
 <2> QED BY <2>1, <2>2, <2>4 DEF SoundOutcome
<1>6. CASE t.phase = "write" /\ answer.ok
 <2> DEFINE f == Accepted(e, t.op, t.candidate)
 <2>1. Continued(e, s, answer) = Asking(f, s, Task(t.panel, t.op, "reread"), server)
   BY <1>6 DEF Continued
 <2>2. Drafting(f) /\ f.conf = e.conf /\ f.owner = e.owner /\ f.left = e.left
   BY <1>1, <1>2, <1>6, AcceptedKeeps DEF SameHolder
 <2> HIDE DEF f
 <2>3. \A o \in Asking(f, s, Task(t.panel, t.op, "reread"), server) : SoundOutcome(o, f, s)
   BY <1>2, <1>6, <2>2, AskingSound
 <2> QED BY <2>1, <2>2, <2>3 DEF SoundOutcome
<1>7. CASE t.phase = "reread" /\ answer.ok
 <2> DEFINE f == Rebase(e, answer.settings)
 <2>1. Continued(e, s, answer) = {Finished(f)} BY <1>7 DEF Continued
 <2>2. Drafting(f) /\ f.owner = e.owner /\ f.left = e.left
   BY <1>1, <1>2, <1>3, <1>7, RebaseKeeps DEF SameHolder
 <2> HIDE DEF f
 <2>3. SoundOutcome(Finished(f), f, s) BY <2>2, FinishedSound
 <2> QED BY <2>1, <2>2, <2>3 DEF SoundOutcome
<1>8. CASE t.phase # "load" /\ ~answer.ok
 <2> DEFINE suspect == t.phase = "reread" \/ answer.code \in {None, "stale_configuration"}
            f == [e EXCEPT !.refresh = suspect]
 <2>1. Continued(e, s, answer) = {Finished(f)} BY <1>2, <1>8 DEF Continued
 <2>2. Drafting(f) /\ f.owner = e.owner /\ f.left = e.left
  <3>1. suspect \in BOOLEAN OBVIOUS
  <3> HIDE DEF suspect
  <3> QED BY <1>1, <3>1, TaskChanged DEF SameHolder
 <2> HIDE DEF f
 <2>3. SoundOutcome(Finished(f), f, s) BY <2>2, FinishedSound
 <2> QED BY <2>1, <2>2, <2>3 DEF SoundOutcome
<1> QED BY <1>2, <1>4, <1>5, <1>6, <1>7, <1>8

-----------------------------------------------------------------------------
(* Sessions, panels and the mail between them. *)

(* Every reply under way answers the request its session waits for. *)
MailFits(d, all) ==
  /\ \A i \in DOMAIN d : d[i].kind = "reply" => Fits(d[i].answer, all[d[i].to].task)
  /\ \A i, j \in DOMAIN d :
       d[i].kind = "reply" /\ d[j].kind = "reply" /\ d[i].to = d[j].to => i = j

(* The session kept for the connection is the one of the latest panel; the *)
(* panel of an administrator in the page holds it.                         *)
PagesFit ==
  /\ \A p \in Panels : p \in page.used <=> panels[p].session # NoSession
  /\ page.latest # None => page.latest \in page.used
  /\ Attached => page.attached = page.latest /\ panels[page.attached].admin = page.admin
  /\ mapped # NoSession => /\ page.admin /\ page.latest # None
                           /\ panels[page.latest].session = mapped
  /\ Attached /\ page.admin => /\ mapped = panels[page.attached].session
                               /\ sessions[mapped].owner = page.attached

(* The numbers taken: moves make new sessions, so one is always free. *)
Taken ==
  {s \in SessionIds : \/ s = mapped \/ \E p \in Panels : panels[p].session = s
                      \/ sessions[s].task # None \/ sessions[s].left}

Room == Cardinality(Taken) <= spent.moves + (IF page.used = {} THEN 0 ELSE 1)

(* The inductive invariant. *)
IInv ==
  /\ TypeOK /\ Valid(server)
  /\ \A s \in SessionIds : Sound(sessions[s])
  /\ MailFits(down, sessions)
  /\ PagesFit
  /\ Room
  /\ DraftsReachable

-----------------------------------------------------------------------------
(* Numbers and messages *)

LEMMA Sessions ==
  /\ NoSession \notin SessionIds /\ IsFiniteSet(SessionIds)
  /\ Cardinality(SessionIds) = MaxMoves + 1
<1>1. MaxMoves \in Nat BY SettingsAssumption
<1>2. IsFiniteSet(1..(MaxMoves + 1)) /\ Cardinality(1..(MaxMoves + 1)) = MaxMoves + 1
  BY <1>1, FS_Interval
<1> QED BY <1>1, <1>2 DEF SessionIds, NoSession

LEMMA TakenFinite == Taken \subseteq SessionIds /\ IsFiniteSet(Taken) /\ Cardinality(Taken) \in Nat
<1>1. Taken \subseteq SessionIds BY DEF Taken
<1> QED BY <1>1, Sessions, FS_Subset, FS_CardinalityType

(* While a move is left, or the panel has not been opened, NewSession is a *)
(* session nothing refers to.                                              *)
LEMMA NewSessionFree ==
  ASSUME IInv, page.used = {} \/ spent.moves < MaxMoves
  PROVE  NewSession \in SessionIds /\ NewSession \notin Taken
<1> DEFINE Free(s) ==
       /\ s # mapped /\ \A p \in Panels : panels[p].session # s
       /\ \A i \in DOMAIN down : down[i].kind = "reply" => down[i].to # s
       /\ s \in DOMAIN sessions /\ sessions[s].task = None /\ ~sessions[s].left
<1>1. \E s \in SessionIds : s \notin Taken
 <2> SUFFICES ASSUME SessionIds \subseteq Taken
              PROVE  FALSE
   OBVIOUS
 <2>1. Taken = SessionIds BY TakenFinite
 <2>2. spent.moves \in 0..MaxMoves /\ MaxMoves \in Nat
   BY SettingsAssumption DEF IInv, TypeOK, Counts
 <2>3. Cardinality(Taken) = MaxMoves + 1 BY <2>1, Sessions
 <2> QED BY <2>2, <2>3 DEF IInv, Room
<1>2. \A s \in SessionIds : s \notin Taken => Free(s) BY DEF Taken, IInv, MailFits, Fits, TypeOK
<1>3. \A s \in SessionIds : Free(s) => s \notin Taken BY DEF Taken
<1>4. NewSession = CHOOSE s \in SessionIds : Free(s) BY DEF NewSession
<1> HIDE DEF Free
<1>5. NewSession \in SessionIds /\ Free(NewSession) BY <1>1, <1>2, <1>4
<1> QED BY <1>3, <1>5

(* One more session taken. *)
LEMMA TakenGrows ==
  ASSUME IInv, NEW s \in SessionIds, Taken' \subseteq Taken \cup {s}
  PROVE  Cardinality(Taken') <= Cardinality(Taken) + 1 /\ Cardinality(Taken') \in Nat
<1>1. IsFiniteSet(Taken) /\ Cardinality(Taken) \in Nat BY TakenFinite
<1>2. IsFiniteSet(Taken \cup {s}) /\ Cardinality(Taken \cup {s}) <= Cardinality(Taken) + 1
      /\ Cardinality(Taken \cup {s}) \in Nat
  BY <1>1, FS_AddElement, FS_CardinalityType
<1>3. Cardinality(Taken') <= Cardinality(Taken \cup {s}) /\ Cardinality(Taken') \in Nat
  BY <1>2, FS_Subset, FS_CardinalityType
<1> QED BY <1>1, <1>2, <1>3

LEMMA TakenKept ==
  ASSUME IInv, Taken' \subseteq Taken
  PROVE  Cardinality(Taken') <= Cardinality(Taken) /\ Cardinality(Taken') \in Nat
         /\ Cardinality(Taken) \in Nat
BY TakenFinite, FS_Subset, FS_CardinalityType

LEMMA SpendCounts ==
  ASSUME spent \in Counts, NEW kind \in {"edits", "saves", "others", "faults", "moves"},
         NEW limit, kind = "moves" => limit = MaxMoves, Spend(kind, limit)
  PROVE  /\ spent' \in Counts
         /\ spent'.moves = IF kind = "moves" THEN spent.moves + 1 ELSE spent.moves
         /\ spent'.others = IF kind = "others" THEN spent.others + 1 ELSE spent.others
<1>1. spent' = [spent EXCEPT ![kind] = @ + 1] /\ spent[kind] < limit BY DEF Spend
<1>2. MaxMoves \in Nat BY SettingsAssumption
<1>3. CASE kind = "edits" BY <1>1, <1>3 DEF Counts
<1>4. CASE kind = "saves" BY <1>1, <1>4 DEF Counts
<1>5. CASE kind = "others" BY <1>1, <1>5 DEF Counts
<1>6. CASE kind = "faults" BY <1>1, <1>6 DEF Counts
<1>7. CASE kind = "moves" BY <1>1, <1>2, <1>7 DEF Counts
<1> QED BY <1>3, <1>4, <1>5, <1>6, <1>7

(* Messages appended: at most one reply, to a session without one. *)
LEMMA MailAppended ==
  ASSUME NEW d \in Seq(Messages), NEW all, NEW after, MailFits(d, all),
         NEW s, NEW sent, Answering(sent, s, after[s].task),
         \A i \in DOMAIN d, j \in DOMAIN sent :
           d[i].kind = "reply" /\ sent[j].kind = "reply" => d[i].to # s,
         \A i \in DOMAIN d : d[i].kind = "reply" => after[d[i].to].task = all[d[i].to].task
  PROVE  d \o sent \in Seq(Messages) /\ MailFits(d \o sent, after)
<1> DEFINE ds == d \o sent
<1>1. sent \in Seq(Messages) BY DEF Answering
<1>2. /\ ds \in Seq(Messages) /\ DOMAIN d = 1..Len(d) /\ DOMAIN sent = 1..Len(sent)
      /\ DOMAIN ds = 1..(Len(d) + Len(sent)) /\ Len(d) \in Nat /\ Len(sent) \in Nat
  BY <1>1
<1>3. \A i \in 1..(Len(d) + Len(sent)) :
        ds[i] = IF i <= Len(d) THEN d[i] ELSE sent[i - Len(d)]
  BY <1>1
<1> HIDE DEF ds
<1>4. \A i \in DOMAIN ds : \/ i \in DOMAIN d /\ ds[i] = d[i]
                           \/ i - Len(d) \in DOMAIN sent /\ ds[i] = sent[i - Len(d)]
  BY <1>2, <1>3
<1>5. ASSUME NEW i \in DOMAIN ds, ds[i].kind = "reply"
      PROVE  Fits(ds[i].answer, after[ds[i].to].task)
  BY <1>4, <1>5 DEF MailFits, Answering
<1>6. ASSUME NEW i \in DOMAIN ds, NEW j \in DOMAIN ds,
             ds[i].kind = "reply", ds[j].kind = "reply", ds[i].to = ds[j].to
      PROVE  i = j
 <2>1. CASE i \in DOMAIN d /\ ds[i] = d[i] /\ j \in DOMAIN d /\ ds[j] = d[j]
   BY <1>6, <2>1 DEF MailFits
 <2>2. CASE /\ i - Len(d) \in DOMAIN sent /\ ds[i] = sent[i - Len(d)]
            /\ j - Len(d) \in DOMAIN sent /\ ds[j] = sent[j - Len(d)]
  <3>1. i - Len(d) = j - Len(d) BY <1>6, <2>2 DEF Answering
  <3> QED BY <3>1, <1>2
 <2>3. CASE /\ i \in DOMAIN d /\ ds[i] = d[i]
            /\ j - Len(d) \in DOMAIN sent /\ ds[j] = sent[j - Len(d)]
   BY <1>6, <2>3 DEF Answering
 <2>4. CASE /\ j \in DOMAIN d /\ ds[j] = d[j]
            /\ i - Len(d) \in DOMAIN sent /\ ds[i] = sent[i - Len(d)]
   BY <1>6, <2>4 DEF Answering
 <2> QED BY <1>4, <2>1, <2>2, <2>3, <2>4
<1> QED BY <1>2, <1>5, <1>6 DEF MailFits, ds

LEMMA MailTail ==
  ASSUME NEW d \in Seq(Messages), d # <<>>, NEW all, MailFits(d, all)
  PROVE  /\ Tail(d) \in Seq(Messages) /\ MailFits(Tail(d), all)
         /\ Head(d) \in Messages
         /\ Head(d).kind = "reply" =>
              /\ Fits(Head(d).answer, all[Head(d).to].task)
              /\ \A i \in DOMAIN Tail(d) : Tail(d)[i].kind = "reply" => Tail(d)[i].to # Head(d).to
<1>1. /\ Tail(d) \in Seq(Messages) /\ Len(Tail(d)) = Len(d) - 1 /\ Len(d) \in Nat \ {0}
      /\ DOMAIN d = 1..Len(d) /\ DOMAIN Tail(d) = 1..(Len(d) - 1)
      /\ \A i \in 1..(Len(d) - 1) : Tail(d)[i] = d[i + 1]
      /\ Head(d) = d[1] /\ 1 \in DOMAIN d /\ d[1] \in Messages
  OBVIOUS
<1>2. \A i \in DOMAIN Tail(d) : i + 1 \in DOMAIN d /\ Tail(d)[i] = d[i + 1] /\ i + 1 # 1 BY <1>1
<1>3. ASSUME NEW i \in DOMAIN Tail(d), NEW j \in DOMAIN Tail(d), i + 1 = j + 1
      PROVE  i = j
  BY <1>1, <1>3
<1>4. MailFits(Tail(d), all) BY <1>2, <1>3 DEF MailFits
<1>5. Head(d).kind = "reply" =>
        /\ Fits(Head(d).answer, all[Head(d).to].task)
        /\ \A i \in DOMAIN Tail(d) : Tail(d)[i].kind = "reply" => Tail(d)[i].to # Head(d).to
  BY <1>1, <1>2 DEF MailFits
<1> QED BY <1>1, <1>4, <1>5

(* An announcement is no reply. *)
LEMMA Announced ==
  ASSUME NEW settings \in Settings, NEW d \in Seq(Messages), NEW all, NEW after,
         MailFits(d, all),
         \A i \in DOMAIN d : d[i].kind = "reply" => after[d[i].to].task = all[d[i].to].task
  PROVE  d \o Announce(settings) \in Seq(Messages) /\ MailFits(d \o Announce(settings), after)
<1> DEFINE m == [kind |-> "event", on |-> settings[Switch]]
<1>1. m \in Messages /\ m.kind = "event" /\ Announce(settings) = <<m>>
  BY KeyKinds DEF Messages, Announce, Settings
<1> HIDE DEF m
<1>2. <<m>> \in Seq(Messages) /\ DOMAIN <<m>> = {1} /\ <<m>>[1] = m BY <1>1
<1>3. Answering(Announce(settings), None, after[None].task) BY <1>1, <1>2 DEF Answering
<1>4. \A j \in DOMAIN Announce(settings) : Announce(settings)[j].kind # "reply" BY <1>1, <1>2
<1> QED BY <1>3, <1>4, MailAppended

-----------------------------------------------------------------------------
(* Steps that leave every editor state, or all but one, alone *)

PanelStates == [Panels -> [session: {NoSession} \cup SessionIds, reload: BOOLEAN,
                           admin: BOOLEAN, review: Reviews \cup {None}]]
PageStates == [attached: Panels \cup {None}, used: SUBSET Panels,
               latest: Panels \cup {None}, admin: BOOLEAN]
Feeds == [up: BOOLEAN, on: Entry]

SamePanels ==
  \A p \in Panels : panels'[p].session = panels[p].session /\ panels'[p].admin = panels[p].admin

(* Someone else's save, a message that changes nothing, a review. *)
LEMMA QuietStep ==
  ASSUME IInv, UNCHANGED <<sessions, mapped, page>>,
         server' \in Settings, Valid(server'),
         panels' \in PanelStates, SamePanels, feed' \in Feeds,
         down' \in Seq(Messages), MailFits(down', sessions),
         spent' \in Counts, spent'.moves = spent.moves
  PROVE  IInv'
<1>1. TypeOK' BY DEF IInv, TypeOK, PanelStates, Feeds
<1>2. PagesFit'
 <2>1. Attached => page.attached \in Panels BY DEF IInv, TypeOK, Attached
 <2>2. page.latest # None => page.latest \in Panels BY DEF IInv, TypeOK
 <2> QED BY <2>1, <2>2 DEF IInv, PagesFit, SamePanels, Attached
<1>3. Taken' \subseteq Taken BY DEF Taken, SamePanels
<1>4. Room' BY <1>3, TakenKept DEF IInv, Room, TypeOK, Counts
<1>5. DraftsReachable' BY DEF IInv, DraftsReachable, Unfinished
<1> QED BY <1>1, <1>2, <1>4, <1>5 DEF IInv

(* One taken session [s] gets the editor state [f]: an edit, a request, or *)
(* the continuation of one. *)
LEMMA SessionStep ==
  ASSUME IInv, NEW s \in Taken, NEW f, Sound(f),
         f.owner = sessions[s].owner, f.left = sessions[s].left,
         sessions' = [sessions EXCEPT ![s] = f],
         Unfinished(f) /\ ~f.left => mapped = s,
         mapped' = IF f.owner = None /\ ~Unfinished(f) /\ mapped = s THEN NoSession ELSE mapped,
         server' \in Settings, Valid(server'),
         NEW d \in Seq(Messages), MailFits(d, sessions),
         NEW sent, Answering(sent, s, f.task), down' = d \o sent,
         \/ \A i \in DOMAIN d : d[i].kind = "reply" => d[i].to # s
         \/ sent = <<>> /\ f.task = sessions[s].task,
         panels' \in PanelStates, SamePanels, feed' \in Feeds, page' = page,
         spent' \in Counts, spent'.moves = spent.moves
  PROVE  IInv'
<1>1. s \in SessionIds /\ f \in Editors /\ sessions \in [SessionIds -> Editors]
  BY DEF Taken, Sound, Drafting, IInv, TypeOK
<1>2. /\ sessions' \in [SessionIds -> Editors]
      /\ \A r \in SessionIds : sessions'[r] = IF r = s THEN f ELSE sessions[r]
  BY <1>1
<1>3. \A r \in SessionIds : Sound(sessions'[r]) BY <1>2 DEF IInv
<1>4. mapped' \in {mapped, NoSession} OBVIOUS
<1>5. TypeOK'
  BY <1>2, <1>3, <1>4, MailAppended DEF IInv, TypeOK, PanelStates, Feeds, Sound, Drafting, Answering
<1>6. down' \in Seq(Messages) /\ MailFits(down', sessions')
 <2>1. Answering(sent, s, sessions'[s].task) BY <1>1, <1>2
 <2>2. \A i \in DOMAIN d : d[i].kind = "reply" => sessions'[d[i].to].task = sessions[d[i].to].task
  <3>1. \A i \in DOMAIN d : d[i].kind = "reply" => d[i].to \in SessionIds BY DEF Messages
  <3> QED BY <1>2, <3>1
 <2>3. \A i \in DOMAIN d, j \in DOMAIN sent :
          d[i].kind = "reply" /\ sent[j].kind = "reply" => d[i].to # s
  <3>1. sent = <<>> => DOMAIN sent = {} OBVIOUS
  <3> QED BY <3>1
 <2>4. ASSUME NEW all, NEW after, all = sessions, after = sessions'
       PROVE  d \o sent \in Seq(Messages) /\ MailFits(d \o sent, after)
  <3>1. /\ Answering(sent, s, after[s].task) /\ MailFits(d, all)
        /\ \A i \in DOMAIN d : d[i].kind = "reply" => after[d[i].to].task = all[d[i].to].task
    BY <2>1, <2>2, <2>4
  <3> HIDE <2>4
  <3> QED BY <2>3, <3>1, MailAppended
 <2> QED BY <2>4
<1>7. PagesFit'
 <2>1. Attached => page.attached \in Panels /\ page.attached # None BY DEF IInv, TypeOK, Attached
 <2>2. page.latest # None => page.latest \in Panels BY DEF IInv, TypeOK
 <2>3. mapped' # NoSession => mapped' = mapped OBVIOUS
 <2>4. Attached /\ page.admin =>
         mapped' = panels'[page.attached].session /\ sessions'[mapped'].owner = page.attached
  <3> SUFFICES ASSUME Attached, page.admin
               PROVE  mapped' = panels'[page.attached].session
                      /\ sessions'[mapped'].owner = page.attached
    OBVIOUS
  <3>1. /\ mapped = panels[page.attached].session /\ mapped \in SessionIds
        /\ sessions[mapped].owner = page.attached /\ page.attached # None
   <4>1. page.attached \in page.used /\ panels[page.attached].session # NoSession
     BY <2>1 DEF IInv, PagesFit, Attached
   <4> QED BY <2>1, <4>1 DEF IInv, PagesFit, TypeOK
  <3>2. mapped = s => f.owner = page.attached BY <3>1
  <3>3. mapped' = mapped BY <3>1, <3>2
  <3> QED BY <1>2, <2>1, <3>1, <3>2, <3>3 DEF SamePanels
 <2> QED BY <2>1, <2>2, <2>3, <2>4 DEF IInv, PagesFit, SamePanels, Attached
<1>8. Taken' \subseteq Taken BY <1>2, <1>4, Sessions DEF Taken, SamePanels
<1>9. Room' BY <1>8, TakenKept DEF IInv, Room, TypeOK, Counts
<1>10. DraftsReachable'
 <2> SUFFICES ASSUME NEW r \in SessionIds, Unfinished(sessions'[r]), ~sessions'[r].left
              PROVE  mapped' = r
   BY DEF DraftsReachable, Unfinished
 <2>1. CASE r = s BY <1>2, <2>1
 <2>2. CASE r # s BY <1>2, <2>2 DEF IInv, DraftsReachable
 <2> QED BY <2>1, <2>2
<1> QED BY <1>3, <1>5, <1>6, <1>7, <1>9, <1>10 DEF IInv

-----------------------------------------------------------------------------
(* Panels that come, go and change their permission *)

(* The session a panel is connected to, and what the other sessions are    *)
(* then: unfinished work is with the panel, or has been left for good.     *)
LEMMA ConnectedParts ==
  ASSUME IInv, page.used = {} \/ spent.moves < MaxMoves,
         NEW p \in Panels, p = page.latest \/ p \notin page.used,
         NEW admin \in BOOLEAN, admin = page.admin \/ panels[p].session # NoSession
  PROVE  LET c == Connected(p, admin) IN
           /\ c.session \in SessionIds /\ c.restored \in BOOLEAN
           /\ c.mapped = IF admin THEN c.session ELSE NoSession
           /\ c.sessions \in [SessionIds -> Editors]
           /\ c.sessions[c.session].owner = p
           /\ \A s \in SessionIds :
                /\ Sound(c.sessions[s]) /\ c.sessions[s].task = sessions[s].task
                /\ s \notin Taken /\ s # c.session => ~c.sessions[s].left
                /\ Unfinished(c.sessions[s]) /\ ~c.sessions[s].left => c.mapped = s
<1> DEFINE own == panels[p].session
           again == own # NoSession /\ admin
           found == own = NoSession /\ mapped # NoSession /\ admin
           s0 == IF again THEN own ELSE IF found THEN mapped ELSE NewSession
           start == IF again \/ found THEN sessions[s0] ELSE FreshEditors
           restored == found \/ (again /\ start.owner # p)
           refresh == start.refresh \/ (restored /\ start.conf # None)
           parted == IF own # NoSession /\ ~again
                     THEN [sessions EXCEPT ![own].owner = None, ![own].left = TRUE]
                     ELSE sessions
           given == [start EXCEPT !.owner = p, !.refresh = refresh]
           c == [session |-> s0, restored |-> restored,
                 sessions |-> [parted EXCEPT ![s0] = given],
                 mapped |-> IF admin THEN s0 ELSE NoSession]
<1>1. Connected(p, admin) = c BY DEF Connected
<1>2. /\ sessions \in [SessionIds -> Editors] /\ own \in {NoSession} \cup SessionIds
      /\ mapped \in {NoSession} \cup SessionIds
      /\ \A s \in SessionIds : Sound(sessions[s])
  BY DEF IInv, TypeOK
<1>3. NewSession \in SessionIds /\ NewSession \notin Taken BY NewSessionFree
<1>4. s0 \in SessionIds /\ (again \/ found => s0 \in Taken) /\ (~again /\ ~found => s0 = NewSession)
  BY <1>2, <1>3 DEF Taken
<1>5. FreshEditors.task = None /\ Drafting(FreshEditors) /\ ~FreshEditors.left
      /\ ~Unfinished(FreshEditors)
  BY FreshKeeps DEF FreshEditors, Unfinished
<1>6. /\ Sound(start) /\ start.task = sessions[s0].task
      /\ again \/ found => start = sessions[s0]
      /\ ~again /\ ~found => start = FreshEditors
  BY <1>2, <1>3, <1>4, <1>5 DEF Sound, Underway, Taken
<1>7. \A s \in SessionIds : /\ parted[s] \in Editors /\ Sound(parted[s])
                            /\ parted[s].task = sessions[s].task
                            /\ Unfinished(parted[s]) <=> Unfinished(sessions[s])
                            /\ own # NoSession /\ ~again /\ s = own => parted[s].left
                            /\ s # own => parted[s] = sessions[s]
                            /\ own = NoSession \/ again => parted[s] = sessions[s]
 <2>1. CASE own # NoSession /\ ~again
  <3>1. parted = [sessions EXCEPT ![own] = [@ EXCEPT !.owner = None, !.left = TRUE]] BY <2>1
  <3> DEFINE e == [sessions[own] EXCEPT !.owner = None, !.left = TRUE]
  <3>2. sessions[own] \in Editors /\ Sound(sessions[own]) BY <1>2, <2>1
  <3>3. /\ e \in Editors /\ e.task = sessions[own].task /\ e.draft = sessions[own].draft
        /\ e.conf = sessions[own].conf /\ e.base = sessions[own].base
        /\ e.typed = sessions[own].typed /\ e.left
    BY <3>2 DEF Editors
  <3>4. \A s \in SessionIds : parted[s] = IF s = own THEN e ELSE sessions[s] BY <1>2, <2>1, <3>1
  <3> HIDE DEF e, parted
  <3>5. Sound(e) /\ (Unfinished(e) <=> Unfinished(sessions[own])) BY <3>2, <3>3, SoundAlike
  <3> QED BY <1>2, <2>1, <3>3, <3>4, <3>5
 <2>2. CASE ~(own # NoSession /\ ~again) BY <1>2, <2>2
 <2> QED BY <2>1, <2>2
<1>8. parted \in [SessionIds -> Editors] BY <1>2, <1>7
<1>9. refresh \in BOOLEAN BY <1>6 DEF Sound, Drafting, Editors
<1> HIDE DEF refresh
<1>10. /\ given \in Editors /\ Sound(given) /\ given.owner = p /\ given.task = start.task
       /\ given.left = start.left /\ (Unfinished(given) <=> Unfinished(start))
 <2>1. start \in Editors BY <1>6 DEF Sound, Drafting
 <2> HIDE DEF start
 <2>2. /\ given \in Editors /\ given.owner = p /\ given.task = start.task
       /\ given.left = start.left /\ given.conf = start.conf /\ given.draft = start.draft
       /\ given.base = start.base /\ given.typed = start.typed
   BY <1>9, <2>1 DEF Editors
 <2> HIDE DEF given
 <2> QED BY <1>6, <2>2, SoundAlike
<1>11. \A s \in SessionIds : c.sessions[s] = IF s = s0 THEN given ELSE parted[s] BY <1>4, <1>8
<1>12. c.sessions \in [SessionIds -> Editors] BY <1>4, <1>8, <1>10
<1>13. c.session = s0 /\ c.restored = restored /\ c.mapped = IF admin THEN s0 ELSE NoSession OBVIOUS
<1>14. restored \in BOOLEAN OBVIOUS
<1> HIDE DEF c, given, parted, s0, start, restored
<1>15. ASSUME NEW s \in SessionIds, Unfinished(c.sessions[s]), ~c.sessions[s].left
       PROVE  c.mapped = s
 <2>1. again \/ found \/ s # s0 BY <1>5, <1>6, <1>10, <1>11, <1>15
 <2>2. Unfinished(sessions[s]) /\ ~sessions[s].left
       /\ ~(own # NoSession /\ ~again /\ s = own /\ s # s0)
  <3>1. CASE s = s0 BY <1>6, <1>10, <1>11, <1>15, <2>1, <3>1
  <3>2. CASE s # s0
   <4>1. Unfinished(parted[s]) /\ ~parted[s].left BY <1>11, <1>15, <3>2
   <4> QED BY <1>7, <4>1
  <3> QED BY <3>1, <3>2
 <2>3. mapped = s /\ mapped # NoSession BY <2>2, Sessions DEF IInv, DraftsReachable
 <2>4. page.admin /\ page.latest # None /\ panels[page.latest].session = mapped
   BY <2>3 DEF IInv, PagesFit
 <2>5. own # NoSession => own = mapped BY <2>4 DEF IInv, PagesFit
 <2>6. CASE admin BY <1>13, <2>3, <2>5, <2>6 DEF s0
 <2>7. CASE ~admin BY <1>4, <1>3, <2>1, <2>2, <2>3, <2>4, <2>5, <2>7 DEF Taken
 <2> QED BY <2>6, <2>7
<1>16. ASSUME NEW s \in SessionIds, s \notin Taken, s # s0
       PROVE  ~c.sessions[s].left
 <2>1. ~sessions[s].left /\ s # own BY <1>16 DEF Taken
 <2> QED BY <1>7, <1>11, <1>16, <2>1
<1> QED BY <1>1, <1>4, <1>6, <1>7, <1>10, <1>11, <1>12, <1>13, <1>14, <1>15, <1>16

(* A panel that takes its session, in the page and as its permission says. *)
LEMMA PanelConnects ==
  ASSUME IInv, page.used = {} \/ spent.moves < MaxMoves,
         NEW p \in Panels, p = page.latest \/ p \notin page.used,
         NEW admin \in BOOLEAN, admin = page.admin \/ panels[p].session # NoSession,
         sessions' = Connected(p, admin).sessions, mapped' = Connected(p, admin).mapped,
         panels' \in PanelStates, \A q \in Panels \ {p} : panels'[q] = panels[q],
         panels'[p].session = Connected(p, admin).session, panels'[p].admin = admin,
         page' \in PageStates, page'.attached = p, page'.latest = p, page'.admin = admin,
         page'.used = page.used \cup {p},
         down' = down \/ down' = down \o Announce(server),
         UNCHANGED <<server, feed>>,
         spent' \in Counts,
         spent'.moves = IF page.used = {} THEN spent.moves ELSE spent.moves + 1
  PROVE  IInv'
<1> DEFINE c == Connected(p, admin)
<1>1. /\ c.session \in SessionIds /\ c.mapped = IF admin THEN c.session ELSE NoSession
      /\ c.sessions \in [SessionIds -> Editors] /\ c.sessions[c.session].owner = p
      /\ \A s \in SessionIds :
           /\ Sound(c.sessions[s]) /\ c.sessions[s].task = sessions[s].task
           /\ s \notin Taken /\ s # c.session => ~c.sessions[s].left
           /\ Unfinished(c.sessions[s]) /\ ~c.sessions[s].left => c.mapped = s
  BY ConnectedParts
<1> HIDE DEF c
<1>2. /\ \A s \in SessionIds : Sound(sessions'[s])
      /\ sessions' \in [SessionIds -> Editors] /\ mapped' \in {NoSession} \cup SessionIds
  BY <1>1 DEF c
<1>3. /\ panels \in PanelStates
      /\ panels'[p].session = c.session
  BY DEF IInv, TypeOK, PanelStates, c
<1>4. down' \in Seq(Messages) /\ MailFits(down', sessions')
 <2>1. /\ down \in Seq(Messages) /\ MailFits(down, sessions) /\ server \in Settings
       /\ \A i \in DOMAIN down : down[i] \in Messages
   BY DEF IInv, TypeOK
 <2>2. \A i \in DOMAIN down : down[i].kind = "reply" =>
         sessions'[down[i].to].task = sessions[down[i].to].task
   BY <1>1, <2>1 DEF Messages, c
 <2>3. CASE down' = down BY <2>1, <2>2, <2>3 DEF MailFits
 <2>4. CASE down' = down \o Announce(server)
  <3>1. ASSUME NEW all, NEW after, all = sessions, after = sessions'
        PROVE  down \o Announce(server) \in Seq(Messages)
               /\ MailFits(down \o Announce(server), after)
   <4>1. MailFits(down, all)
         /\ \A i \in DOMAIN down : down[i].kind = "reply" =>
              after[down[i].to].task = all[down[i].to].task
     BY <2>1, <2>2, <3>1
   <4> HIDE <3>1
   <4> QED BY <2>1, <4>1, Announced
  <3> QED BY <2>4, <3>1
 <2> QED BY <2>3, <2>4
<1>5. TypeOK' BY <1>2, <1>4 DEF IInv, TypeOK, PanelStates, PageStates, Sound, Drafting
<1>6. PagesFit'
 <2>1. p # None BY NoneIsNothing
 <2>2. \A q \in Panels : q \in page'.used <=> panels'[q].session # NoSession
   BY <1>1, <1>3, Sessions DEF IInv, PagesFit, c
 <2> QED BY <1>1, <1>3, <2>1, <2>2 DEF PagesFit, Attached, c
<1>7. Room'
 <2>1. Taken' \subseteq Taken \cup {c.session} BY <1>1, <1>3, Sessions DEF Taken, c
 <2>2. Cardinality(Taken') <= Cardinality(Taken) + 1 /\ Cardinality(Taken') \in Nat
       /\ Cardinality(Taken) \in Nat
   BY <1>1, <2>1, TakenGrows, TakenFinite
 <2>3. page'.used # {} /\ spent.moves \in Nat /\ spent'.moves \in Nat
   BY SettingsAssumption DEF IInv, TypeOK, Counts
 <2> QED BY <2>2, <2>3 DEF IInv, Room
<1>8. DraftsReachable' BY <1>1 DEF DraftsReachable, Unfinished, c
<1> QED BY <1>2, <1>4, <1>5, <1>6, <1>7, <1>8 DEF IInv

LEMMA InitKeeps == Init => IInv
<1> SUFFICES ASSUME Init PROVE IInv OBVIOUS
<1>1. FreshEditors.task = None /\ Drafting(FreshEditors) /\ ~FreshEditors.left
      /\ ~Unfinished(FreshEditors)
  BY FreshKeeps DEF FreshEditors, Unfinished
<1>2. \A s \in SessionIds : sessions[s] = FreshEditors BY DEF Init
<1>3. \A s \in SessionIds : Sound(sessions[s]) BY <1>1, <1>2 DEF Sound, Underway
<1>4. server \in Settings /\ Valid(server) BY SettingsAssumption DEF Init
<1>5. MailFits(down, sessions) /\ down \in Seq(Messages)
 <2>1. down = <<>> /\ DOMAIN down = {} BY DEF Init
 <2> QED BY <2>1 DEF MailFits
<1>6. TypeOK
 <2>1. sessions \in [SessionIds -> Editors] BY <1>1, <1>2 DEF Init, Drafting
 <2>2. panels \in [Panels -> [session: {NoSession} \cup SessionIds, reload: BOOLEAN,
                              admin: BOOLEAN, review: Reviews \cup {None}]]
   BY DEF Init, FreshPanel
 <2>3. spent \in Counts /\ feed \in [up: BOOLEAN, on: Entry]
       /\ page \in [attached: Panels \cup {None}, used: SUBSET Panels,
                    latest: Panels \cup {None}, admin: BOOLEAN]
       /\ mapped \in {NoSession} \cup SessionIds
   BY SettingsAssumption, KeyKinds DEF Init, Counts, Settings
 <2> QED BY <1>3, <1>4, <1>5, <2>1, <2>2, <2>3 DEF TypeOK, Sound, Drafting
<1>7. PagesFit BY DEF Init, PagesFit, FreshPanel, Attached
<1>8. Room
 <2>1. Taken = {} BY <1>1, <1>2, Sessions DEF Init, Taken, FreshPanel
 <2>2. spent.moves = 0 BY DEF Init
 <2> QED BY <2>1, <2>2, FS_EmptySet DEF Room
<1>9. DraftsReachable BY <1>1, <1>2 DEF DraftsReachable
<1> QED BY <1>3, <1>4, <1>5, <1>6, <1>7, <1>8, <1>9 DEF IInv

LEMMA AttachKeeps ==
  ASSUME IInv, NEW p \in Panels, Attach(p)
  PROVE  IInv'
<1> DEFINE c == Connected(p, page.admin)
<1>1. /\ panels \in PanelStates /\ page \in PageStates /\ spent \in Counts
      /\ page.admin \in BOOLEAN
  BY DEF IInv, TypeOK, PageStates, PanelStates
<1>2. /\ page.used = {} \/ spent.moves < MaxMoves
      /\ spent' \in Counts
      /\ spent'.moves = IF page.used = {} THEN spent.moves ELSE spent.moves + 1
  BY <1>1, SpendCounts DEF Attach, Spend
<1>3. p = page.latest \/ p \notin page.used BY DEF Attach
<1>4. c.session \in SessionIds /\ c.restored \in BOOLEAN BY <1>1, <1>2, <1>3, ConnectedParts
<1>5. /\ sessions' = c.sessions /\ mapped' = c.mapped /\ UNCHANGED <<server, feed>>
      /\ panels' = [panels EXCEPT ![p] =
           [@ EXCEPT !.session = c.session, !.admin = page.admin, !.reload = @ \/ c.restored]]
      /\ down' = down \/ down' = down \o Announce(server)
  BY DEF Attach
<1> HIDE DEF c
<1>6. /\ panels' \in PanelStates /\ \A q \in Panels \ {p} : panels'[q] = panels[q]
      /\ panels'[p].session = c.session /\ panels'[p].admin = page.admin
  BY <1>1, <1>4, <1>5 DEF PanelStates
<1>7. /\ page' \in PageStates /\ page'.attached = p /\ page'.latest = p
      /\ page'.admin = page.admin /\ page'.used = page.used \cup {p}
  BY <1>1 DEF Attach, PageStates
<1> QED BY <1>1, <1>2, <1>3, <1>5, <1>6, <1>7, PanelConnects DEF c

LEMMA PermissionKeeps ==
  ASSUME IInv, Permission
  PROVE  IInv'
<1> DEFINE p == page.attached
           c == Connected(p, ~page.admin)
<1>1. /\ panels \in PanelStates /\ page \in PageStates /\ spent \in Counts
      /\ (~page.admin) \in BOOLEAN
  BY DEF IInv, TypeOK, PageStates, PanelStates
<1>2. /\ p \in Panels /\ p = page.latest /\ p \in page.used
      /\ panels[p].session # NoSession
  BY NoneIsNothing DEF Permission, Attached, IInv, PagesFit, TypeOK
<1>3. /\ spent.moves < MaxMoves /\ spent' \in Counts /\ spent'.moves = spent.moves + 1
      /\ page.used # {}
  BY <1>1, <1>2, SpendCounts DEF Permission, Spend
<1>4. c.session \in SessionIds /\ c.restored \in BOOLEAN BY <1>1, <1>2, <1>3, ConnectedParts
<1>5. /\ sessions' = c.sessions /\ mapped' = c.mapped /\ UNCHANGED <<server, feed>>
      /\ panels' = [panels EXCEPT ![p] = [session |-> c.session, admin |-> ~page.admin,
                                          reload |-> c.restored, review |-> None]]
      /\ down' = down \/ down' = down \o Announce(server)
  BY DEF Permission
<1> HIDE DEF c
<1>6. /\ panels' \in PanelStates /\ \A q \in Panels \ {p} : panels'[q] = panels[q]
      /\ panels'[p].session = c.session /\ panels'[p].admin = ~page.admin
  BY <1>1, <1>2, <1>4, <1>5 DEF PanelStates
<1>7. /\ page' \in PageStates /\ page'.attached = p /\ page'.latest = p
      /\ page'.admin = ~page.admin /\ page'.used = page.used \cup {p}
  BY <1>1, <1>2 DEF Permission, PageStates
<1> HIDE DEF p
<1> QED BY <1>1, <1>2, <1>3, <1>5, <1>6, <1>7, PanelConnects DEF c

LEMMA DetachKeeps ==
  ASSUME IInv, Detach
  PROVE  IInv'
<1> DEFINE s == panels[page.attached].session
           f == [sessions[s] EXCEPT !.owner = None]
<1>1. /\ page.attached \in Panels /\ page.attached = page.latest /\ s \in SessionIds
      /\ page.attached \in page.used
  BY NoneIsNothing DEF Detach, Attached, IInv, PagesFit, TypeOK
<1>2. /\ page \in PageStates /\ spent \in Counts /\ panels \in PanelStates
      /\ sessions \in [SessionIds -> Editors] /\ Sound(sessions[s])
  BY <1>1 DEF IInv, TypeOK, PageStates, PanelStates
<1>3. /\ spent' \in Counts /\ spent'.moves = spent.moves + 1 BY <1>2, SpendCounts DEF Detach
<1>4. /\ f \in Editors /\ Sound(f) /\ (Unfinished(f) <=> Unfinished(sessions[s]))
      /\ f.task = sessions[s].task /\ f.left = sessions[s].left
 <2>1. sessions[s] \in Editors BY <1>1, <1>2
 <2>2. /\ f \in Editors /\ f.conf = sessions[s].conf /\ f.draft = sessions[s].draft
       /\ f.base = sessions[s].base /\ f.typed = sessions[s].typed
       /\ f.task = sessions[s].task /\ f.left = sessions[s].left
   BY <2>1 DEF Editors
 <2> HIDE DEF f
 <2> QED BY <1>2, <2>2, SoundAlike
<1>5. /\ sessions' = [sessions EXCEPT ![s] = f]
      /\ mapped' = Forget(sessions', s)
      /\ panels' = [panels EXCEPT ![page.attached].review = None]
      /\ page' = [page EXCEPT !.attached = None]
      /\ UNCHANGED <<server, feed, down>>
  BY DEF Detach
<1> HIDE DEF f
<1>6. /\ sessions' \in [SessionIds -> Editors]
      /\ \A r \in SessionIds :
           /\ sessions'[r] = IF r = s THEN f ELSE sessions[r]
           /\ Sound(sessions'[r]) /\ (Unfinished(sessions'[r]) <=> Unfinished(sessions[r]))
           /\ sessions'[r].task = sessions[r].task /\ sessions'[r].left = sessions[r].left
  BY <1>1, <1>2, <1>4, <1>5 DEF IInv
<1>7. /\ mapped' \in {mapped, NoSession}
      /\ mapped' # mapped => mapped = s /\ ~Unfinished(sessions'[s])
  BY <1>5 DEF Forget
<1>8. /\ panels' \in PanelStates
      /\ \A p \in Panels : panels'[p].session = panels[p].session
  BY <1>1, <1>2, <1>5 DEF PanelStates
<1>9. /\ page' \in PageStates /\ page'.attached = None /\ page'.latest = page.latest
      /\ page'.used = page.used /\ page'.admin = page.admin
  BY <1>2, <1>5 DEF PageStates
<1>10. TypeOK'
  BY <1>3, <1>5, <1>6, <1>7, <1>8, <1>9
     DEF IInv, TypeOK, PageStates, PanelStates, Sound, Drafting
<1>11. MailFits(down', sessions')
 <2>1. \A i \in DOMAIN down : down[i].kind = "reply" => down[i].to \in SessionIds
   BY DEF IInv, TypeOK, Messages
 <2> QED BY <1>5, <1>6, <2>1 DEF IInv, MailFits
<1>12. PagesFit' BY <1>1, <1>7, <1>8, <1>9 DEF IInv, TypeOK, PagesFit, Attached
<1>13. Room'
 <2>1. Taken' \subseteq Taken BY <1>6, <1>7, <1>8, Sessions DEF Taken
 <2>2. spent.moves \in Nat BY <1>2, SettingsAssumption DEF Counts
 <2> QED BY <1>3, <1>9, <2>1, <2>2, TakenKept DEF IInv, Room
<1>14. DraftsReachable' BY <1>6, <1>7 DEF IInv, DraftsReachable, Unfinished
<1> QED BY <1>5, <1>6, <1>10, <1>11, <1>12, <1>13, <1>14 DEF IInv

-----------------------------------------------------------------------------
(* The user *)

(* The panel of an administrator in the page has the session kept for the  *)
(* connection.                                                             *)
LEMMA HereParts ==
  ASSUME IInv, Attached, page.admin
  PROVE  LET s == panels[Here].session IN
           /\ Here \in Panels /\ Here # None
           /\ s \in SessionIds /\ s \in Taken /\ mapped = s
           /\ sessions[s] \in Editors /\ Sound(sessions[s]) /\ sessions[s].owner = Here
<1>1. page.attached \in Panels /\ page.attached # None BY NoneIsNothing DEF IInv, TypeOK, Attached
<1>2. page.attached \in page.used /\ panels[page.attached].session \in SessionIds
  BY <1>1 DEF IInv, TypeOK, PagesFit, Attached
<1>3. panels[page.attached].session \in Taken BY <1>1, <1>2 DEF Taken
<1> QED BY <1>1, <1>2, <1>3 DEF IInv, TypeOK, PagesFit, Here

(* A step of the user on the editor state of the panel in the page. *)
LEMMA UserStep ==
  ASSUME IInv, Attached, page.admin, NEW f, Sound(f),
         f.owner = Editing.owner, f.left = Editing.left,
         sessions' = [sessions EXCEPT ![panels[Here].session] = f],
         server' \in Settings, Valid(server'),
         NEW sent, Answering(sent, panels[Here].session, f.task), down' = down \o sent,
         Editing.task = None \/ (sent = <<>> /\ f.task = Editing.task),
         UNCHANGED <<mapped, panels, page, feed>>,
         spent' \in Counts, spent'.moves = spent.moves
  PROVE  IInv'
<1> DEFINE s == panels[Here].session
<1>1. /\ s \in Taken /\ mapped = s /\ sessions[s].owner # None BY HereParts
<1>2. /\ down \in Seq(Messages) /\ MailFits(down, sessions)
      /\ panels' \in PanelStates /\ feed' \in Feeds /\ SamePanels
  BY DEF IInv, TypeOK, PanelStates, Feeds, SamePanels
<1>3. Editing.task = None => \A i \in DOMAIN down : down[i].kind = "reply" => down[i].to # s
  BY <1>2 DEF MailFits, Fits, Editing
<1>4. Editing = sessions[s] BY DEF Editing
<1> HIDE DEF s
<1>5. mapped' = IF f.owner = None /\ ~Unfinished(f) /\ mapped = s THEN NoSession ELSE mapped
  BY <1>1, <1>4
<1> QED BY <1>1, <1>2, <1>3, <1>4, <1>5, SessionStep DEF s

LEMMA NothingSent == ASSUME down \in Seq(Messages) PROVE down = down \o <<>>
OBVIOUS

LEMMA TypeKeeps ==
  ASSUME IInv, Ready, NEW k \in Keys \ {Inline, Switch}, NEW value \in Entry,
         Editing.task = None \/ Editing.task.phase = "load",
         Type(k, value)
  PROVE  IInv'
<1> DEFINE f == Edited(Editing, k, value)
<1>1. Sound(Editing) /\ Editing.conf # None /\ Attached /\ page.admin
  BY HereParts DEF Ready, Editing
<1>2. Drafting(f) /\ f.conf = Editing.conf /\ SameHolder(Editing, f) BY <1>1, EditedKeeps DEF Sound
<1>3. /\ sessions' = [sessions EXCEPT ![panels[Here].session] = f]
      /\ UNCHANGED <<server, mapped, panels, page, feed, down>>
      /\ Spend("edits", MaxEdits)
  BY DEF Type, Keep
<1> HIDE DEF f
<1>4. Sound(f) /\ f.owner = Editing.owner /\ f.left = Editing.left /\ f.task = Editing.task
  BY <1>1, <1>2 DEF Sound, Underway, SameHolder
<1>5. spent' \in Counts /\ spent'.moves = spent.moves BY <1>3, SpendCounts DEF IInv, TypeOK
<1>6. server' \in Settings /\ Valid(server') /\ down' = down \o <<>>
  BY <1>3, NothingSent DEF IInv, TypeOK
<1>7. Answering(<<>>, panels[Here].session, f.task) BY NoMessageAnswers
<1> QED BY <1>1, <1>3, <1>4, <1>5, <1>6, <1>7, UserStep

LEMMA DiscardKeeps ==
  ASSUME IInv, NEW scope, Discard(scope)
  PROVE  IInv'
<1> DEFINE f == Discarded(Editing, scope)
<1>1. Sound(Editing) /\ Editing.conf # None /\ Attached /\ page.admin /\ Editing.task = None
  BY HereParts DEF Discard, Ready, Editing
<1>2. Drafting(f) /\ f.conf = Editing.conf /\ SameHolder(Editing, f)
  BY <1>1, DiscardedKeeps DEF Sound
<1>3. /\ sessions' = [sessions EXCEPT ![panels[Here].session] = f]
      /\ UNCHANGED <<server, mapped, panels, page, feed, down>>
      /\ Spend("edits", MaxEdits)
  BY DEF Discard, Keep
<1> HIDE DEF f
<1>4. Sound(f) /\ f.owner = Editing.owner /\ f.left = Editing.left /\ f.task = Editing.task
  BY <1>1, <1>2 DEF Sound, Underway, SameHolder
<1>5. spent' \in Counts /\ spent'.moves = spent.moves BY <1>3, SpendCounts DEF IInv, TypeOK
<1>6. server' \in Settings /\ Valid(server') /\ down' = down \o <<>>
  BY <1>3, NothingSent DEF IInv, TypeOK
<1>7. Answering(<<>>, panels[Here].session, f.task) BY NoMessageAnswers
<1> QED BY <1>1, <1>3, <1>4, <1>5, <1>6, <1>7, UserStep

(* A review lists the settings it was made with. *)
LEMMA ReviewKeeps ==
  ASSUME IInv, NEW source \in Sources, NEW stop \in BOOLEAN, Review(source, stop)
  PROVE  IInv'
<1> DEFINE conf == Editing.conf
           affected == {k \in Policies : conf[k] # None /\ (source \in conf[k].excluded) = ~stop}
           after(k) == IF k \notin affected THEN conf[k]
                       ELSE [conf[k] EXCEPT !.excluded = IF stop THEN @ \cup {source}
                                                         ELSE @ \ {source}]
           review == [revision |-> conf, affected |-> affected,
                      after |-> [k \in Policies |-> after(k)]]
<1>1. /\ Here \in Panels /\ conf \in Settings BY HereParts DEF Review, Ready, Editing, Editors
<1>2. ASSUME NEW k \in Policies
      PROVE  after(k) \in Entry
 <2>1. conf[k] \in Entry BY <1>1, KeyKinds DEF Settings
 <2>2. CASE k \in affected
  <3>1. conf[k] \in Values BY <2>1, <2>2 DEF Entry
  <3> QED BY <2>2, <3>1 DEF Values, Entry
 <2> QED BY <2>1, <2>2
<1>3. review \in Reviews BY <1>1, <1>2 DEF Reviews
<1>4. /\ panels' = [panels EXCEPT ![Here].review = review]
      /\ UNCHANGED <<server, sessions, mapped, page, feed, down>>
      /\ Spend("edits", MaxEdits)
  BY DEF Review
<1> HIDE DEF review
<1>5. panels' \in PanelStates /\ SamePanels
  BY <1>1, <1>3, <1>4 DEF IInv, TypeOK, PanelStates, SamePanels
<1>6. spent' \in Counts /\ spent'.moves = spent.moves BY <1>4, SpendCounts DEF IInv, TypeOK
<1> QED BY <1>4, <1>5, <1>6, QuietStep DEF IInv, TypeOK, Feeds

LEMMA UserEditsKeeps ==
  ASSUME IInv, UserEdits
  PROVE  IInv'
<1>1. ASSUME NEW k \in Keys \ {Switch, Inline}, NEW value \in Typed[k], Edit(k, value)
      PROVE  IInv'
  BY <1>1, TypeKeeps, SettingsAssumption DEF Edit
<1>2. ASSUME NEW k \in General, NEW value \in Typed[k], EditTiming(k, value)
      PROVE  IInv'
 <2>1. k \in Keys \ {Inline, Switch} /\ value \in Entry BY KeyKinds, SettingsAssumption
 <2> QED BY <1>2, <2>1, TypeKeeps DEF EditTiming
<1>3. ASSUME NEW scope \in Scopes, Discard(scope)
      PROVE  IInv'
  BY <1>3, DiscardKeeps
<1>4. ASSUME NEW source \in Sources, NEW stop \in BOOLEAN, Review(source, stop)
      PROVE  IInv'
  BY <1>4, ReviewKeeps
<1> QED BY <1>1, <1>2, <1>3, <1>4 DEF UserEdits

(* One session takes an outcome of its request. *)
Takes(o, s, d) ==
  /\ s \in SessionIds /\ SoundOutcome(o, sessions[s], s)
  /\ sessions' = [sessions EXCEPT ![s] = o.editors]
  /\ server' = o.settings /\ down' = d \o o.sent

LEMMA ClickTakes ==
  ASSUME IInv, Ready, NEW e, Drafting(e), e.conf # None, e.owner = Editing.owner,
         e.left = Editing.left, e.task = Editing.task, NEW op \in Operations, Click(e, op)
  PROVE  /\ \E o : Takes(o, panels[Here].session, down)
         /\ IInv'
<1> DEFINE s == panels[Here].session
<1>1. /\ Here \in Panels /\ s \in SessionIds /\ Editing.task = None /\ Attached /\ page.admin
  BY HereParts DEF Ready, Click
<1>2. Keeping BY DEF Keeping, IInv, TypeOK
<1>3. PICK o \in Begin(e, s, Here, op) :
        /\ \/ /\ spent' = [spent EXCEPT !.saves = @ + 1, !.faults = @ + 1]
           \/ Spend("saves", MaxSaves)
        /\ Keep(o.editors) /\ server' = o.settings /\ down' = down \o o.sent
  BY DEF Click
<1>4. SoundOutcome(o, e, s) BY <1>1, <1>2, <1>3, BeginSound
<1>5. SoundOutcome(o, Editing, s) /\ Editing = sessions[s] BY <1>4 DEF SoundOutcome, Editing
<1>6. sessions' = [sessions EXCEPT ![s] = o.editors] /\ UNCHANGED <<mapped, panels, page, feed>>
  BY <1>3 DEF Keep, Click
<1>7. Takes(o, s, down) BY <1>1, <1>3, <1>5, <1>6 DEF Takes
<1>8. spent' \in Counts /\ spent'.moves = spent.moves
 <2>1. spent \in Counts BY DEF IInv, TypeOK
 <2>2. CASE Spend("saves", MaxSaves) BY <2>1, <2>2, SpendCounts
 <2>3. CASE spent' = [spent EXCEPT !.saves = @ + 1, !.faults = @ + 1]
  <3>1. spent.saves + 1 \in Nat /\ spent.faults + 1 \in Nat BY <2>1 DEF Counts
  <3>2. /\ spent' \in [edits: Nat, saves: Nat, others: Nat, faults: Nat, moves: 0..MaxMoves]
        /\ spent'.moves = spent.moves
   <4> DEFINE a == spent.saves + 1
              b == spent.faults + 1
   <4>1. spent' = [spent EXCEPT !.saves = a, !.faults = b] BY <2>3
   <4> HIDE DEF a, b
   <4>2. a \in Nat /\ b \in Nat BY <3>1 DEF a, b
   <4> QED BY <2>1, <4>1, <4>2 DEF Counts
  <3> QED BY <3>2 DEF Counts
 <2> QED BY <1>3, <2>2, <2>3
<1>9. IInv' BY <1>1, <1>3, <1>5, <1>6, <1>8, UserStep DEF SoundOutcome
<1> QED BY <1>7, <1>9

(* Every save of the user is a click on one of the operations. *)
LEMMA UserSavesTakes ==
  ASSUME IInv, UserSaves
  PROVE  /\ \E o : Takes(o, panels[Here].session, down)
         /\ IInv'
<1>1. Ready /\ Drafting(Editing) /\ Editing.conf # None
  BY HereParts DEF UserSaves, Ready, Editing, Sound
<1>2. ASSUME NEW scope \in Scopes, Save(scope)
      PROVE  (\E o : Takes(o, panels[Here].session, down)) /\ IInv'
 <2> DEFINE op == [kind |-> "save", scope |-> scope]
 <2>1. op \in Operations BY DEF Operations
 <2> QED BY <1>1, <1>2, <2>1, ClickTakes DEF Save
<1>3. ASSUME NEW k \in Policies, DeletePolicy(k)
      PROVE  (\E o : Takes(o, panels[Here].session, down)) /\ IInv'
 <2> DEFINE op == [kind |-> "save", scope |-> {k}]
            e == Edited(Editing, k, None)
 <2>1. op \in Operations BY DEF Operations, Scopes
 <2>2. k \in Keys \ {Inline, Switch} /\ None \in Entry BY KeyKinds DEF Entry
 <2>3. Drafting(e) /\ e.conf = Editing.conf /\ SameHolder(Editing, e) BY <1>1, <2>2, EditedKeeps
 <2>4. Click(e, op) BY <1>3 DEF DeletePolicy
 <2> HIDE DEF e, op
 <2> QED BY <1>1, <2>1, <2>3, <2>4, ClickTakes DEF SameHolder
<1>4. ASSUME NEW value \in Typed[Switch], Toggle(value)
      PROVE  (\E o : Takes(o, panels[Here].session, down)) /\ IInv'
 <2> DEFINE op == [kind |-> "switch", value |-> value]
 <2>1. op \in Operations BY KeyKinds, SettingsAssumption DEF Operations
 <2> QED BY <1>1, <1>4, <2>1, ClickTakes DEF Toggle
<1>5. ASSUME NEW id \in Items, NEW r \in Items \cup {None}, NEW drop \in BOOLEAN,
             Delete(id, r, drop)
      PROVE  (\E o : Takes(o, panels[Here].session, down)) /\ IInv'
 <2> DEFINE op == [kind |-> "remove", id |-> id, replacement |-> r, drop |-> drop]
 <2>1. op \in Operations BY DEF Operations
 <2> QED BY <1>1, <1>5, <2>1, ClickTakes DEF Delete
<1>6. ASSUME Confirm
      PROVE  (\E o : Takes(o, panels[Here].session, down)) /\ IInv'
 <2> DEFINE op == [kind |-> "availability", review |-> panels[Here].review]
 <2>1. panels[Here].review \in Reviews BY <1>1, <1>6, HereParts DEF Confirm, Ready, IInv, TypeOK
 <2>2. op \in Operations BY <2>1 DEF Operations
 <2> QED BY <1>1, <1>6, <2>2, ClickTakes DEF Confirm
<1> QED BY <1>2, <1>3, <1>4, <1>5, <1>6 DEF UserSaves

-----------------------------------------------------------------------------
(* Everyone and everything else *)

LEMMA OtherKeeps ==
  ASSUME IInv, NEW change \in Elsewhere, Other(change)
  PROVE  IInv' /\ spent'.others = spent.others + 1
<1> DEFINE settings == [server EXCEPT ![change.key] = change.value]
<1>1. change.key \in Keys /\ change.value \in Entry /\ server \in Settings /\ spent \in Counts
  BY SettingsAssumption DEF IInv, TypeOK
<1>2. settings \in Settings BY <1>1 DEF Settings
<1>3. /\ Valid(settings) /\ server' = settings /\ Spend("others", MaxOthers)
      /\ down' = down \/ down' = down \o Announce(settings)
      /\ UNCHANGED <<sessions, mapped, panels, page, feed>>
  BY DEF Other
<1> HIDE DEF settings
<1>4. /\ spent' \in Counts /\ spent'.moves = spent.moves
      /\ spent'.others = spent.others + 1
  BY <1>1, <1>3, SpendCounts
<1>5. down' \in Seq(Messages) /\ MailFits(down', sessions) BY <1>2, <1>3, Announced DEF IInv, TypeOK
<1>6. panels' \in PanelStates /\ SamePanels /\ feed' \in Feeds
  BY <1>3 DEF IInv, TypeOK, PanelStates, SamePanels, Feeds
<1> QED BY <1>2, <1>3, <1>4, <1>5, <1>6, QuietStep

LEMMA ReconnectKeeps ==
  ASSUME IInv, Reconnect
  PROVE  IInv'
<1>1. down' = down \o Announce(server) /\ feed' = [feed EXCEPT !.up = TRUE]
      /\ UNCHANGED <<server, sessions, mapped, panels, page, spent>>
  BY DEF Reconnect
<1>2. down' \in Seq(Messages) /\ MailFits(down', sessions) BY <1>1, Announced DEF IInv, TypeOK
<1>3. panels' \in PanelStates /\ SamePanels /\ feed' \in Feeds
  BY <1>1 DEF IInv, TypeOK, PanelStates, SamePanels, Feeds
<1> QED BY <1>1, <1>2, <1>3, QuietStep DEF IInv, TypeOK

LEMMA FaultedCounts ==
  ASSUME spent \in Counts, NEW o, Faulted(o)
  PROVE  spent' \in Counts /\ spent'.moves = spent.moves
BY SpendCounts DEF Faulted

(* A reply that is still wanted continues its request. *)
LEMMA ReplyTakes ==
  ASSUME IInv, down # <<>>, Head(down).kind = "reply", DeliverReply(Head(down)),
         UNCHANGED <<feed, page>>
  PROVE  (server' = server \/ \E o, s : Takes(o, s, Tail(down))) /\ IInv'
<1> DEFINE m == Head(down)
           s == m.to
           e == sessions[s]
<1>1. /\ Tail(down) \in Seq(Messages) /\ MailFits(Tail(down), sessions) /\ m \in Messages
      /\ Fits(m.answer, e.task)
      /\ \A i \in DOMAIN Tail(down) : Tail(down)[i].kind = "reply" => Tail(down)[i].to # s
  BY MailTail DEF IInv, TypeOK
<1>2. s \in SessionIds BY <1>1 DEF Messages
<1>3. s \in Taken /\ Sound(e) /\ e \in Editors /\ e.task \in Tasks
  BY <1>1, <1>2 DEF Taken, Fits, IInv, TypeOK, Editors
<1>4. /\ panels \in PanelStates /\ feed' \in Feeds /\ spent \in Counts /\ server \in Settings
      /\ Valid(server)
  BY DEF IInv, TypeOK, PanelStates, Feeds
<1>5. CASE ~Current(s)
 <2>1. down' = Tail(down) /\ UNCHANGED <<server, sessions, mapped, panels, spent>>
   BY <1>5 DEF DeliverReply
 <2>2. SamePanels BY <2>1 DEF SamePanels
 <2> QED BY <1>1, <1>4, <2>1, <2>2, QuietStep
<1>6. CASE Current(s)
 <2>1. PICK o \in Continued(e, s, m.answer) :
         /\ Faulted(o) /\ server' = o.settings /\ down' = Tail(down) \o o.sent
         /\ sessions' = [sessions EXCEPT ![s] = o.editors]
         /\ mapped' = Forget([sessions EXCEPT ![s] = o.editors], s)
         /\ panels' = IF e.task.phase = "load" /\ m.answer.ok
                      THEN [panels EXCEPT ![e.task.panel].reload = FALSE] ELSE panels
   BY <1>6 DEF DeliverReply
 <2>2. SoundOutcome(o, e, s) BY <1>1, <1>2, <1>3, <1>4, <2>1, ContinuedSound DEF Keeping
 <2> HIDE DEF e
 <2>3. Takes(o, s, Tail(down)) BY <1>2, <2>1, <2>2 DEF Takes, e
 <2>4. panels' \in PanelStates /\ SamePanels
  <3>1. e.task.panel \in Panels BY <1>3, TaskParts
  <3>2. CASE panels' = [panels EXCEPT ![e.task.panel].reload = FALSE]
    BY <1>4, <3>1, <3>2 DEF PanelStates, SamePanels
  <3>3. CASE panels' = panels BY <1>4, <3>3 DEF SamePanels
  <3> QED BY <2>1, <3>2, <3>3
 <2>5. spent' \in Counts /\ spent'.moves = spent.moves BY <1>4, <2>1, FaultedCounts
 <2>6. Unfinished(o.editors) /\ ~o.editors.left => mapped = s
   BY <1>1, <1>2, <2>2 DEF e, SoundOutcome, IInv, DraftsReachable, Unfinished, Fits
 <2>7. mapped' = IF o.editors.owner = None /\ ~Unfinished(o.editors) /\ mapped = s
                 THEN NoSession ELSE mapped
  <3>1. [sessions EXCEPT ![s] = o.editors][s] = o.editors BY <1>2 DEF IInv, TypeOK
  <3> QED BY <2>1, <3>1 DEF Forget
 <2>8. IInv'
   BY <1>1, <1>3, <1>4, <2>1, <2>2, <2>4, <2>5, <2>6, <2>7, SessionStep DEF e, SoundOutcome
 <2> QED BY <2>3, <2>8
<1> QED BY <1>5, <1>6

(* An event makes the panel in the page ask for the settings, or nothing. *)
LEMMA EventKeeps ==
  ASSUME IInv, down # <<>>, Head(down).kind = "event", DeliverEvent(Head(down)),
         UNCHANGED <<mapped, page>>
  PROVE  server' = server /\ IInv'
<1> DEFINE m == Head(down)
           s == panels[Here].session
<1>1. /\ Tail(down) \in Seq(Messages) /\ MailFits(Tail(down), sessions) /\ m \in Messages
  BY MailTail DEF IInv, TypeOK
<1>2. feed' \in Feeds BY <1>1 DEF DeliverEvent, Messages, Feeds, IInv, TypeOK
<1>3. /\ panels \in PanelStates /\ spent \in Counts /\ server \in Settings /\ Valid(server)
  BY DEF IInv, TypeOK, PanelStates
<1>4. CASE ~Attached \/ ~page.admin
 <2>1. down' = Tail(down) /\ UNCHANGED <<server, sessions, panels, spent>> BY <1>4 DEF DeliverEvent
 <2>2. SamePanels BY <2>1 DEF SamePanels
 <2> QED BY <1>1, <1>2, <1>3, <2>1, <2>2, QuietStep
<1>5. CASE Attached /\ page.admin
 <2>1. PICK o \in Listener(Here, sessions, m.on, panels[Here].reload) :
         /\ Faulted(o) /\ Keep(o.editors) /\ down' = Tail(down) \o o.sent
         /\ UNCHANGED <<server, panels>>
   BY <1>5 DEF DeliverEvent
 <2>2. /\ Here \in Panels /\ s \in SessionIds /\ s \in Taken /\ mapped = s
       /\ Sound(sessions[s]) /\ sessions[s].owner # None
   BY <1>5, HereParts
 <2>3. /\ sessions' = [sessions EXCEPT ![s] = o.editors] /\ SamePanels BY <2>1 DEF Keep, SamePanels
 <2>4. spent' \in Counts /\ spent'.moves = spent.moves BY <1>3, <2>1, FaultedCounts
 <2>5. /\ Sound(o.editors) /\ o.editors.owner = sessions[s].owner
       /\ o.editors.left = sessions[s].left /\ Answering(o.sent, s, o.editors.task)
       /\ \/ sessions[s].task = None
          \/ o.sent = <<>> /\ o.editors.task = sessions[s].task
  <3>1. CASE o \in Asking(sessions[s], s, Task(Here, None, "load"), server)
             /\ sessions[s].task = None
   <4>1. SoundOutcome(o, sessions[s], s) BY <1>3, <2>2, <3>1, AskingSound DEF Keeping, Sound
   <4> QED BY <3>1, <4>1 DEF SoundOutcome
  <3>2. CASE o = Outcome(sessions[s], server, <<>>, FALSE)
    BY <2>2, <3>2, NoMessageAnswers DEF Outcome
  <3> QED BY <2>1, <3>1, <3>2 DEF Listener
 <2>6. sessions[s].task = None =>
         \A i \in DOMAIN Tail(down) : Tail(down)[i].kind = "reply" => Tail(down)[i].to # s
   BY <1>1 DEF MailFits, Fits
 <2> HIDE DEF s
 <2> QED BY <1>1, <1>2, <1>3, <2>1, <2>2, <2>3, <2>4, <2>5, <2>6, SessionStep
<1> QED BY <1>4, <1>5

LEMMA DeliverKeeps ==
  ASSUME IInv, Deliver
  PROVE  (server' = server \/ \E o, s : Takes(o, s, Tail(down))) /\ IInv'
BY ReplyTakes, EventKeeps DEF Deliver

(* A dropped connection fails every request that is still wanted. *)
LEMMA DisconnectKeeps ==
  ASSUME IInv, NEW code \in {None, "connection_lost"}, Disconnect(code)
  PROVE  server' = server /\ IInv'
<1>1. /\ server \in Settings /\ Valid(server) /\ spent \in Counts /\ feed \in Feeds
      /\ sessions \in [SessionIds -> Editors] /\ mapped \in {NoSession} \cup SessionIds
      /\ \A s \in SessionIds : Sound(sessions[s])
  BY DEF IInv, TypeOK, Feeds
<1>2. /\ Spend("faults", MaxFaults) /\ feed' = [feed EXCEPT !.up = FALSE] /\ down' = <<>>
      /\ mapped' = IF mapped = NoSession THEN mapped ELSE Forget(sessions', mapped)
      /\ UNCHANGED <<server, panels, page>>
  BY DEF Disconnect
<1>3. ASSUME NEW s \in SessionIds
      PROVE  /\ Sound(sessions'[s]) /\ sessions'[s].owner = sessions[s].owner
             /\ sessions'[s].left = sessions[s].left
             /\ Unfinished(sessions'[s]) => Unfinished(sessions[s])
             /\ sessions'[s].task # None => sessions[s].task # None
 <2> DEFINE e == sessions[s]
            outcomes == Continued(e, s, Refusal(code))
 <2>1. sessions'[s] = IF e.task = None \/ ~Current(s) THEN e
                      ELSE (CHOOSE o \in outcomes : TRUE).editors
   BY DEF Disconnect
 <2>2. CASE e.task = None \/ ~Current(s) BY <1>1, <2>1, <2>2
 <2>3. CASE ~(e.task = None \/ ~Current(s))
  <3>1. Refusal(code).ok = FALSE /\ code # "invalid_settings" BY NoneIsNothing DEF Refusal, Codes
  <3>2. Fits(Refusal(code), e.task) BY <2>3, <3>1, RefusalsDiffer DEF Fits
  <3>3. \A o \in outcomes : SoundOutcome(o, e, s) BY <1>1, <3>2, ContinuedSound DEF Keeping
  <3>4. \E o : o \in outcomes BY <3>1 DEF Continued
  <3>5. PICK o \in outcomes : sessions'[s] = o.editors BY <2>1, <2>3, <3>4
  <3>6. SoundOutcome(o, e, s) BY <3>3, <3>5
  <3> QED BY <2>3, <3>5, <3>6 DEF SoundOutcome, Unfinished
 <2> QED BY <2>2, <2>3
<1>4. sessions' \in [SessionIds -> Editors]
 <2>1. sessions' = [s \in SessionIds |-> sessions'[s]] BY DEF Disconnect
 <2> QED BY <1>3, <2>1 DEF Sound, Drafting
<1>5. /\ spent' \in Counts /\ spent'.moves = spent.moves /\ feed' \in Feeds
  BY <1>1, <1>2, SpendCounts DEF Feeds
<1>6. /\ mapped' \in {mapped, NoSession}
      /\ mapped' # mapped => sessions'[mapped].owner = None /\ ~Unfinished(sessions'[mapped])
  BY <1>2 DEF Forget
<1>7. down' \in Seq(Messages) /\ MailFits(down', sessions')
 <2>1. DOMAIN <<>> = {} OBVIOUS
 <2> QED BY <1>2, <2>1 DEF MailFits
<1>8. TypeOK' BY <1>1, <1>2, <1>3, <1>4, <1>5, <1>6, <1>7 DEF IInv, TypeOK, Feeds, Sound, Drafting
<1>9. PagesFit'
 <2>1. Attached /\ page.admin => /\ mapped' = mapped /\ mapped \in SessionIds
                                /\ sessions'[mapped].owner = page.attached
   BY <1>3, <1>6, HereParts DEF Here
 <2> QED BY <1>2, <1>6, <2>1, HereParts DEF IInv, PagesFit, Attached, Here
<1>10. Room'
 <2>1. Taken' \subseteq Taken BY <1>2, <1>3, <1>6, Sessions DEF Taken
 <2>2. spent.moves \in Nat BY <1>1, SettingsAssumption DEF Counts
 <2> QED BY <1>2, <1>5, <2>1, <2>2, TakenKept DEF IInv, Room
<1>11. DraftsReachable'
 <2> SUFFICES ASSUME NEW s \in SessionIds, Unfinished(sessions'[s]), ~sessions'[s].left
              PROVE  mapped' = s
   BY DEF DraftsReachable, Unfinished
 <2>1. mapped = s BY <1>3 DEF IInv, DraftsReachable
 <2> QED BY <1>6, <2>1
<1> QED BY <1>2, <1>3, <1>7, <1>8, <1>9, <1>10, <1>11 DEF IInv

-----------------------------------------------------------------------------
(* The steps, and what they write *)

LEMMA NextKeeps ==
  ASSUME IInv, [Next]_vars
  PROVE  IInv'
<1>1. CASE UNCHANGED vars
 <2>1. SamePanels BY <1>1 DEF vars, SamePanels
 <2> QED BY <1>1, <2>1, QuietStep DEF vars, IInv, TypeOK, PanelStates, Feeds
<1>2. ASSUME NEW p \in Panels, Attach(p) PROVE IInv' BY <1>2, AttachKeeps
<1>3. CASE Detach BY <1>3, DetachKeeps
<1>4. CASE Permission BY <1>4, PermissionKeeps
<1>5. CASE UserSaves BY <1>5, UserSavesTakes
<1>6. CASE UserEdits BY <1>6, UserEditsKeeps
<1>7. ASSUME NEW change \in Elsewhere, Other(change) PROVE IInv' BY <1>7, OtherKeeps
<1>8. CASE Deliver BY <1>8, DeliverKeeps
<1>9. ASSUME NEW code \in {None, "connection_lost"}, Disconnect(code) PROVE IInv'
  BY <1>9, DisconnectKeeps
<1>10. CASE Reconnect BY <1>10, ReconnectKeeps
<1> QED BY <1>1, <1>2, <1>3, <1>4, <1>5, <1>6, <1>7, <1>8, <1>9, <1>10 DEF Next

(* A write of the panel is the outcome of a request of that session. *)
LEMMA OwnWriteTakes ==
  ASSUME IInv, [Next]_vars, NEW s \in SessionIds, OwnWrite(s)
  PROVE  \E o, d : Takes(o, s, d)
<1>1. server' # server /\ spent'.others = spent.others /\ sessions'[s].task # sessions[s].task
  BY DEF OwnWrite
<1>2. \E o, r, d : Takes(o, r, d)
 <2>1. CASE UserSaves BY <2>1, UserSavesTakes
 <2>2. CASE Deliver BY <1>1, <2>2, DeliverKeeps
 <2>3. ASSUME NEW change \in Elsewhere, Other(change) PROVE FALSE
  <3>1. spent.others \in Nat BY DEF IInv, TypeOK, Counts
  <3> QED BY <1>1, <2>3, <3>1, OtherKeeps
 <2>4. ASSUME UserEdits PROVE server' = server
   BY <2>4 DEF UserEdits, Edit, EditTiming, Type, Discard, Review
 <2>5. ASSUME NEW p \in Panels, Attach(p) PROVE server' = server BY <2>5 DEF Attach
 <2>6. ASSUME NEW code \in {None, "connection_lost"}, Disconnect(code) PROVE server' = server
   BY <2>6 DEF Disconnect
 <2>7. Detach \/ Permission \/ Reconnect => server' = server BY DEF Detach, Permission, Reconnect
 <2>8. UNCHANGED vars => server' = server BY DEF vars
 <2> QED BY <1>1, <2>1, <2>2, <2>3, <2>4, <2>5, <2>6, <2>7, <2>8 DEF Next
<1>3. PICK o, r, d : Takes(o, r, d) BY <1>2
<1>4. r = s BY <1>1, <1>3 DEF Takes, IInv, TypeOK
<1> QED BY <1>3, <1>4

LEMMA OwnWriteScoped ==
  ASSUME IInv, [Next]_vars, NEW s \in SessionIds, OwnWrite(s)
  PROVE  LET op == sessions'[s].task.op
             typed == sessions'[s].typed
         IN /\ \A k \in Keys \ Named(op, server) : server'[k] = server[k]
            /\ op.kind = "save" =>
                 \A k \in op.scope \ General : server'[k] # server[k] =>
                   typed[k].set /\ typed[k].from = server[k]
            /\ op.kind = "availability" =>
                 \A k \in op.review.affected : server[k] = op.review.revision[k]
<1>1. PICK o, d : Takes(o, s, d) BY OwnWriteTakes
<1>2. sessions'[s] = o.editors /\ server' = o.settings BY <1>1 DEF Takes, IInv, TypeOK
<1>3. /\ o.editors.conf = server /\ Seen(o.editors, o.editors.task.op, o.settings)
      /\ \A k \in Keys \ Named(o.editors.task.op, server) : o.settings[k] = server[k]
  BY <1>1, <1>2 DEF Takes, SoundOutcome, ScopedWrite, OwnWrite
<1> QED BY <1>2, <1>3 DEF Seen

-----------------------------------------------------------------------------
(* The theorems *)

LEMMA Invariance == Spec => []IInv
<1>1. Init => IInv BY InitKeeps
<1>2. IInv /\ [Next]_vars => IInv' BY NextKeeps
<1> QED BY <1>1, <1>2, PTL DEF Spec

(* Settings, drafts, requests, panels and messages are what they are meant *)
(* to be, and a free session is found whenever a panel needs one.          *)
THEOREM SettingsTypes == Spec => []TypeOK
<1>1. IInv => TypeOK BY DEF IInv
<1> QED BY <1>1, Invariance, PTL

(* What the user typed and did not save is in the draft, and the draft is  *)
(* where the next panel of the connection looks for it, however requests,  *)
(* other administrators, the connection and the panel behave.              *)
THEOREM UnsavedWorkSafe == Spec => []UnsavedWorkKept
<1>1. IInv => UnsavedWorkKept
 <2> SUFFICES ASSUME IInv PROVE UnsavedWorkKept OBVIOUS
 <2>1. DraftsKept
  <3> SUFFICES ASSUME NEW s \in SessionIds, NEW k \in Keys, sessions[s].typed[k].set
               PROVE  sessions[s].draft[k] = sessions[s].typed[k].value
    BY DEF DraftsKept
  <3>1. Drafting(sessions[s]) BY DEF IInv, Sound
  <3>2. sessions[s].conf # None BY <3>1 DEF Drafting, Untyped, Unset
  <3> QED BY <3>1, <3>2 DEF Drafting, Tracked
 <2> QED BY <2>1 DEF IInv, UnsavedWorkKept
<1> QED BY <1>1, Invariance, PTL

(* The server never refuses the removal of a method or notification for    *)
(* leaving a reference behind, whatever refers to it.                      *)
THEOREM DeletionsAccepted == Spec => []DeletionsValid
<1>1. IInv => DeletionsValid BY DEF IInv, DeletionsValid, MailFits, Fits
<1> QED BY <1>1, Invariance, PTL

(* A save of the panel changes nothing it does not name, and replaces no   *)
(* definition its user has not seen.                                       *)
THEOREM SavesScoped == Spec => SavesAreScoped
<1>1. IInv /\ [Next]_vars =>
        \A s \in SessionIds : OwnWrite(s) =>
          \A k \in Keys \ Named(sessions'[s].task.op, server) : server'[k] = server[k]
  BY OwnWriteScoped
<1>2. IInv /\ [Next]_vars =>
        \A s \in SessionIds : OwnWrite(s) =>
          LET op == sessions'[s].task.op
              typed == sessions'[s].typed
          IN /\ op.kind = "save" =>
                  \A k \in op.scope \ General : server'[k] # server[k] =>
                    typed[k].set /\ typed[k].from = server[k]
             /\ op.kind = "availability" =>
                  \A k \in op.review.affected : server[k] = op.review.revision[k]
  BY OwnWriteScoped
<1> QED BY <1>1, <1>2, Invariance, PTL DEF Spec, SavesAreScoped, SavesOwnScope, NoBlindOverwrite
=============================================================================
