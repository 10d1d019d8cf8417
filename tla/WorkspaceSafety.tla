-------------------------- MODULE WorkspaceSafety --------------------------
(* For any home, policies, reports and course of a session: Stop Monitoring   *)
(* does what was reviewed, every issue is listed and opens and what it says   *)
(* agrees with what is known, every source has a place in every grouping, of  *)
(* which none stays that cannot be used, and a link leaves what it leads to   *)
(* on the screen.                                                             *)
EXTENDS Workspace, FiniteSetTheorems, SequenceTheorems, WellFoundedInduction, TLAPS

----------------------------------------------------------------------------
(* Stop Monitoring: the inductive invariant. *)

(* A plan changes policies there are, and of each only sources it names.      *)
PlanSound(plan) ==
    /\ DOMAIN plan.changes \subseteq Policies
    /\ \A p \in DOMAIN plan.changes :
           SymDiff(plan.changes[p].before, plan.changes[p].after) \subseteq plan.sources

(* A review and an offer are sound plans; a review is of the open dialog.     *)
ReviewsFit ==
    /\ review = [plan |-> review.plan, owner |-> review.owner]
    /\ offer = [plan |-> offer.plan, context |-> offer.context]
    /\ ReviewBelongsToDialog
    /\ review.plan # None => PlanSound(review.plan)
    /\ offer.plan # None => PlanSound(offer.plan)

Covered(excluded) == excluded = [p \in Policies |-> excluded[p]]

(* The card's copy is of a revision the server has had, and of this one only  *)
(* if it is what the server has.                                              *)
SettingsFit ==
    /\ server = [excluded |-> server.excluded, revision |-> server.revision]
    /\ config = [excluded |-> config.excluded, revision |-> config.revision, stale |-> config.stale]
    /\ Covered(server.excluded) /\ Covered(config.excluded)
    /\ server.revision \in Nat /\ config.revision \in Nat
    /\ config.revision <= server.revision
    /\ config.revision = server.revision => config.excluded = server.excluded

(* What is being sent was planned against the card's copy as it still is.     *)
Agrees(plan, conf) == \A p \in DOMAIN plan.changes : conf.excluded[p] = plan.changes[p].before
SavingFits ==
    saving # None =>
        /\ saving = [stage |-> saving.stage, plan |-> saving.plan, owner |-> saving.owner]
        /\ reading = None
        /\ PlanSound(saving.plan)
        /\ saving.stage = "save" => Agrees(saving.plan, config)

IInv == ReviewsFit /\ SettingsFit /\ SavingFits

----------------------------------------------------------------------------
(* Plans and saves. *)

(* What the card plans is sound. *)
LEMMA PlansAreSound ==
    ASSUME NEW mode, NEW selected
    PROVE  PlanSound(Plan(mode, selected))
<1> DEFINE of(p) == {s \in selected : p \in Affected(mode, s)}
           touched == {p \in Policies : of(p) # {}}
           sources == UNION {of(p) : p \in touched}
           after(p) == IF mode = "stop" THEN config.excluded[p] \cup of(p)
                       ELSE config.excluded[p] \ of(p)
           changes == [p \in touched |-> [before |-> config.excluded[p], after |-> after(p)]]
           plan == Plan(mode, selected)
<1>1. plan.changes = changes /\ plan.sources = sources BY DEF Plan
<1>2. ASSUME NEW p \in touched
      PROVE  SymDiff(changes[p].before, changes[p].after) \subseteq sources
 <2>1. of(p) \subseteq sources OBVIOUS
 <2>2. changes[p].before = config.excluded[p] /\ changes[p].after = after(p) OBVIOUS
 <2>3. SymDiff(config.excluded[p], after(p)) \subseteq of(p) BY DEF SymDiff
 <2> QED BY <2>1, <2>2, <2>3
<1>3. DOMAIN changes = touched /\ touched \subseteq Policies OBVIOUS
<1> QED BY <1>1, <1>2, <1>3 DEF PlanSound

(* The end of a save: what is on the screen still fits, and only the review   *)
(* that was answered is closed.                                               *)
LEMMA FinishKeeps ==
    ASSUME ReviewsFit, NEW s, NEW saved, Finish(s, saved)
    PROVE  /\ ReviewsFit' /\ saving' = None
           /\ dialog # None /\ dialog' = None => dialog = s.owner /\ review.plan = s.plan
<1>1. saving' = None BY DEF Finish
<1>2. CASE UNCHANGED <<dialog, review>> /\ (offer' = offer \/ offer' = [offer EXCEPT !.plan = None])
  BY <1>1, <1>2 DEF ReviewsFit, ReviewBelongsToDialog
<1>3. CASE /\ dialog = s.owner /\ review.plan = s.plan /\ review' = NoReview
           /\ offer' = offer \/ offer' = [offer EXCEPT !.context = None]
  BY <1>1, <1>3 DEF ReviewsFit, ReviewBelongsToDialog, NoReview
<1>4. CASE UNCHANGED <<dialog, offer>> /\ review' = [review EXCEPT !.plan = None]
  BY <1>1, <1>4 DEF ReviewsFit, ReviewBelongsToDialog
<1>5. ASSUME NEW done, DialogAnswered(s.owner, s.plan, done)
      PROVE  \/ UNCHANGED <<dialog, review>> /\ offer' = offer
             \/ /\ dialog = s.owner /\ review.plan = s.plan /\ review' = NoReview
                /\ offer' = offer \/ offer' = [offer EXCEPT !.context = None]
             \/ UNCHANGED <<dialog, offer>> /\ review' = [review EXCEPT !.plan = None]
  BY <1>5 DEF DialogAnswered, Reset
<1>6. ASSUME NEW done, DetailsAnswered(done)
      PROVE  UNCHANGED <<dialog, review>> /\ (offer' = offer \/ offer' = [offer EXCEPT !.plan = None])
  BY <1>6 DEF DetailsAnswered
<1> DEFINE done == saved /\ \A p \in DOMAIN s.plan.changes :
                                config'.excluded[p] = s.plan.changes[p].after
<1>7. DialogAnswered(s.owner, s.plan, done) \/ DetailsAnswered(done) BY DEF Finish
<1> HIDE DEF done
<1> QED BY <1>2, <1>3, <1>4, <1>5, <1>6, <1>7

(* Sending a plan, over the card's copy or one that was just read.            *)
LEMMA ProposeKeeps ==
    ASSUME ReviewsFit, SettingsFit, UNCHANGED <<server, reading>>, reading = None,
           NEW s, s = [stage |-> s.stage, plan |-> s.plan, owner |-> s.owner], PlanSound(s.plan),
           NEW conf, conf \in {config, Fresh}, Propose(s, conf)
    PROVE  /\ IInv'
           /\ dialog # None /\ dialog' = None =>
                  saving' = None /\ dialog = s.owner /\ review.plan = s.plan
<1>1. config' = conf \/ config' = [conf EXCEPT !.stale = TRUE] BY DEF Propose
<1>2. SettingsFit' BY <1>1 DEF SettingsFit, Fresh, Covered
<1>3. CASE \E saved : Finish(s, saved) BY <1>2, <1>3, FinishKeeps DEF IInv, SavingFits
<1>4. CASE /\ Proposed(s.plan, conf) /\ config' = conf
           /\ saving' = [s EXCEPT !.stage = "save"] /\ UNCHANGED Shown
 <2>1. ReviewsFit' BY <1>4 DEF Shown, ReviewsFit, ReviewBelongsToDialog
 <2>2. saving'.plan = s.plan /\ saving' = [stage |-> saving'.stage, plan |-> saving'.plan, owner |-> saving'.owner]
   BY <1>4
 <2>3. Agrees(s.plan, config') BY <1>4 DEF Proposed, Agrees
 <2>4. SavingFits' BY <2>2, <2>3 DEF SavingFits, Agrees, PlanSound
 <2> QED BY <1>2, <1>4, <2>1, <2>4 DEF IInv, Shown
<1> QED BY <1>3, <1>4 DEF Propose

----------------------------------------------------------------------------
(* The steps. *)

(* Nothing is reviewed or saved as a session begins. *)
THEOREM Initially == Init => IInv
<1> SUFFICES ASSUME Init PROVE IInv OBVIOUS
<1> PICK opening \in Openings :
        /\ server = [excluded |-> opening.excluded, revision |-> 0]
        /\ config = [excluded |-> opening.excluded, revision |-> 0, stale |-> FALSE]
        /\ review = NoReview /\ offer = [plan |-> None, context |-> None] /\ saving = None
  BY DEF Init
<1>1. ReviewsFit BY DEF ReviewsFit, ReviewBelongsToDialog, NoReview
<1>2. SettingsFit BY OpeningsAssumption DEF SettingsFit, Covered
<1> QED BY <1>1, <1>2 DEF IInv, SavingFits

(* A step that leaves the settings and the save alone and shows no plan but   *)
(* a sound one, which belongs to the dialog.                                  *)
LEMMA QuietKeeps ==
    ASSUME IInv, Quiet, ReviewsFit'
    PROVE  IInv' /\ SavesReviewed /\ ~ (saving # None /\ saving' = None)
BY DEF IInv, Quiet, settings, SettingsFit, SavingFits, Covered, Agrees, PlanSound, SavesReviewed

(* The same when nothing on the screen is touched either. *)
LEMMA ElsewhereKeeps ==
    ASSUME IInv, UNCHANGED reviewVars, SettingsFit', UNCHANGED config
    PROVE  IInv' /\ SavesReviewed /\ ~ (saving # None /\ saving' = None)
BY DEF IInv, reviewVars, ReviewsFit, ReviewBelongsToDialog, SavingFits, Agrees, PlanSound, SavesReviewed

(* Saving starts, if the card's copy may be old with reading it. *)
LEMMA StartKeeps ==
    ASSUME IInv, UNCHANGED <<server, reading>>, reading = None, saving = None,
           NEW plan, PlanSound(plan), NEW owner, Start(plan, owner)
    PROVE  IInv'
<1> DEFINE s == [stage |-> "refresh", plan |-> plan, owner |-> owner]
<1>1. s = [stage |-> s.stage, plan |-> s.plan, owner |-> s.owner] /\ s.plan = plan /\ s.stage # "save"
  OBVIOUS
<1>2. (saving' = s /\ UNCHANGED <<config, Shown>>) \/ Propose(s, config) BY DEF Start
<1> HIDE DEF s
<1>3. CASE Propose(s, config) BY <1>1, <1>3, ProposeKeeps DEF IInv
<1>4. CASE saving' = s /\ UNCHANGED <<config, Shown>>
  BY <1>1, <1>4 DEF IInv, Shown, ReviewsFit, ReviewBelongsToDialog, SettingsFit, Covered, SavingFits, PlanSound
<1> QED BY <1>2, <1>3, <1>4

Kept == IInv' /\ SavesReviewed /\ ClosesAnswered

(* The user acts in a dialog or in the details of a source. *)
LEMMA UserKeeps ==
    ASSUME IInv, UserStep
    PROVE  Kept
<1> USE DEF Kept, ClosesAnswered
<1>1. ASSUME NEW target, OpenDialog(target) PROVE Kept
 <2>1. ReviewsFit'
   BY <1>1 DEF OpenDialog, Reset, NoReview, IInv, ReviewsFit, ReviewBelongsToDialog, PlanSound
 <2> QED BY <1>1, <2>1, QuietKeeps DEF OpenDialog
<1>2. CASE CloseDialog
 <2>1. ReviewsFit'
   BY <1>2 DEF CloseDialog, Reset, NoReview, IInv, ReviewsFit, ReviewBelongsToDialog, PlanSound
 <2> QED BY <1>2, <2>1, QuietKeeps DEF CloseDialog
<1>3. CASE Review
 <2> DEFINE plan == Plan("stop", IssueSources(OpenedIssues))
 <2>1. PlanSound(plan) BY PlansAreSound
 <2>2. /\ dialog # None /\ UNCHANGED dialog /\ Quiet
       /\ review' \in {[plan |-> plan, owner |-> dialog], [plan |-> None, owner |-> dialog]}
       /\ offer' = [offer EXCEPT !.context = dialog]
   BY <1>3 DEF Review
 <2> HIDE DEF plan
 <2>3. ReviewsFit' BY <2>1, <2>2 DEF IInv, ReviewsFit, ReviewBelongsToDialog, PlanSound
 <2> QED BY <2>2, <2>3, QuietKeeps
<1>4. CASE CancelReview
 <2>1. ReviewsFit'
   BY <1>4 DEF CancelReview, Reset, NoReview, IInv, ReviewsFit, ReviewBelongsToDialog, PlanSound
 <2> QED BY <1>4, <2>1, QuietKeeps DEF CancelReview
<1>5. CASE ConfirmReview
 <2>1. CASE Start(review.plan, dialog)
  <3>1. /\ saving = None /\ reading = None /\ UNCHANGED <<server, reading>>
        /\ review.plan # None
    BY <1>5 DEF ConfirmReview, Blocked, Busy
  <3>2. PlanSound(review.plan) BY <3>1 DEF IInv, ReviewsFit
  <3> QED BY <2>1, <3>1, <3>2, StartKeeps DEF SavesReviewed
 <2>2. CASE /\ review' = [review EXCEPT !.plan = None]
            /\ offer' = [offer EXCEPT !.context = dialog]
            /\ UNCHANGED <<config, saving, dialog, members>>
  <3>1. ReviewsFit' BY <2>2 DEF IInv, ReviewsFit, ReviewBelongsToDialog, PlanSound
  <3>2. Quiet BY <1>5, <2>2 DEF ConfirmReview, Quiet, settings
  <3> QED BY <3>1, <3>2, QuietKeeps
 <2> QED BY <1>5, <2>1, <2>2 DEF ConfirmReview
<1>6. ASSUME NEW s, NEW mode, Offer(s, mode) PROVE Kept
 <2> DEFINE chosen == IF Entity(s) THEN {s}
                      ELSE IF members # None /\ members.device = s THEN members.ids ELSE {}
            plan == Plan(mode, chosen)
 <2>1. PlanSound(plan) BY PlansAreSound
 <2>2. offer' = [plan |-> plan, context |-> <<"source", s>>] /\ UNCHANGED <<dialog, review>> /\ Quiet
   BY <1>6 DEF Offer
 <2> HIDE DEF plan
 <2>3. ReviewsFit' BY <2>1, <2>2 DEF IInv, ReviewsFit, ReviewBelongsToDialog, PlanSound
 <2> QED BY <2>2, <2>3, QuietKeeps
<1>7. ASSUME NEW s, ChooseMembers(s) PROVE Kept
 <2>1. ReviewsFit' BY <1>7 DEF ChooseMembers, IInv, ReviewsFit, ReviewBelongsToDialog, PlanSound
 <2> QED BY <1>7, <2>1, QuietKeeps DEF ChooseMembers
<1>8. ASSUME NEW s, NEW e, TickMember(s, e) PROVE Kept
 <2>1. ReviewsFit' BY <1>8 DEF TickMember, IInv, ReviewsFit, ReviewBelongsToDialog, PlanSound
 <2> QED BY <1>8, <2>1, QuietKeeps DEF TickMember
<1>9. ASSUME NEW s, CancelOffer(s) PROVE Kept
 <2>1. ReviewsFit' BY <1>9 DEF CancelOffer, IInv, ReviewsFit, ReviewBelongsToDialog, PlanSound
 <2> QED BY <1>9, <2>1, QuietKeeps DEF CancelOffer
<1>10. ASSUME NEW s, ConfirmOffer(s) PROVE Kept
 <2>1. /\ saving = None /\ reading = None /\ UNCHANGED <<server, reading>>
       /\ offer.plan # None /\ Start(offer.plan, <<"source", s>>)
   BY <1>10 DEF ConfirmOffer, DetailsAct, Offered, Blocked, Busy
 <2>2. PlanSound(offer.plan) BY <2>1 DEF IInv, ReviewsFit
 <2> QED BY <2>1, <2>2, StartKeeps DEF SavesReviewed
<1>11. ASSUME NEW owner, ReadSaved(owner) PROVE Kept
  BY <1>11 DEF ReadSaved, Busy, settings, Shown, IInv, ReviewsFit, ReviewBelongsToDialog,
               SettingsFit, Covered, SavingFits, PlanSound, SavesReviewed
<1> QED BY <1>1, <1>2, <1>3, <1>4, <1>5, <1>6, <1>7, <1>8, <1>9, <1>10, <1>11 DEF UserStep

(* A save goes on. *)
LEMMA CardKeeps ==
    ASSUME IInv, CardStep
    PROVE  Kept
<1> USE DEF Kept
<1> DEFINE plan == saving.plan
<1>1. /\ saving # None /\ UNCHANGED reading
      /\ SaveRefreshed \/ SaveAnswered \/ SaveReloaded
  BY DEF CardStep, SaveRefreshed, SaveAnswered, SaveReloaded
<1>2. /\ saving = [stage |-> saving.stage, plan |-> plan, owner |-> saving.owner]
      /\ reading = None /\ PlanSound(plan)
      /\ ReviewsFit /\ SettingsFit
  BY <1>1 DEF IInv, SavingFits
<1>3. ASSUME NEW ok, Finish(saving, ok), SettingsFit'
      PROVE  IInv' /\ ClosesAnswered
  BY <1>2, <1>3, FinishKeeps DEF IInv, SavingFits, ClosesAnswered
<1>4. ASSUME MayFail(saving), SettingsFit' PROVE IInv' /\ ClosesAnswered BY <1>3, <1>4 DEF MayFail, Fail
<1>5. CASE SaveRefreshed
 <2>1. SavesReviewed /\ UNCHANGED server BY <1>5 DEF SaveRefreshed, SavesReviewed
 <2>2. CASE Propose(saving, Fresh) BY <1>1, <1>2, <2>1, <2>2, ProposeKeeps DEF ClosesAnswered
 <2>3. CASE MayFail(saving)
  <3>1. SettingsFit' BY <1>2, <2>1, <2>3 DEF MayFail, Fail, SettingsFit, Covered
  <3> QED BY <1>4, <2>1, <2>3, <3>1
 <2> QED BY <1>5, <2>2, <2>3 DEF SaveRefreshed
<1>6. CASE SaveAnswered
 <2> DEFINE accepted == [excluded |-> Candidate(plan, config), revision |-> server.revision + 1]
 <2>1. saving.stage = "save" /\ Agrees(plan, config)
   BY <1>1, <1>6 DEF SaveAnswered, IInv, SavingFits
 <2>2. CASE UNCHANGED server /\ MayFail(saving)
  <3>1. SettingsFit' BY <1>2, <2>2 DEF MayFail, Fail, SettingsFit, Covered
  <3> QED BY <1>4, <2>2, <3>1 DEF SavesReviewed
 <2>3. CASE /\ config.revision = server.revision /\ server' = accepted
            /\ \/ saving' = [saving EXCEPT !.stage = "reload"] /\ UNCHANGED <<config, Shown>>
               \/ MayFail(saving)
  <3>1. config.excluded = server.excluded /\ Covered(server.excluded) BY <1>2, <2>3 DEF SettingsFit
  <3>2. Covered(accepted.excluded) BY DEF Candidate, Covered
  <3>3. ASSUME NEW p \in Policies
        PROVE  accepted.excluded[p] =
                   IF p \in DOMAIN plan.changes THEN plan.changes[p].after ELSE server.excluded[p]
    BY <3>1 DEF Candidate
  <3>4. SavesReviewed BY <1>2, <2>1, <2>3, <3>1, <3>3 DEF SavesReviewed, PlanSound, Agrees
  <3>5. /\ accepted = [excluded |-> accepted.excluded, revision |-> accepted.revision]
        /\ accepted.revision = server.revision + 1
    OBVIOUS
  <3> HIDE DEF accepted
  <3>6. CASE MayFail(saving)
   <4>1. PICK stale : config' = [config EXCEPT !.stale = stale] BY <3>6 DEF MayFail, Fail
   <4>2. /\ config' = [excluded |-> config'.excluded, revision |-> config'.revision, stale |-> config'.stale]
         /\ config'.excluded = config.excluded /\ config'.revision = config.revision
     BY <1>2, <4>1 DEF SettingsFit
   <4>3. /\ server' = [excluded |-> server'.excluded, revision |-> server'.revision]
         /\ server'.revision = server.revision + 1 /\ Covered(server'.excluded)
     BY <2>3, <3>2, <3>5
   <4>4. SettingsFit' BY <1>2, <2>3, <4>2, <4>3 DEF SettingsFit, Covered
   <4> QED BY <1>4, <3>4, <3>6, <4>4
  <3>7. CASE saving' = [saving EXCEPT !.stage = "reload"] /\ UNCHANGED <<config, Shown>>
   <4>1. SettingsFit' BY <1>2, <2>3, <3>2, <3>5, <3>7 DEF SettingsFit, Covered
   <4>2. SavingFits' BY <1>1, <1>2, <3>7 DEF SavingFits, PlanSound
   <4>3. ReviewsFit' /\ ClosesAnswered
     BY <1>2, <3>7 DEF Shown, ReviewsFit, ReviewBelongsToDialog, PlanSound, ClosesAnswered
   <4> QED BY <3>4, <4>1, <4>2, <4>3 DEF IInv
  <3> QED BY <2>3, <3>6, <3>7
 <2> QED BY <1>6, <2>2, <2>3 DEF SaveAnswered
<1>7. CASE SaveReloaded
 <2>1. SavesReviewed /\ UNCHANGED server BY <1>7 DEF SaveReloaded, SavesReviewed
 <2>2. config' = Fresh \/ config' = [config EXCEPT !.stale = TRUE] BY <1>7 DEF SaveReloaded, Fail
 <2>3. SettingsFit' BY <1>2, <2>1, <2>2 DEF SettingsFit, Fresh, Covered
 <2>4. Finish(saving, TRUE) \/ MayFail(saving) BY <1>7 DEF SaveReloaded, MayFail
 <2> QED BY <1>3, <1>4, <2>1, <2>3, <2>4
<1> QED BY <1>1, <1>5, <1>6, <1>7

(* Whatever happens, the invariant stays and the step is as reviewed. *)
THEOREM Steps == IInv /\ [Next]_vars => Kept
<1> SUFFICES ASSUME IInv, [Next]_vars PROVE Kept OBVIOUS
<1>1. ASSUME UNCHANGED reviewVars, SettingsFit', UNCHANGED config PROVE Kept
  BY <1>1, ElsewhereKeeps DEF Kept, ClosesAnswered
<1>2. ASSUME UNCHANGED reviewVars, UNCHANGED settings PROVE Kept
 <2>1. SettingsFit' /\ UNCHANGED config BY <1>2 DEF IInv, settings, SettingsFit, Covered
 <2> QED BY <1>1, <1>2, <2>1
<1>3. CASE UNCHANGED vars BY <1>2, <1>3 DEF vars
<1>4. CASE PageStep BY <1>2, <1>4 DEF PageStep
<1>5. CASE LinkStep
 <2>1. PICK s \in DOMAIN Rows : FollowLink(s) BY <1>5 DEF LinkStep
 <2>2. ReviewsFit'
   BY <2>1 DEF FollowLink, Reset, NoReview, IInv, ReviewsFit, ReviewBelongsToDialog, PlanSound
 <2> QED BY <2>1, <2>2, QuietKeeps DEF FollowLink, Kept, ClosesAnswered
<1>6. CASE UserStep BY <1>6, UserKeeps
<1>7. CASE CardStep BY <1>7, CardKeeps
<1>8. CASE ReadStep
 <2>1. reading # None /\ UNCHANGED <<server, saving, dialog>> /\ config' = Fresh
   BY <1>8 DEF ReadStep, ReadDone
 <2>2. saving = None BY <2>1 DEF IInv, SavingFits
 <2>3. \/ review' = NoReview /\ (offer' = offer \/ offer' = [offer EXCEPT !.context = None])
       \/ UNCHANGED review /\ (offer' = offer \/ offer' = [offer EXCEPT !.plan = None])
   BY <1>8 DEF ReadStep, ReadDone, Reset
 <2>4. ReviewsFit' BY <2>1, <2>3 DEF NoReview, IInv, ReviewsFit, ReviewBelongsToDialog, PlanSound
 <2>5. SettingsFit' BY <2>1 DEF IInv, SettingsFit, Fresh, Covered
 <2> QED BY <2>1, <2>2, <2>4, <2>5 DEF Kept, IInv, SavingFits, SavesReviewed, ClosesAnswered
<1>9. CASE OtherStep
 <2>1. ASSUME NEW p, NEW s, OtherSave(p, s) PROVE Kept
  <3>1. /\ UNCHANGED reviewVars /\ UNCHANGED config
        /\ server' = [excluded |-> [server.excluded EXCEPT ![p] = SymDiff(@, {s})],
                      revision |-> server.revision + 1]
    BY <2>1 DEF OtherSave, Change
  <3>2. SettingsFit' BY <3>1 DEF IInv, SettingsFit, Covered
  <3> QED BY <1>1, <3>1, <3>2
 <2>2. ASSUME NEW states, LiveChange(states) PROVE Kept BY <1>2, <2>2 DEF LiveChange, Change
 <2>3. ASSUME NEW e, Publish(e) PROVE Kept BY <1>2, <2>3 DEF Publish, Change
 <2>4. ASSUME NEW i, SourcesChange(i) PROVE Kept BY <1>2, <2>4 DEF SourcesChange, Change
 <2> QED BY <1>9, <2>1, <2>2, <2>3, <2>4 DEF OtherStep
<1> QED BY <1>3, <1>4, <1>5, <1>6, <1>7, <1>8, <1>9 DEF Next

(* The invariant holds throughout. *)
THEOREM Safety == Spec => []IInv
<1>1. IInv /\ [Next]_vars => IInv' BY Steps DEF Kept
<1> QED BY Initially, <1>1, PTL DEF Spec

(* Stop Monitoring does what was reviewed, in the dialog where it was.        *)
THEOREM ReviewedIsDone == Spec => StopsReviewed
<1>1. IInv => ReviewBelongsToDialog BY DEF IInv, ReviewsFit
<1>2. IInv /\ [Next]_vars => [SavesReviewed /\ ClosesAnswered]_vars BY Steps DEF Kept
<1> QED BY <1>1, <1>2, Safety, PTL DEF Spec, StopsReviewed

----------------------------------------------------------------------------
(* What an issue says: any sound list and report. *)

(* What the data on the screen always is. *)
DataSound(d) ==
    /\ ChecksAreCopies(d.rows)
    /\ EvidenceSound(d)
    /\ NotProvidedSound(d, d.rows)

(* A current failure is never hidden. *)
LEMMA FaultsAreVisible ==
    ASSUME NEW d, DataSound(d), NEW i \in d.issues, CurrentFault(d, i)
    PROVE  Visible(d, i)
<1> DEFINE a == i.anchor
<1> PICK f \in i.reasons :
        /\ Failing(f.status)
        /\ IF d.current[f.node] = None THEN Kind(d, a) # "entity_not_provided"
           ELSE Failing(d.current[f.node].status)
  BY DEF CurrentFault
<1>1. f.status # "pass" /\ f.status # "unknown" /\ f \in Outstanding(i) BY DEF Failing, Outstanding
<1>2. f.node \in MembersOf(i) /\ f.reason \notin Healthy BY DEF MembersOf, DataSound, EvidenceSound
<1>3. a \in MembersOf(i) /\ f.node \in DOMAIN d.current
  BY <1>2 DEF MembersOf, DataSound, EvidenceSound
<1>4. CASE a \notin DOMAIN d.rows BY <1>4 DEF Visible
<1>5. CASE a \in DOMAIN d.rows /\ d.rows[a].kind = "entity_not_provided"
 <2>1. Kind(d, a) = "entity_not_provided" BY <1>5 DEF Kind
 <2>2. f.node = a /\ Failing(i.status) BY <1>5 DEF DataSound, NotProvidedSound
 <2>3. d.current[a] # None /\ Failing(d.current[a].status) BY <2>1, <2>2
 <2>4. d.current[a].status = "warn" /\ d.current[a].reason = "entity_not_provided"
   BY <1>5, <2>3 DEF DataSound, NotProvidedSound
 <2> QED BY <1>5, <2>2, <2>3, <2>4 DEF Visible, NotProvidedVisible
<1>6. CASE a \in DOMAIN d.rows /\ d.rows[a].kind # "entity_not_provided"
 <2>1. ~WaitingOnly(d, i) BY <1>2 DEF WaitingOnly
 <2>2. ~AvailabilityEvidenceGap(d, i) BY <1>1 DEF AvailabilityEvidenceGap
 <2>3. CASE f.node # a BY <1>1, <1>6, <2>1, <2>2, <2>3 DEF Visible
 <2>4. CASE f.node = a
  <3>1. CurrentReason(d, i) \notin Healthy
   <4>1. CASE d.rows[a].kind = "entity" /\ d.rows[a].disabled BY <4>1 DEF CurrentReason, Healthy
   <4>2. CASE ~(d.rows[a].kind = "entity" /\ d.rows[a].disabled) /\ d.current[a] # None
    <5>1. CurrentReason(d, i) = d.current[a].reason BY <4>2 DEF CurrentReason
    <5> QED BY <1>3, <2>4, <4>2, <5>1 DEF DataSound, EvidenceSound
   <4>3. CASE ~(d.rows[a].kind = "entity" /\ d.rows[a].disabled) /\ d.current[a] = None
    <5> DEFINE own == {g \in i.reasons : g.node = a}
    <5>1. f \in own BY <2>4
    <5>2. \A g \in own : g = f BY <2>4 DEF DataSound, EvidenceSound
    <5>3. (CHOOSE g \in own : TRUE) = f BY <5>1, <5>2
    <5>4. CurrentReason(d, i) = (CHOOSE g \in own : TRUE).reason BY <4>3, <5>1 DEF CurrentReason
    <5> QED BY <1>2, <5>3, <5>4
   <4> QED BY <4>1, <4>2, <4>3
  <3>2. ~Recovering(d, i) /\ CurrentReason(d, i) # "value_unknown" BY <3>1 DEF Recovering, Healthy
  <3> QED BY <1>6, <2>1, <2>2, <3>2 DEF Visible
 <2> QED BY <2>3, <2>4
<1> QED BY <1>4, <1>5, <1>6

(* A listed issue has a button. *)
LEMMA ListedOpens ==
    ASSUME NEW d, NEW scope, NEW i \in Listing(d, scope)
    PROVE  \E target \in Buttons(d, scope) : i \in Dialog(d, target)
<1>1. i \in d.issues /\ i \in VisibleIssues(d) BY DEF Listing, Included, VisibleIssues
<1>2. PICK v \in Headings(d, i) : TRUE BY DEF Headings, Divided
<1> DEFINE own == OwningDevice(d, i)
           target == IF RowOpens(d, scope, v, i) THEN RowTarget(d, scope, i) ELSE <<"device", v>>
<1>3. target \in Buttons(d, scope) BY <1>2 DEF Buttons
<1>4. own # None => i \in Dialog(d, <<"device", own>>) BY <1>1 DEF Dialog, RelatedDeviceIssues
<1>5. i \in Dialog(d, <<"issue", i.id>>) BY <1>1 DEF Dialog
<1>6. CASE RowOpens(d, scope, v, i) BY <1>3, <1>4, <1>5, <1>6 DEF RowTarget
<1>7. CASE ~RowOpens(d, scope, v, i)
 <2>1. own = v /\ v # None BY <1>7 DEF RowOpens, Combined
 <2> QED BY <1>3, <1>4, <1>7, <2>1
<1> QED BY <1>6, <1>7

(* A check and its source are on the same device. *)
LEMMA SameDevice ==
    ASSUME NEW d, ChecksAreCopies(d.rows), NEW id
    PROVE  LET m == Canonical(d, id)
           IN  /\ DeviceContext(d, m) = DeviceContext(d, id)
               /\ m \in DOMAIN d.rows <=> id \in DOMAIN d.rows
               /\ m \in DOMAIN d.rows /\ d.rows[m].devices # <<>> /\ DeviceContext(d, m) # None =>
                      DeviceContext(d, m) = Head(d.rows[m].devices)
<1> DEFINE m == Canonical(d, id)
<1>1. CASE id \in DOMAIN d.rows /\ d.rows[id].source # None
 <2>1. /\ m = d.rows[id].source /\ m \in DOMAIN d.rows /\ d.rows[m].source = None
       /\ d.rows[m].devices = d.rows[id].devices
   BY <1>1 DEF Canonical, ChecksAreCopies
 <2>2. Canonical(d, m) = m BY <2>1 DEF Canonical
 <2> QED BY <1>1, <2>1, <2>2 DEF DeviceContext
<1>2. CASE ~(id \in DOMAIN d.rows /\ d.rows[id].source # None)
 <2>1. m = id BY <1>2 DEF Canonical
 <2> QED BY <2>1 DEF DeviceContext
<1> QED BY <1>1, <1>2

(* Where all related findings are on one device, that is the one named. *)
LEMMA OneDeviceNamed ==
    ASSUME NEW d, ChecksAreCopies(d.rows), NEW x, NEW devices, None \notin devices,
           \A f \in RelatedFindings(x) : DeviceContext(d, f.node) \in devices,
           RowDevice(d, x) # None
    PROVE  RowDevice(d, x) \in devices
<1> DEFINE g == CHOOSE g \in RelatedGroups(d, x) : TRUE
<1>1. RelatedGroups(d, x) # {} BY FS_EmptySet DEF RowDevice
<1>2. g \in RelatedGroups(d, x) /\ g[1] = "device" /\ RowDevice(d, x) = g[2] BY <1>1 DEF RowDevice
<1>3. PICK m \in RelatedMembers(d, x) : g = RelatedGroup(d, x, m) BY <1>2 DEF RelatedGroups
<1> DEFINE r == Described(d, x, m)
<1>4. /\ Kind(d, r) \in {"device", "entity"} /\ d.rows[r].devices # <<>>
      /\ g[2] = Head(d.rows[r].devices)
 <2> DEFINE named == Kind(d, r) \in {"device", "entity"} /\ d.rows[r].devices # <<>>
            first == Head(d.rows[r].devices)
 <2>1. RelatedGroup(d, x, m) = IF named THEN <<"device", first>> ELSE <<"source", m>>
   BY DEF RelatedGroup
 <2>2. g[1] = "device" /\ g = IF named THEN <<"device", first>> ELSE <<"source", m>>
   BY <1>2, <1>3, <2>1
 <2> HIDE DEF g, first
 <2>3. named BY <2>2
 <2>4. g[2] = first BY <2>2, <2>3
 <2> QED BY <2>3, <2>4 DEF first
<1>5. r \in DOMAIN d.rows BY <1>4 DEF Kind
<1>6. PICK f \in RelatedFindings(x) : Canonical(d, f.node) = m BY DEF RelatedMembers
<1>7. m \in DOMAIN d.rows
 <2> SUFFICES ASSUME m \notin DOMAIN d.rows PROVE FALSE OBVIOUS
 <2> DEFINE h == CHOOSE h \in RelatedFindings(x) : Canonical(d, h.node) = m
 <2>1. h \in RelatedFindings(x) /\ Canonical(d, h.node) = m BY <1>6
 <2>2. r = h.node BY DEF Described
 <2> QED BY <1>5, <2>1, <2>2, SameDevice
<1>8. r = m BY <1>7 DEF Described
<1>9. DeviceContext(d, m) \in devices BY <1>6, SameDevice
<1>10. DeviceContext(d, m) = Head(d.rows[m].devices)
 <2>1. m = Canonical(d, f.node) /\ d.rows[m].devices # <<>> /\ DeviceContext(d, m) # None
   BY <1>4, <1>6, <1>8, <1>9
 <2> QED BY <1>7, <2>1, SameDevice
<1> QED BY <1>2, <1>4, <1>8, <1>9, <1>10

(* The findings of a row are about the device it is below. *)
LEMMA RowIsOfDevice ==
    ASSUME NEW d, NEW i, NEW device \in Headings(d, i)
    PROVE  LET row == RowUnder(d, i, device)
           IN  /\ row.anchor = i.anchor /\ CurrentReason(d, row) = CurrentReason(d, i)
               /\ row.shared \in BOOLEAN /\ (row.shared <=> Divided(d, i))
               /\ device # None => \A f \in RelatedFindings(row) : DeviceContext(d, f.node) = device
               /\ ~row.shared => RelatedFindings(row) = RelatedFindings(i)
<1> DEFINE here == {id \in Contributors(d, i) : DeviceContext(d, id) = device}
           found == {f \in i.reasons : f.node \in here \cup {i.anchor}}
           row == RowUnder(d, i, device)
<1>1. CASE Divided(d, i)
 <2>1. row = RowOf(i, TRUE, here, found) BY <1>1 DEF RowUnder
 <2>2. row.anchor = i.anchor /\ row.shared = TRUE /\ row.reasons = found BY <2>1 DEF RowOf
 <2>3. {f \in row.reasons : f.node = i.anchor} = {f \in i.reasons : f.node = i.anchor} BY <2>2
 <2>4. CurrentReason(d, row) = CurrentReason(d, i)
  <3> DEFINE own(x) == {f \in x.reasons : f.node = x.anchor}
             gone(a) == d.rows[a].kind = "entity" /\ d.rows[a].disabled
             reason(a, of) ==
                 CASE gone(a) -> "disabled"
                   [] ~gone(a) /\ d.current[a] # None -> d.current[a].reason
                   [] OTHER -> IF of = {} THEN "unknown" ELSE (CHOOSE f \in of : TRUE).reason
  <3>1. \A x : CurrentReason(d, x) = reason(x.anchor, own(x)) BY Zenon DEF CurrentReason
  <3>2. own(row) = own(i) /\ row.anchor = i.anchor BY <2>2, <2>3
  <3> HIDE DEF own, reason, row
  <3> QED BY <3>1, <3>2, Zenon
 <2>5. \A f \in RelatedFindings(row) : DeviceContext(d, f.node) = device
   BY <2>2 DEF RelatedFindings, Outstanding
 <2> QED BY <1>1, <2>2, <2>4, <2>5
<1>2. CASE ~Divided(d, i)
 <2>1. row = RowOf(i, FALSE, i.recorded, i.reasons) BY <1>2 DEF RowUnder
 <2>2. row.anchor = i.anchor /\ row.shared = FALSE /\ row.reasons = i.reasons BY <2>1 DEF RowOf
 <2>3. CurrentReason(d, row) = CurrentReason(d, i) BY <2>2 DEF CurrentReason
 <2>4. RelatedFindings(row) = RelatedFindings(i) BY <2>2 DEF RelatedFindings, Outstanding
 <2>5. device = EpisodeDevice(d, i) BY <1>2 DEF Headings
 <2>6. device # None => \A id \in Contributors(d, i) : DeviceContext(d, id) = device
   BY <2>5 DEF EpisodeDevice, Contributors
 <2>7. \A f \in RelatedFindings(i) : f.node \in Contributors(d, i)
   BY DEF RelatedFindings, Outstanding, Contributors, MembersOf
 <2> QED BY <1>2, <2>2, <2>3, <2>4, <2>6, <2>7
<1> QED BY <1>1, <1>2

(* What is said alone is not what is said of something. *)
LEMMA OneWord == \A w, x, y : <<w>> # <<x, y>>
  OBVIOUS

(* A connection is said to recover when it runs and nothing else was found. *)
LEMMA RunsAgain ==
    ASSUME NEW d, NEW row, ConnectionCondition(d, row) = <<"confirming recovery">>
    PROVE  Loaded(d, row) /\ RelatedFindings(row) = {}
<1>1. CASE ~Loaded(d, row)
 <2>1. ConnectionCondition(d, row) = <<"reported", CurrentReason(d, row)>>
   BY <1>1, Zenon DEF ConnectionCondition
 <2> QED BY <2>1, OneWord, Zenon
<1>2. CASE Loaded(d, row) /\ RelatedFindings(row) # {}
 <2>1. ConnectionCondition(d, row) = <<"attention", RelatedMembers(d, row)>>
   BY <1>2, Zenon DEF ConnectionCondition
 <2> QED BY <2>1, OneWord, Zenon
<1> QED BY <1>1, <1>2

(* What the row below a heading says agrees with what is known. *)
LEMMA RowSpeaksTrue ==
    ASSUME NEW d, DataSound(d), NEW i \in VisibleIssues(d), NEW device \in Headings(d, i)
    PROVE  RowTruthful(d, i, device)
<1> DEFINE row == RowUnder(d, i, device)
           said == Condition(d, row)
           here == {id \in Contributors(d, i) : DeviceContext(d, id) = device}
<1>1. /\ row.anchor = i.anchor /\ CurrentReason(d, row) = CurrentReason(d, i)
      /\ row.shared \in BOOLEAN /\ (row.shared <=> Divided(d, i))
      /\ device # None => \A f \in RelatedFindings(row) : DeviceContext(d, f.node) = device
      /\ ~row.shared => RelatedFindings(row) = RelatedFindings(i)
  BY RowIsOfDevice
<1>2. ChecksAreCopies(d.rows) BY DEF DataSound
<1>3. Kind(d, i.anchor) = "integration" => said # <<"confirming recovery">>
 <2> SUFFICES ASSUME Kind(d, i.anchor) = "integration", said = <<"confirming recovery">> PROVE FALSE
   OBVIOUS
 <2>1. said = ConnectionCondition(d, row) /\ ~(row.shared /\ RelatedFindings(row) = {})
   BY <1>1 DEF Condition, SharedCondition
 <2>2. Loaded(d, row) /\ RelatedFindings(row) = {} BY <2>1, RunsAgain
 <2>3. RelatedFindings(i) = {} BY <1>1, <2>1, <2>2
 <2>4. i.anchor \in DOMAIN d.rows /\ d.rows[i.anchor].kind = "integration" BY DEF Kind
 <2>5. Recovering(d, i) BY <1>1, <2>2, <2>4 DEF Recovering, Loaded
 <2>6. ~\E f \in Outstanding(i) : f.node # i.anchor BY <2>3 DEF RelatedFindings
 <2>7. ~Visible(d, i) BY <2>4, <2>5, <2>6 DEF Visible
 <2> QED BY <2>7 DEF VisibleIssues
<1>4. ASSUME said = <<"available">>, NEW id \in Contributors(d, i), DeviceContext(d, id) = device
      PROVE  d.current[id] # None /\ d.current[id].status = "pass"
 <2>1. said = SharedCondition(d, row) /\ row.shared
   BY <1>4 DEF Condition, OwnCondition, ConnectionCondition
 <2>2. row.recorded = here BY <1>1, <2>1 DEF RowUnder, RowOf
 <2>3. id \in row.recorded \ {row.anchor} BY <1>1, <1>4, <2>2 DEF Contributors
 <2> QED BY <1>4, <2>1, <2>3 DEF SharedCondition
<1>5. ASSUME device # None, said[1] \in {"attention", "unavailable"}, NEW m \in said[2]
      PROVE  DeviceContext(d, m) = device
 <2>1. said[2] \subseteq RelatedMembers(d, row)
  <3>1. \/ said = <<"attention", RelatedMembers(d, row)>>
        \/ said = <<"unavailable", UnavailableEntities(d, row)>>
   <4>1. CASE Kind(d, row.anchor) # "integration" BY <1>5, <4>1 DEF Condition, OwnCondition
   <4>2. CASE Kind(d, row.anchor) = "integration"
     BY <1>5, <4>2 DEF Condition, SharedCondition, ConnectionCondition
   <4> QED BY <4>1, <4>2
  <3> QED BY <3>1 DEF UnavailableEntities
 <2>2. PICK f \in RelatedFindings(row) : m = Canonical(d, f.node) BY <1>5, <2>1 DEF RelatedMembers
 <2> QED BY <1>1, <1>2, <1>5, <2>2, SameDevice
<1>6. ASSUME device # None PROVE RowDevice(d, row) \in {None, device}
 <2>1. None \notin {device} /\ \A f \in RelatedFindings(row) : DeviceContext(d, f.node) \in {device}
   BY <1>1, <1>6
 <2>2. RowDevice(d, row) # None => RowDevice(d, row) \in {device}
  <3> HIDE DEF row
  <3> QED BY <1>2, <2>1, OneDeviceNamed
 <2> QED BY <2>2
<1> QED BY <1>3, <1>4, <1>5, <1>6 DEF RowTruthful

(* A dialog is titled by a device the issue is listed below. *)
LEMMA TitleIsHeading ==
    ASSUME NEW d, DataSound(d), NEW i, None \notin Headings(d, i)
    PROVE  DialogTitle(d, i) \in Headings(d, i) \cup {Canonical(d, i.anchor), "Entity availability"}
<1> SUFFICES ASSUME RowDevice(d, i) # None PROVE RowDevice(d, i) \in Headings(d, i)
  BY DEF DialogTitle
<1>1. \A f \in RelatedFindings(i) : f.node \in Contributors(d, i)
  BY DEF RelatedFindings, Outstanding, Contributors, MembersOf
<1>2. \A id \in Contributors(d, i) : DeviceContext(d, id) \in Headings(d, i)
 <2>1. CASE Divided(d, i) BY <2>1 DEF Headings, Owners
 <2>2. CASE ~Divided(d, i)
  <3>1. EpisodeDevice(d, i) # None /\ Headings(d, i) = {EpisodeDevice(d, i)} BY <2>2 DEF Headings
  <3>2. \A id \in Contributors(d, i) : DeviceContext(d, id) = EpisodeDevice(d, i)
    BY <3>1 DEF EpisodeDevice, Contributors
  <3> QED BY <3>1, <3>2
 <2> QED BY <2>1, <2>2
<1>3. ChecksAreCopies(d.rows) BY DEF DataSound
<1> QED BY <1>1, <1>2, <1>3, OneDeviceNamed

(* A dialog names all of an issue's members by their sources. *)
LEMMA DialogNamesAll ==
    ASSUME NEW d, NEW i, NEW id \in MembersOf(i)
    PROVE  Canonical(d, id) \in DialogSources(d, i)
BY DEF DialogSources, Recorded

(* What is on the screen is one of the lists and one of the reports. *)
DataFits ==
    /\ catalog = [inventory |-> catalog.inventory, loaded |-> catalog.loaded]
    /\ catalog.inventory \in DOMAIN Inventories
    /\ report = [evidence |-> report.evidence, excluded |-> report.excluded, revision |-> report.revision]
    /\ report.evidence \in DOMAIN Evidence

(* The list and the report keep their promises on the screen. *)
LEMMA DataIsSound ==
    ASSUME DataFits
    PROVE  DataSound(Data)
<1> DEFINE inventory == Inventories[catalog.inventory]
           evidence == Evidence[report.evidence]
<1>1. Data.rows = inventory.rows /\ Rows = inventory.rows
 <2>1. Lists[catalog.inventory] = ListOf(inventory, CanonicalIn(inventory))
   BY CachesAreBuilt DEF DataFits
 <2> QED BY <2>1 DEF Data, Rows, ListOf
<1>2. Data.current = evidence.current /\ Data.issues \subseteq evidence.issues BY DEF Data
<1>3. ChecksAreCopies(inventory.rows) BY InventoriesAssumption DEF DataFits
<1>4. EvidenceSound(evidence) /\ NotProvidedSound(evidence, inventory.rows)
  BY EvidenceAssumption DEF DataFits
<1> HIDE DEF inventory, evidence
<1> QED BY <1>1, <1>2, <1>3, <1>4 DEF DataSound, EvidenceSound, NotProvidedSound

(* A dialog names what stopping would take from it. *)
LEMMA StoppedAreNamed ==
    ASSUME DataFits
    PROVE  StopsNamed
<1> DEFINE d == Data
<1> SUFFICES ASSUME NEW s \in IssueSources(OpenedIssues)
             PROVE  \E i \in OpenedIssues : s \in DialogSources(d, i)
  BY DEF StopsNamed
<1>1. PICK id \in UNION {{i.anchor} \cup {f.node : f \in i.reasons} : i \in OpenedIssues} :
        /\ id \in DOMAIN d.rows /\ s = d.rows[id].source /\ s \in DOMAIN d.rows
  BY DEF IssueSources
<1>2. PICK i \in OpenedIssues : id \in MembersOf(i) BY <1>1 DEF MembersOf
<1>3. s # None BY <1>1, DataIsSound DEF DataSound, ChecksAreCopies
<1>4. s = Canonical(d, id) BY <1>1, <1>3 DEF Canonical
<1> QED BY <1>2, <1>4, DialogNamesAll

(* All of it, for what is on the screen. *)
LEMMA Presented ==
    ASSUME DataFits
    PROVE  IssuesPresented
<1> DEFINE d == Data
<1>1. DataSound(d) BY DataIsSound
<1> HIDE DEF d
<1>2. \A i \in d.issues : CurrentFault(d, i) => Visible(d, i) BY <1>1, FaultsAreVisible
<1>3. \A scope \in Scopes : \A i \in Listing(d, scope) :
          \E target \in Buttons(d, scope) : i \in Dialog(d, target)
  BY ListedOpens
<1>4. \A i \in VisibleIssues(d) : \A device \in Headings(d, i) : RowTruthful(d, i, device)
  BY <1>1, RowSpeaksTrue
<1>5. \A i \in VisibleIssues(d) : None \notin Headings(d, i) =>
          DialogTitle(d, i) \in Headings(d, i) \cup {Canonical(d, i.anchor), "Entity availability"}
  BY <1>1, TitleIsHeading
<1>6. StopsNamed BY StoppedAreNamed
<1>7. FaultsStayVisible /\ EveryIssueOpens BY <1>2, <1>3 DEF d, FaultsStayVisible, EveryIssueOpens
<1>8. RowsTruthful BY <1>4, <1>5 DEF d, RowsTruthful
<1> QED BY <1>6, <1>7, <1>8 DEF IssuesPresented

----------------------------------------------------------------------------
(* The list, the report and the page of a session. *)

(* A page. *)
PageShape(p) ==
    /\ p = [grouping |-> p.grouping, selection |-> p.selection, expanded |-> p.expanded,
            limits |-> p.limits, showDisabled |-> p.showDisabled, filter |-> p.filter]
    /\ p.showDisabled \in BOOLEAN

(* The page shows one of the lists below one of the groupings, and locations  *)
(* only while they can be used.                                               *)
PageFits ==
    /\ PageShape(page) /\ page.grouping \in Groupings
    /\ topology = [response |-> topology.response, loaded |-> topology.loaded, loading |-> topology.loading]
    /\ topology.response \in Responses
    /\ GroupingUsable

(* Finding the selection again keeps everything else the page was set to. *)
LEMMA RevealKeeps ==
    ASSUME NEW p, PageShape(p), NEW cat, NEW top
    PROVE  /\ PageShape(Reveal(p, cat, top)) /\ Reveal(p, cat, top).grouping = p.grouping
           /\ PageShape(RevealSearch(p, cat, top)) /\ RevealSearch(p, cat, top).grouping = p.grouping
<1>1. PICK key, expanded :
          Reveal(p, cat, top) \in {p, [p EXCEPT !.selection = key, !.expanded = expanded]}
  BY DEF Reveal
<1>2. PICK opened : RevealSearch(p, cat, top) \in {p, [p EXCEPT !.expanded = opened]}
  BY DEF RevealSearch
<1>3. PageShape(Reveal(p, cat, top)) /\ Reveal(p, cat, top).grouping = p.grouping
  BY <1>1 DEF PageShape
<1>4. PageShape(RevealSearch(p, cat, top)) /\ RevealSearch(p, cat, top).grouping = p.grouping
  BY <1>2 DEF PageShape
<1> QED BY <1>3, <1>4

(* Locations nobody can use are left as soon as that is known. *)
LEMMA TopologyIsLeft ==
    ASSUME NEW p, PageShape(p), p.grouping \in Groupings, NEW cat, NEW top
    PROVE  LET q == LeaveTopology(p, cat, top)
           IN  /\ PageShape(q) /\ q.grouping \in Groupings
               /\ cat.loaded /\ top.loaded /\ q.grouping = "topomation" => Usable(top.response)
BY DEF PageShape, LeaveTopology, Groupings

(* Browsing, which leaves the lists and the locations alone. *)
LEMMA PageSetKeeps ==
    ASSUME PageFits, UNCHANGED <<catalog, topology>>, PageShape(page'),
           page'.grouping = page.grouping
    PROVE  PageFits'
BY DEF PageFits, PageShape, GroupingUsable, Groupings, Usable, Locations, LocationOf

(* The user browses, or locations arrive. *)
LEMMA BrowsingKeeps ==
    ASSUME PageFits, PageStep
    PROVE  PageFits'
<1> USE DEF Page, Browse
<1>1. ASSUME NEW g \in Groupings, GroupBy(g) PROVE PageFits'
 <2> DEFINE p == [page EXCEPT !.grouping = g]
 <2>1. PageShape(p) /\ p.grouping = g BY DEF PageFits, PageShape
 <2>2. page' = Reveal(p, catalog, topology) /\ UNCHANGED <<catalog, topology>> BY <1>1 DEF GroupBy
 <2>3. g = "topomation" => Usable(topology.response) BY <1>1 DEF GroupBy
 <2> HIDE DEF p
 <2>4. PageShape(page') /\ page'.grouping = g BY <2>1, <2>2, RevealKeeps
 <2> QED BY <2>2, <2>3, <2>4 DEF PageFits, PageShape, GroupingUsable
<1>2. ASSUME NEW key, SelectRow(key) PROVE PageFits'
 <2> DEFINE p == [page EXCEPT !.selection = key]
 <2>1. PageShape(p) /\ p.grouping = page.grouping BY DEF PageFits, PageShape
 <2>2. page' = Reveal(p, catalog, topology) /\ UNCHANGED <<catalog, topology>> BY <1>2 DEF SelectRow
 <2> HIDE DEF p
 <2> QED BY <2>1, <2>2, RevealKeeps, PageSetKeeps
<1>3. ASSUME NEW s, Search(s) PROVE PageFits'
 <2> DEFINE p == [page EXCEPT !.filter.query = s]
 <2>1. PageShape(p) /\ p.grouping = page.grouping BY DEF PageFits, PageShape
 <2>2. page' = RevealSearch(p, catalog, topology) /\ UNCHANGED <<catalog, topology>>
   BY <1>3 DEF Search
 <2> HIDE DEF p
 <2> QED BY <2>1, <2>2, RevealKeeps, PageSetKeeps
<1>4. ASSUME NEW key, Toggle(key) \/ Collapse \/ More(key) \/ ShowDisabled \/ FilterBy(key) PROVE PageFits'
 <2>1. PageShape(page') /\ page'.grouping = page.grouping
   BY <1>4 DEF Toggle, Collapse, More, ShowDisabled, FilterBy, PageFits, PageShape
 <2>2. UNCHANGED <<catalog, topology>> BY <1>4 DEF Toggle, Collapse, More, ShowDisabled, FilterBy
 <2> QED BY <2>1, <2>2, PageSetKeeps
<1>5. CASE Reconnect BY <1>5 DEF Reconnect, PageFits, PageShape, GroupingUsable
<1>6. ASSUME NEW t \in Responses, TopologyReply(t) PROVE PageFits'
 <2> DEFINE top == [response |-> t, loaded |-> TRUE, loading |-> FALSE]
            left0 == LeaveTopology(page, catalog, top)
 <2>1. topology' = top /\ page' = Reveal(left0, catalog, top) /\ UNCHANGED catalog
   BY <1>6 DEF TopologyReply
 <2>2. /\ PageShape(left0) /\ left0.grouping \in Groupings
       /\ catalog.loaded /\ top.loaded /\ left0.grouping = "topomation" => Usable(top.response)
   BY TopologyIsLeft DEF PageFits
 <2>3. topology'.response \in Responses /\ topology' = [response |-> topology'.response, loaded |-> topology'.loaded, loading |-> topology'.loading]
   BY <2>1
 <2> HIDE DEF top, left0
 <2>4. PageShape(page') /\ page'.grouping = left0.grouping BY <2>1, <2>2, RevealKeeps
 <2> QED BY <2>1, <2>2, <2>3, <2>4 DEF PageFits, PageShape, GroupingUsable
<1> QED BY <1>1, <1>2, <1>3, <1>4, <1>5, <1>6 DEF PageStep, Browsing

(* A source list arrives or changes. *)
LEMMA ListsKeep ==
    ASSUME PageFits, NEW i, CatalogArrives(i) \/ CatalogChanges(i)
    PROVE  PageFits'
<1>1. CASE CatalogArrives(i)
 <2> DEFINE cat == [inventory |-> i, loaded |-> TRUE]
            revealed == Reveal(page, cat, topology)
            searched == RevealSearch(revealed, cat, topology)
            kept == LeaveTopology(searched, cat, topology)
 <2>1. catalog' = cat /\ UNCHANGED topology /\ page' \in {kept, Reveal(kept, cat, topology)}
   BY <1>1 DEF CatalogArrives
 <2>2. PageShape(revealed) /\ revealed.grouping \in Groupings BY RevealKeeps DEF PageFits
 <2>3. PageShape(searched) /\ searched.grouping \in Groupings
  <3> HIDE DEF revealed
  <3> QED BY <2>2, RevealKeeps
 <2>4. /\ PageShape(kept) /\ kept.grouping \in Groupings
       /\ cat.loaded /\ topology.loaded /\ kept.grouping = "topomation" => Usable(topology.response)
  <3> HIDE DEF searched
  <3> QED BY <2>3, TopologyIsLeft
 <2>5. cat.loaded OBVIOUS
 <2>6. PageShape(page') /\ page'.grouping = kept.grouping
  <3> HIDE DEF kept
  <3> QED BY <2>1, <2>4, RevealKeeps
 <2> HIDE DEF kept, cat
 <2> QED BY <2>1, <2>4, <2>5, <2>6 DEF PageFits, PageShape, GroupingUsable
<1>2. CASE CatalogChanges(i)
 <2> DEFINE kept == LeaveTopology(page, catalog, topology)
 <2>1. catalog.loaded /\ catalog' = [catalog EXCEPT !.inventory = i] /\ UNCHANGED topology /\ page' = kept
   BY <1>2 DEF CatalogChanges
 <2>2. /\ PageShape(kept) /\ kept.grouping \in Groupings
       /\ catalog.loaded /\ topology.loaded /\ kept.grouping = "topomation" => Usable(topology.response)
   BY TopologyIsLeft DEF PageFits
 <2> HIDE DEF kept
 <2> QED BY <2>1, <2>2 DEF PageFits, PageShape, GroupingUsable
<1> QED BY <1>1, <1>2

(* A session begins with one of the lists, one of the reports and a new page. *)
THEOREM ShownInitially == Init => DataFits /\ PageFits
<1> SUFFICES ASSUME Init PROVE DataFits /\ PageFits OBVIOUS
<1> PICK o \in Openings :
        PageInit(o) /\ report = [evidence |-> o.evidence, excluded |-> o.excluded, revision |-> 0]
  BY DEF Init
<1>1. o.inventory \in DOMAIN Inventories /\ o.evidence \in DOMAIN Evidence BY OpeningsAssumption
<1>2. DataFits BY <1>1 DEF DataFits, PageInit
<1>3. PageFits BY ResponsesAssumption DEF PageFits, PageShape, PageInit, GroupingUsable
<1> QED BY <1>2, <1>3

(* Every step leaves the screen with a list, a report and a page that fits.    *)
THEOREM ShownKept == DataFits /\ PageFits /\ [Next]_vars => DataFits' /\ PageFits'
<1> SUFFICES ASSUME DataFits, PageFits, [Next]_vars PROVE DataFits' /\ PageFits' OBVIOUS
<1>1. ASSUME UNCHANGED pageVars PROVE PageFits'
  BY <1>1 DEF pageVars, PageFits, PageShape, GroupingUsable
<1>2. ASSUME UNCHANGED <<catalog, report>> PROVE DataFits' BY <1>2 DEF DataFits
<1>3. CASE UNCHANGED vars BY <1>1, <1>2, <1>3 DEF vars, pageVars
<1>4. CASE PageStep
 <2>1. UNCHANGED <<catalog, report>>
   BY <1>4 DEF PageStep, Browsing, Page, GroupBy, SelectRow, Toggle, More, Collapse, ShowDisabled,
               Reconnect, Search, FilterBy, TopologyReply
 <2> QED BY <1>2, <1>4, <2>1, BrowsingKeeps
<1>5. CASE LinkStep
 <2>1. PICK s \in DOMAIN Rows : FollowLink(s) BY <1>5 DEF LinkStep
 <2> DEFINE p == [page EXCEPT !.selection = SourceKey(s)]
 <2>2. PageShape(p) /\ p.grouping = page.grouping BY DEF PageFits, PageShape
 <2>3. page' = Reveal(p, catalog, topology) /\ UNCHANGED <<catalog, topology, report>>
   BY <2>1 DEF FollowLink, SourceLink, Page
 <2> HIDE DEF p
 <2> QED BY <1>2, <2>2, <2>3, RevealKeeps, PageSetKeeps
<1>6. CASE UserStep
 <2>1. UNCHANGED <<pageVars, report>>
   BY <1>6 DEF UserStep, OpenDialog, CloseDialog, Review, CancelReview, ConfirmReview, Offer,
               ChooseMembers, TickMember, CancelOffer, ConfirmOffer, ReadSaved, DetailsAct, Act
 <2> QED BY <1>1, <1>2, <2>1 DEF pageVars
<1>7. CASE CardStep \/ ReadStep
 <2>1. UNCHANGED <<pageVars, report>> BY <1>7 DEF CardStep, ReadStep
 <2> QED BY <1>1, <1>2, <2>1 DEF pageVars
<1>8. CASE OtherStep
 <2>1. ASSUME NEW p, NEW s, OtherSave(p, s) PROVE DataFits' /\ PageFits'
   BY <1>1, <1>2, <2>1 DEF OtherSave, pageVars
 <2>2. ASSUME NEW states, LiveChange(states) PROVE DataFits' /\ PageFits'
   BY <1>1, <1>2, <2>2 DEF LiveChange, pageVars
 <2>3. ASSUME NEW e \in DOMAIN Evidence, Publish(e) PROVE DataFits' /\ PageFits'
  <3>1. UNCHANGED pageVars BY <2>3 DEF Publish
  <3>2. DataFits' BY <2>3, <3>1 DEF Publish, pageVars, DataFits
  <3> QED BY <1>1, <3>1, <3>2
 <2>4. ASSUME NEW i \in DOMAIN Inventories, SourcesChange(i) PROVE DataFits' /\ PageFits'
  <3>1. CatalogArrives(i) \/ CatalogChanges(i) BY <2>4 DEF SourcesChange
  <3>2. catalog' = [inventory |-> i, loaded |-> catalog'.loaded]
    BY <3>1 DEF CatalogArrives, CatalogChanges, DataFits
  <3>3. report' = [evidence |-> report.evidence, excluded |-> report'.excluded, revision |-> report'.revision]
    BY <2>4 DEF SourcesChange, DataFits
  <3>4. DataFits' BY <3>2, <3>3 DEF DataFits
  <3> QED BY <3>1, <3>4, ListsKeep
 <2> QED BY <1>8, <2>1, <2>2, <2>3, <2>4 DEF OtherStep
<1> QED BY <1>3, <1>4, <1>5, <1>6, <1>7, <1>8 DEF Next

(* What is on the screen is sound throughout. *)
THEOREM ShownSafety == Spec => [](DataFits /\ PageFits)
BY ShownInitially, ShownKept, PTL DEF Spec

(* An issue is listed, opens, and says what is known. *)
THEOREM IssuesArePresented == Spec => []IssuesPresented
<1>1. DataFits => IssuesPresented BY Presented
<1> QED BY <1>1, ShownSafety, PTL

----------------------------------------------------------------------------
(* The trees of the page: nodes are named by their keys. *)

(* A place in a tree: the keys from its root. *)
IsPath(p) == \E K : p \in Seq(K)

(* A place below another ends with its own key. *)
LEMMA LongerPath ==
    ASSUME NEW p, IsPath(p), NEW key
    PROVE  /\ IsPath(Append(p, key)) /\ Append(p, key) # <<>> /\ Last(Append(p, key)) = key
<1>1. PICK K : p \in Seq(K) BY DEF IsPath
<1>2. p \in Seq(K \cup {key}) /\ key \in K \cup {key} BY <1>1
<1>3. Append(p, key) \in Seq(K \cup {key}) BY <1>2
<1>4. Len(Append(p, key)) = Len(p) + 1 /\ Append(p, key)[Len(p) + 1] = key BY <1>2
<1>5. Append(p, key) # <<>> BY <1>2, <1>4
<1> QED BY <1>3, <1>4, <1>5 DEF IsPath, Last

(* The root, and a place at the top. *)
LEMMA ShortPaths ==
    ASSUME NEW key
    PROVE  IsPath(<<>>) /\ IsPath(<<key>>) /\ <<key>> # <<>> /\ Last(<<key>>) = key
<1>1. <<>> \in Seq({}) /\ <<key>> \in Seq({key}) OBVIOUS
<1>2. Len(<<key>>) = 1 /\ <<key>>[1] = key OBVIOUS
<1> QED BY <1>1, <1>2 DEF IsPath, Last

(* A node named as a source is that source, and what a node tells of is there *)
(* to be shown.                                                               *)
NodeSound(c, n) ==
    /\ IsPath(n.path) /\ n.path # <<>>
    /\ Key(n)[1] = "source" => n.source \in DOMAIN c /\ Key(n) = SourceKey(n.source)
    /\ n.connection \in DOMAIN c \cup {None}
TreeSound(c, nodes) == IsFiniteSet(nodes) /\ \A n \in nodes : NodeSound(c, n)

(* The sources are finitely many, and of some there is a first.               *)
SourcesSound(c) ==
    /\ IsFiniteSet(DOMAIN c)
    /\ \A some \in SUBSET DOMAIN c : some # {} => First(some) \in some

(* An empty tree is sound. *)
LEMMA TreeEmpty == \A c : TreeSound(c, {})
BY FS_EmptySet DEF TreeSound

(* Two sound trees are one. *)
LEMMA TreeUnion ==
    ASSUME NEW c, NEW S, TreeSound(c, S), NEW T, TreeSound(c, T)
    PROVE  TreeSound(c, S \cup T)
<1>1. IsFiniteSet(S \cup T) BY FS_Union DEF TreeSound
<1> QED BY <1>1 DEF TreeSound

(* The values of a function on a finite set are finitely many. *)
LEMMA FiniteValues ==
    ASSUME NEW S, IsFiniteSet(S), NEW f, DOMAIN f = S
    PROVE  IsFiniteSet({f[x] : x \in S})
<1> DEFINE T == {f[x] : x \in S}
           g == [x \in S |-> f[x]]
<1>1. g \in [S -> T] /\ \A y \in T : \E x \in S : g[x] = y OBVIOUS
<1>2. g \in Surjection(S, T) BY <1>1 DEF Surjection
<1> HIDE DEF g, T
<1>3. IsFiniteSet(T) BY <1>2, FS_Surjection
<1> QED BY <1>3 DEF T

(* Finitely many sound trees are one. *)
LEMMA TreeUnions ==
    ASSUME NEW c, NEW S, IsFiniteSet(S), NEW f, DOMAIN f = S, \A x \in S : TreeSound(c, f[x])
    PROVE  TreeSound(c, UNION {f[x] : x \in S})
<1> DEFINE T == {f[x] : x \in S}
<1>1. IsFiniteSet(T) BY FiniteValues
<1>2. \A s \in T : IsFiniteSet(s) BY DEF TreeSound
<1>3. IsFiniteSet(UNION T) BY <1>1, <1>2, FS_UNION
<1>4. \A n \in UNION T : NodeSound(c, n) BY DEF TreeSound
<1> QED BY <1>3, <1>4 DEF TreeSound

(* A tree of one sound node is sound. *)
LEMMA OneNode ==
    ASSUME NEW c, NEW n, NodeSound(c, n)
    PROVE  TreeSound(c, {n})
BY FS_Singleton DEF TreeSound

(* A heading is sound: its key is not that of a source. *)
LEMMA GroupNode ==
    ASSUME NEW c, NEW path, IsPath(path), path # <<>>, Last(path)[1] # "source"
    PROVE  NodeSound(c, Node(path, None))
BY DEF NodeSound, Node, Key

(* A row of a source is sound wherever it is. *)
LEMMA LeafSound ==
    ASSUME NEW c, NEW path, IsPath(path), NEW s \in DOMAIN c
    PROVE  NodeSound(c, Leaf(path, s)) /\ IsPath(Leaf(path, s).path)
<1> DEFINE at == Append(path, SourceKey(s))
<1>1. IsPath(at) /\ at # <<>> /\ Last(at) = SourceKey(s) BY LongerPath
<1>2. Leaf(path, s) = [path |-> at, source |-> s, connection |-> None] BY DEF Leaf, Node
<1> HIDE DEF at
<1> QED BY <1>1, <1>2 DEF NodeSound, Key

(* So are the rows of some sources. *)
LEMMA LeavesSound ==
    ASSUME NEW c, SourcesSound(c), NEW path, IsPath(path), NEW some \in SUBSET DOMAIN c
    PROVE  TreeSound(c, Leaves(path, some))
<1> DEFINE f == [s \in some |-> Leaf(path, s)]
<1>1. IsFiniteSet(some) BY FS_Subset DEF SourcesSound
<1>2. IsFiniteSet({f[s] : s \in some})
 <2> DOMAIN f = some OBVIOUS
 <2> HIDE DEF f
 <2> QED BY <1>1, FiniteValues
<1>3. Leaves(path, some) = {f[s] : s \in some} BY DEF Leaves
<1>4. \A n \in Leaves(path, some) : NodeSound(c, n) BY LeafSound DEF Leaves
<1> QED BY <1>2, <1>3, <1>4 DEF TreeSound

(* So is a device with its readings, named after its summary or not. *)
LEMMA DeviceSound ==
    ASSUME NEW c, SourcesSound(c), NEW path, IsPath(path), NEW device,
           NEW summaries \in SUBSET DOMAIN c, NEW readings \in SUBSET DOMAIN c,
           NEW connection \in DOMAIN c \cup {None}
    PROVE  TreeSound(c, DeviceNodes(c, path, device, summaries, readings, connection))
<1> DEFINE summary == {s \in summaries : DeviceOf(c[s]) = device}
           key == IF summary = {} THEN <<"device", device>> ELSE SourceKey(First(summary))
           at == Append(path, key)
           source == IF summary = {} THEN None ELSE First(summary)
           n == [path |-> at, source |-> source, connection |-> connection]
           under == {s \in readings : DeviceOf(c[s]) = device}
<1>1. DeviceNodes(c, path, device, summaries, readings, connection) = {n} \cup Leaves(at, under)
  BY DEF DeviceNodes
<1>2. summary # {} => First(summary) \in DOMAIN c BY DEF SourcesSound
<1>3. IsPath(at) /\ at # <<>> /\ Last(at) = key
 <2> HIDE DEF key
 <2> QED BY LongerPath
<1>4. key[1] = "source" => source \in DOMAIN c /\ key = SourceKey(source) BY <1>2
<1>5. NodeSound(c, n)
 <2> HIDE DEF at, key, source
 <2> QED BY <1>3, <1>4 DEF NodeSound, Key
<1>6. TreeSound(c, Leaves(at, under))
 <2> under \in SUBSET DOMAIN c OBVIOUS
 <2> HIDE DEF at, under
 <2> QED BY <1>3, LeavesSound
<1>7. TreeSound(c, {n}) BY <1>5, OneNode
<1> HIDE DEF n, under, at
<1> QED BY <1>1, <1>6, <1>7, TreeUnion

(* So is a titled list of sources. *)
LEMMA SectionSound ==
    ASSUME NEW c, SourcesSound(c), NEW id, NEW some \in SUBSET DOMAIN c
    PROVE  TreeSound(c, Section(id, some))
<1> DEFINE path == <<<<"section", id>>>>
<1>1. IsPath(path) /\ path # <<>> /\ Last(path)[1] # "source"
 <2>1. IsPath(path) /\ path # <<>> /\ Last(path) = <<"section", id>> BY ShortPaths
 <2> QED BY <2>1
<1>2. Section(id, some) \in {{}, {Node(path, None)} \cup Leaves(path, some)} BY DEF Section
<1> HIDE DEF path
<1>3. TreeSound(c, {Node(path, None)}) /\ TreeSound(c, Leaves(path, some))
  BY <1>1, GroupNode, OneNode, LeavesSound
<1>4. TreeSound(c, {Node(path, None)} \cup Leaves(path, some)) BY <1>3, TreeUnion
<1> QED BY <1>2, <1>4, TreeEmpty

(* Some sources have finitely many devices. *)
LEMMA FewDevices ==
    ASSUME NEW c, SourcesSound(c), NEW some \in SUBSET DOMAIN c
    PROVE  IsFiniteSet(Devices(c, some))
<1> DEFINE f == [s \in some |-> DeviceOf(c[s])]
<1>1. IsFiniteSet(some) /\ DOMAIN f = some BY FS_Subset DEF SourcesSound
<1>2. Devices(c, some) \subseteq {f[s] : s \in some} BY DEF Devices
<1> HIDE DEF f
<1>3. IsFiniteSet({f[s] : s \in some}) BY <1>1, FiniteValues
<1> QED BY <1>2, <1>3, FS_Subset

(* The devices below a node, each with its readings. *)
LEMMA DevicesSound ==
    ASSUME NEW c, SourcesSound(c), NEW path, IsPath(path), NEW devices, IsFiniteSet(devices),
           NEW summaries \in SUBSET DOMAIN c, NEW readings \in SUBSET DOMAIN c,
           NEW connection \in DOMAIN c \cup {None}
    PROVE  TreeSound(c, UNION {DeviceNodes(c, path, v, summaries, readings, connection) : v \in devices})
<1> DEFINE f == [v \in devices |-> DeviceNodes(c, path, v, summaries, readings, connection)]
<1>1. DOMAIN f = devices OBVIOUS
<1>2. ASSUME NEW v \in devices PROVE TreeSound(c, f[v]) BY DeviceSound
<1>3. UNION {f[v] : v \in devices} = UNION {DeviceNodes(c, path, v, summaries, readings, connection) : v \in devices}
  OBVIOUS
<1> HIDE DEF f
<1>4. TreeSound(c, UNION {f[v] : v \in devices}) BY <1>1, <1>2, TreeUnions
<1> QED BY <1>3, <1>4

(* The connections of a domain: one alone, several, and what has none. *)
LEMMA FamilySound ==
    ASSUME NEW d, NEW c, SourcesSound(c), NEW groups \in SUBSET (Connections(c) \cup {None})
    PROVE  TreeSound(c, FamilyNodes(d, c, groups))
<1> DEFINE entries == groups \ {None}
           single == Cardinality(entries) = 1
           devices == GroupDevices(c, groups)
           Loose(some) == {s \in Grouped(c, some) : DeviceOf(c[s]) = None}
           Owned(e) == {v \in devices : v \in DOMAIN d.registry /\ d.registry[v] = e}
           summaries == OfKind(c, {"device"})
           Summarised(v) == \E s \in summaries : DeviceOf(c[s]) = v
           Paired(e) == /\ Loose({e}) = {}
                        /\ \E v \in devices : Owned(e) = {v} /\ Summarised(v)
           root == IF single THEN Node(<<SourceKey(First(entries))>>, First(entries))
                   ELSE Node(<<<<"family", FamilyOf(c, CHOOSE g \in groups : TRUE)>>>>, None)
           Under(path, v, connection) ==
               DeviceNodes(c, path, v, summaries, Grouped(c, groups), connection)
           Connection(e) ==
               IF Paired(e) THEN Under(root.path, CHOOSE v \in Owned(e) : TRUE, e)
               ELSE LET own == Leaf(root.path, e)
                    IN  {own} \cup Leaves(own.path, Loose({e}))
                        \cup UNION {Under(own.path, v, None) : v \in Owned(e)}
           pair == single /\ Paired(First(entries)) /\ Cardinality(devices) = 1
           stray == {v \in devices : \A e \in entries : v \notin Owned(e)}
           many == (UNION {Connection(e) : e \in entries}) \cup Leaves(root.path, Loose(groups \ entries))
                   \cup UNION {Under(root.path, v, None) : v \in stray}
           one == Leaves(root.path, Loose(groups))
                  \cup UNION {Under(root.path, v, IF pair THEN First(entries) ELSE None) : v \in devices}
<1>1. FamilyNodes(d, c, groups) = {root} \cup IF Cardinality(entries) > 1 THEN many ELSE one
  BY DEF FamilyNodes
<1>2. entries \in SUBSET DOMAIN c /\ summaries \in SUBSET DOMAIN c BY DEF Connections, OfKind
<1>3. \A some : Grouped(c, some) \in SUBSET DOMAIN c /\ Loose(some) \in SUBSET DOMAIN c
  BY DEF Grouped, Readable, OfKind
<1>4. IsFiniteSet(entries) /\ IsFiniteSet(devices)
 <2>1. IsFiniteSet(entries) BY <1>2, FS_Subset DEF SourcesSound
 <2>2. PICK some \in SUBSET DOMAIN c : devices = Devices(c, some) BY <1>3 DEF GroupDevices, OfKind
 <2> QED BY <2>1, <2>2, FewDevices
<1>5. single => First(entries) \in DOMAIN c BY <1>2, FS_EmptySet DEF SourcesSound
<1>6. NodeSound(c, root) /\ IsPath(root.path)
 <2>1. CASE single
  <3> DEFINE s == First(entries)
             path == <<SourceKey(s)>>
  <3>1. IsPath(path) /\ path # <<>> /\ Last(path) = SourceKey(s) BY ShortPaths
  <3>2. root = [path |-> path, source |-> s, connection |-> None] /\ s \in DOMAIN c
    BY <2>1, <1>5 DEF Node
  <3> HIDE DEF root, path, s
  <3> QED BY <3>1, <3>2 DEF NodeSound, Key
 <2>2. CASE ~single
  <3> DEFINE key == <<"family", FamilyOf(c, CHOOSE g \in groups : TRUE)>>
             path == <<key>>
  <3>1. IsPath(path) /\ path # <<>> /\ Last(path) = key BY ShortPaths
  <3>2. root = Node(path, None) /\ root.path = path /\ key[1] # "source" BY <2>2 DEF Node
  <3> HIDE DEF root, path, key
  <3> QED BY <3>1, <3>2, GroupNode
 <2> QED BY <2>1, <2>2
<1> HIDE DEF root, single, entries, devices, summaries
<1>7. ASSUME NEW e \in entries PROVE TreeSound(c, Connection(e))
 <2> DEFINE own == Leaf(root.path, e)
            loose == Loose({e})
            owned == Owned(e)
            below == UNION {Under(own.path, v, None) : v \in owned}
 <2>1. e \in DOMAIN c BY <1>2
 <2>2. CASE Paired(e)
  <3> Grouped(c, groups) \in SUBSET DOMAIN c /\ e \in DOMAIN c \cup {None} BY <1>3, <2>1
  <3>1. TreeSound(c, Under(root.path, CHOOSE v \in owned : TRUE, e)) BY <1>2, <1>6, DeviceSound
  <3> QED BY <2>2, <3>1
 <2>3. CASE ~Paired(e)
  <3>1. NodeSound(c, own) /\ IsPath(own.path) BY <1>6, <2>1, LeafSound
  <3>2. TreeSound(c, {own}) BY <3>1, OneNode
  <3> HIDE DEF own
  <3>3. TreeSound(c, Leaves(own.path, loose)) BY <1>3, <3>1, LeavesSound
  <3>4. TreeSound(c, below)
   <4>1. IsFiniteSet(owned) BY <1>4, FS_Subset
   <4>2. Grouped(c, groups) \in SUBSET DOMAIN c BY <1>3
   <4> HIDE DEF owned
   <4> QED BY <1>2, <3>1, <4>1, <4>2, DevicesSound
  <3>5. Connection(e) = {own} \cup Leaves(own.path, loose) \cup below BY <2>3 DEF own
  <3> HIDE DEF below, loose
  <3>6. TreeSound(c, {own} \cup Leaves(own.path, loose)) BY <3>2, <3>3, TreeUnion
  <3>7. TreeSound(c, {own} \cup Leaves(own.path, loose) \cup below) BY <3>4, <3>6, TreeUnion
  <3> QED BY <3>5, <3>7
 <2> QED BY <2>2, <2>3
<1>8. TreeSound(c, many)
 <2> DEFINE all == UNION {Connection(e) : e \in entries}
            loose == Loose(groups \ entries)
            below == UNION {Under(root.path, v, None) : v \in stray}
 <2>1. TreeSound(c, all)
  <3> DEFINE f == [e \in entries |-> Connection(e)]
  <3> HIDE DEF Connection
  <3>1. DOMAIN f = entries /\ \A e \in entries : TreeSound(c, f[e]) BY <1>7
  <3>2. all = UNION {f[e] : e \in entries} OBVIOUS
  <3> HIDE DEF f, all
  <3> QED BY <1>4, <3>1, <3>2, TreeUnions
 <2>2. TreeSound(c, Leaves(root.path, loose)) BY <1>3, <1>6, LeavesSound
 <2>3. TreeSound(c, below)
  <3>1. IsFiniteSet(stray) BY <1>4, FS_Subset
  <3>2. Grouped(c, groups) \in SUBSET DOMAIN c BY <1>3
  <3> HIDE DEF stray
  <3> QED BY <1>2, <1>6, <3>1, <3>2, DevicesSound
 <2>4. many = all \cup Leaves(root.path, loose) \cup below OBVIOUS
 <2> HIDE DEF all, loose, below
 <2>5. TreeSound(c, all \cup Leaves(root.path, loose)) BY <2>1, <2>2, TreeUnion
 <2>6. TreeSound(c, all \cup Leaves(root.path, loose) \cup below) BY <2>3, <2>5, TreeUnion
 <2> QED BY <2>4, <2>6
<1>9. TreeSound(c, one)
 <2> DEFINE with == IF pair THEN First(entries) ELSE None
            loose == Loose(groups)
            below == UNION {Under(root.path, v, with) : v \in devices}
 <2>1. TreeSound(c, Leaves(root.path, loose)) BY <1>3, <1>6, LeavesSound
 <2>2. with \in DOMAIN c \cup {None} BY <1>5
 <2>3. Grouped(c, groups) \in SUBSET DOMAIN c BY <1>3
 <2>4. TreeSound(c, below)
  <3> HIDE DEF with
  <3> QED BY <1>2, <1>4, <1>6, <2>2, <2>3, DevicesSound
 <2>5. one = Leaves(root.path, loose) \cup below OBVIOUS
 <2> HIDE DEF loose, below
 <2> QED BY <2>1, <2>4, <2>5, TreeUnion
<1>10. TreeSound(c, {root}) BY <1>6, OneNode
<1> HIDE DEF many, one
<1>11. TreeSound(c, {root} \cup many) /\ TreeSound(c, {root} \cup one)
  BY <1>8, <1>9, <1>10, TreeUnion
<1> QED BY <1>1, <1>11

(* The tree by integration is sound. *)
LEMMA IntegrationSound ==
    ASSUME NEW d, NEW c, SourcesSound(c)
    PROVE  TreeSound(c, IntegrationTree(d, c))
<1> DEFINE stray == Grouped(c, {None}) # {} \/ GroupDevices(c, {None}) # {}
           groups == Connections(c) \cup IF stray THEN {None} ELSE {}
           names == {FamilyOf(c, g) : g \in groups}
           family(n) == FamilyNodes(d, c, {g \in groups : FamilyOf(c, g) = n})
           f == [n \in names |-> family(n)]
<1>1. IntegrationTree(d, c) = UNION {f[n] : n \in names}
 <2>1. IntegrationTree(d, c) = UNION {family(n) : n \in names} BY DEF IntegrationTree
 <2>2. UNION {f[n] : n \in names} = UNION {family(n) : n \in names}
  <3> HIDE DEF family, names
  <3> QED OBVIOUS
 <2> QED BY <2>1, <2>2
<1>2. groups \subseteq Connections(c) \cup {None} OBVIOUS
<1> HIDE DEF groups
<1>3. IsFiniteSet(names)
 <2> DEFINE name == [g \in groups |-> FamilyOf(c, g)]
 <2>1. IsFiniteSet(Connections(c)) BY FS_Subset DEF SourcesSound, Connections, OfKind
 <2>2. IsFiniteSet(Connections(c) \cup {None}) BY <2>1, FS_AddElement
 <2>3. IsFiniteSet(groups) /\ DOMAIN name = groups BY <1>2, <2>2, FS_Subset
 <2>4. names = {name[g] : g \in groups} OBVIOUS
 <2> HIDE DEF name, names
 <2> QED BY <2>3, <2>4, FiniteValues
<1>4. \A n \in names : TreeSound(c, family(n)) BY <1>2, FamilySound
<1>5. DOMAIN f = names /\ \A n \in names : TreeSound(c, f[n]) BY <1>4
<1> HIDE DEF f, names
<1> QED BY <1>1, <1>3, <1>5, TreeUnions

----------------------------------------------------------------------------
(* Places. *)

(* An area, or what is in none, is sound. *)
LEMMA PlaceSound ==
    ASSUME NEW d, NEW c, SourcesSound(c), NEW path, IsPath(path), NEW place, place[1] # "source",
           NEW some \in SUBSET DOMAIN c
    PROVE  TreeSound(c, PlaceNodes(d, c, path, place, some))
<1> DEFINE at == Append(path, place)
           known == Devices(c, some) \cap DOMAIN d.registry
           readings == {s \in some : c[s].kind \in Readings}
           summaries == {s \in some : c[s].kind = "device"}
           loose == {s \in readings : DeviceOf(c[s]) \notin known}
           below == UNION {DeviceNodes(c, at, v, summaries, readings, None) : v \in known}
<1>1. PlaceNodes(d, c, path, place, some) = {Node(at, None)} \cup Leaves(at, loose) \cup below
  BY DEF PlaceNodes
<1>2. IsPath(at) /\ at # <<>> /\ Last(at)[1] # "source" BY LongerPath
<1>3. IsFiniteSet(known) BY FewDevices, FS_Subset
<1>4. readings \in SUBSET DOMAIN c /\ summaries \in SUBSET DOMAIN c /\ loose \in SUBSET DOMAIN c
  OBVIOUS
<1> HIDE DEF at, readings, known, summaries, loose
<1>5. TreeSound(c, {Node(at, None)}) /\ TreeSound(c, Leaves(at, loose))
  BY <1>2, <1>4, GroupNode, OneNode, LeavesSound
<1>6. TreeSound(c, below) BY <1>2, <1>3, <1>4, DevicesSound
<1> HIDE DEF below
<1>7. TreeSound(c, {Node(at, None)} \cup Leaves(at, loose)) BY <1>5, TreeUnion
<1>8. TreeSound(c, {Node(at, None)} \cup Leaves(at, loose) \cup below) BY <1>6, <1>7, TreeUnion
<1> QED BY <1>1, <1>8

(* So are some areas. *)
LEMMA AreasSound ==
    ASSUME NEW d, NEW c, SourcesSound(c), NEW path, IsPath(path), NEW areas, IsFiniteSet(areas)
    PROVE  TreeSound(c, AreaNodes(d, c, path, areas))
<1> DEFINE f == [a \in areas |-> PlaceNodes(d, c, path, <<"area", a>>, InArea(d, c, a))]
<1>1. ASSUME NEW a \in areas PROVE TreeSound(c, f[a])
 <2>1. InArea(d, c, a) \in SUBSET DOMAIN c BY DEF InArea, Located, OfKind
 <2>2. <<"area", a>>[1] # "source" OBVIOUS
 <2>3. TreeSound(c, PlaceNodes(d, c, path, <<"area", a>>, InArea(d, c, a)))
  <3> DEFINE place == <<"area", a>>
  <3>1. place[1] # "source" BY <2>2
  <3> HIDE DEF place
  <3>2. TreeSound(c, PlaceNodes(d, c, path, place, InArea(d, c, a))) BY <2>1, <3>1, PlaceSound
  <3> QED BY <3>2 DEF place
 <2> QED BY <2>3
<1>2. AreaNodes(d, c, path, areas) = UNION {f[a] : a \in areas} BY DEF AreaNodes
<1>3. DOMAIN f = areas OBVIOUS
<1> HIDE DEF f
<1> QED BY <1>1, <1>2, <1>3, TreeUnions

(* A titled group of areas. *)
LEMMA AreaGroupSound ==
    ASSUME NEW d, NEW c, SourcesSound(c), NEW key, key[1] # "source", NEW areas, IsFiniteSet(areas)
    PROVE  TreeSound(c, {Node(<<key>>, None)} \cup AreaNodes(d, c, <<key>>, areas))
<1> DEFINE path == <<key>>
<1>1. IsPath(path) /\ path # <<>> /\ Last(path) = key BY ShortPaths
<1> HIDE DEF path
<1>2. TreeSound(c, {Node(path, None)}) BY <1>1, GroupNode, OneNode
<1>3. TreeSound(c, AreaNodes(d, c, path, areas)) BY <1>1, AreasSound
<1>4. TreeSound(c, {Node(path, None)} \cup AreaNodes(d, c, path, areas)) BY <1>2, <1>3, TreeUnion
<1> QED BY <1>4 DEF path

(* The tree by Home Assistant location is sound. *)
LEMMA LocationSound ==
    ASSUME NEW d, NEW c, SourcesSound(c), IsFiniteSet(DOMAIN d.areas), IsFiniteSet(d.floors)
    PROVE  TreeSound(c, LocationTree(d, c))
<1> DEFINE On(floor) == {a \in DOMAIN d.areas : d.areas[a] = floor}
           floorless == {a \in DOMAIN d.areas : d.areas[a] \notin d.floors}
           floor(f) == {Node(<<<<"floor", f>>>>, None)} \cup AreaNodes(d, c, <<<<"floor", f>>>>, On(f))
           floors == UNION {floor(f) : f \in d.floors}
           free == IF floorless = {} THEN {}
                   ELSE {Node(<<<<"group", "floorless">>>>, None)}
                        \cup AreaNodes(d, c, <<<<"group", "floorless">>>>, floorless)
           unplaced == IF Unplaced(d, c) = {} THEN {}
                       ELSE PlaceNodes(d, c, <<>>, <<"group", "unassigned">>, Unplaced(d, c))
<1>1. LocationTree(d, c) = floors \cup free \cup unplaced \cup ConnectionSection(c)
  BY DEF LocationTree
<1>2. ASSUME NEW f \in d.floors PROVE TreeSound(c, floor(f))
 <2> DEFINE key == <<"floor", f>>
 <2>1. key[1] # "source" /\ IsFiniteSet(On(f)) BY FS_Subset
 <2> HIDE DEF key
 <2>2. TreeSound(c, {Node(<<key>>, None)} \cup AreaNodes(d, c, <<key>>, On(f)))
   BY <2>1, AreaGroupSound
 <2> QED BY <2>2 DEF key
<1>3. TreeSound(c, floors)
 <2> DEFINE g == [f \in d.floors |-> floor(f)]
 <2> HIDE DEF floor
 <2>1. DOMAIN g = d.floors /\ \A f \in d.floors : TreeSound(c, g[f]) BY <1>2
 <2>2. floors = UNION {g[f] : f \in d.floors} OBVIOUS
 <2> HIDE DEF g, floors
 <2> QED BY <2>1, <2>2, TreeUnions
<1>4. TreeSound(c, free)
 <2> DEFINE key == <<"group", "floorless">>
 <2>1. key[1] # "source" /\ IsFiniteSet(floorless) BY FS_Subset
 <2> HIDE DEF key
 <2>2. TreeSound(c, {Node(<<key>>, None)} \cup AreaNodes(d, c, <<key>>, floorless))
   BY <2>1, AreaGroupSound
 <2> QED BY <2>2, TreeEmpty DEF key
<1>5. TreeSound(c, unplaced)
 <2> DEFINE place == <<"group", "unassigned">>
 <2>1. place[1] # "source" /\ IsPath(<<>>) /\ Unplaced(d, c) \in SUBSET DOMAIN c
   BY ShortPaths DEF Unplaced, Located, OfKind
 <2> HIDE DEF place
 <2>2. TreeSound(c, PlaceNodes(d, c, <<>>, place, Unplaced(d, c))) BY <2>1, PlaceSound
 <2> QED BY <2>2, TreeEmpty DEF place
<1>6. TreeSound(c, ConnectionSection(c)) BY SectionSound DEF ConnectionSection, Connections, OfKind
<1> HIDE DEF floors, free, unplaced
<1>7. TreeSound(c, floors \cup free) BY <1>3, <1>4, TreeUnion
<1>8. TreeSound(c, floors \cup free \cup unplaced) BY <1>5, <1>7, TreeUnion
<1>9. TreeSound(c, floors \cup free \cup unplaced \cup ConnectionSection(c))
  BY <1>6, <1>8, TreeUnion
<1> QED BY <1>1, <1>9

----------------------------------------------------------------------------
(* The locations of TopoMation. *)

(* The order of the numbers, as a relation. *)
Less == OpToRel(<, Nat)
LEMMA LessIs == \A x, y \in Nat : <<y, x>> \in Less <=> y < x
BY DEF Less, OpToRel

(* A nonempty set of numbers has a least one. *)
LEMMA LeastNumber ==
    ASSUME NEW T, T \subseteq Nat, T # {}
    PROVE  \E x \in T : \A y \in T : x <= y
<1>1. IsWellFoundedOn(Less, Nat) BY NatLessThanWellFounded DEF Less
<1>2. PICK x \in T : \A y \in T : ~ (<<y, x>> \in Less) BY <1>1, WFMin
<1>3. ASSUME NEW y \in T PROVE x <= y
 <2>1. x \in Nat /\ y \in Nat /\ ~ (<<y, x>> \in Less) BY <1>2
 <2>2. ~ (y < x) BY <2>1, LessIs
 <2> QED BY <2>1, <2>2
<1> QED BY <1>3

(* A set with 0 that has the successor of each of its numbers has them all. *)
LEMMA Induction ==
    ASSUME NEW G, 0 \in G, \A n \in Nat : n \in G => n + 1 \in G
    PROVE  Nat \subseteq G
<1> SUFFICES ASSUME Nat \ G # {} PROVE FALSE OBVIOUS
<1>1. PICK x \in Nat \ G : \A y \in Nat \ G : x <= y BY LeastNumber
<1>2. x # 0 /\ x - 1 \in Nat BY <1>1
<1>3. x - 1 \in G BY <1>1, <1>2
<1> QED BY <1>1, <1>2, <1>3

(* One more step up from the locations above one. *)
Higher(t, above) ==
    LET parent == LocationOf(t, Last(above)).parent
    IN  IF parent \in Locations(t) THEN Append(above, parent) ELSE above

(* The first n steps up. *)
Climb(t, id, n, up) == up = [i \in 0..n |-> IF i = 0 THEN <<id>> ELSE Higher(t, up[i - 1])]

(* Above is where the climb ends. *)
LEMMA AboveRecursion ==
    ASSUME NEW t, Len(t) \in Nat, NEW id
    PROVE  \E up : Climb(t, id, Len(t), up) /\ Above(t, id) = up[Len(t)]
<1> DEFINE G == {n \in Nat : \E up : Climb(t, id, n, up)}
<1>1. 0 \in G
 <2> DEFINE up == [i \in 0..0 |-> <<id>>]
 <2>1. Climb(t, id, 0, up) BY DEF Climb
 <2> QED BY <2>1
<1>2. ASSUME NEW n \in Nat, n \in G PROVE n + 1 \in G
 <2>1. PICK up : Climb(t, id, n, up) BY <1>2
 <2> DEFINE last == Higher(t, up[n])
            longer == [i \in 0 .. n + 1 |-> IF i = n + 1 THEN last ELSE up[i]]
 <2>2. ASSUME NEW i \in 0 .. n + 1
       PROVE  longer[i] = IF i = 0 THEN <<id>> ELSE Higher(t, longer[i - 1])
  <3>1. CASE i = n + 1
   <4>1. longer[i] = last /\ longer[i - 1] = up[n] /\ i # 0 BY <3>1
   <4> QED BY <4>1
  <3>2. CASE i # n + 1
   <4>1. i \in 0 .. n /\ (i # 0 => i - 1 \in 0 .. n /\ i - 1 # n + 1 /\ i - 1 \in 0 .. n + 1)
     BY <3>2
   <4>2. up[i] = IF i = 0 THEN <<id>> ELSE Higher(t, up[i - 1]) BY <4>1, <2>1 DEF Climb
   <4>3. longer[i] = up[i] /\ (i # 0 => longer[i - 1] = up[i - 1]) BY <4>1, <3>2
   <4> QED BY <4>2, <4>3
  <3> QED BY <3>1, <3>2
 <2>3. Climb(t, id, n + 1, longer)
  <3> HIDE DEF last
  <3> QED BY <2>2 DEF Climb
 <2> QED BY <2>3
<1>3. Len(t) \in G
 <2> HIDE DEF G
 <2> QED BY <1>1, <1>2, Induction
<1>4. PICK f : Climb(t, id, Len(t), f) BY <1>3
<1> DEFINE climbed == CHOOSE up : up = [i \in 0..Len(t) |-> IF i = 0 THEN <<id>> ELSE Higher(t, up[i - 1])]
<1>5. Climb(t, id, Len(t), climbed) BY <1>4 DEF Climb
<1>6. Above(t, id) = climbed[Len(t)] BY DEF Above, Higher
<1> HIDE DEF climbed
<1> QED BY <1>5, <1>6

(* There is a way up to a location, and it begins there. *)
LEMMA AbovePath ==
    ASSUME NEW t, Len(t) \in Nat, NEW id
    PROVE  \E m \in Nat \ {0} : DOMAIN Above(t, id) = 1..m
<1> DEFINE Way(above) == \E K : above \in Seq(K) /\ above # <<>>
<1>1. PICK up : Climb(t, id, Len(t), up) /\ Above(t, id) = up[Len(t)] BY AboveRecursion
<1> DEFINE G == {n \in Nat : n <= Len(t) => Way(up[n])}
<1>2. 0 \in G
 <2>1. up[0] = <<id>> BY <1>1 DEF Climb
 <2>2. <<id>> \in Seq({id}) /\ <<id>> # <<>> OBVIOUS
 <2> QED BY <2>1, <2>2
<1>3. ASSUME NEW n \in Nat, n \in G PROVE n + 1 \in G
 <2>1. CASE n + 1 <= Len(t)
  <3>1. up[n + 1] = Higher(t, up[n])
   <4>1. n + 1 \in 0..Len(t) /\ n + 1 # 0 /\ (n + 1) - 1 = n BY <2>1
   <4> QED BY <4>1, <1>1 DEF Climb
  <3>2. PICK K : up[n] \in Seq(K) /\ up[n] # <<>> BY <1>3, <2>1
  <3> DEFINE parent == LocationOf(t, Last(up[n])).parent
  <3>3. up[n + 1] = up[n] \/ up[n + 1] = Append(up[n], parent) BY <3>1 DEF Higher
  <3> HIDE DEF parent
  <3>4. IsPath(up[n]) BY <3>2 DEF IsPath
  <3>5. IsPath(Append(up[n], parent)) /\ Append(up[n], parent) # <<>> BY <3>4, LongerPath
  <3>6. Way(up[n + 1]) BY <3>2, <3>3, <3>5 DEF IsPath
  <3> HIDE DEF Way
  <3> QED BY <3>6
 <2>2. CASE ~(n + 1 <= Len(t)) BY <2>2
 <2> QED BY <2>1, <2>2
<1>4. Len(t) \in G
 <2> HIDE DEF G
 <2> QED BY <1>2, <1>3, Induction
<1>5. PICK K : up[Len(t)] \in Seq(K) /\ up[Len(t)] # <<>> BY <1>4
<1>6. Len(up[Len(t)]) \in Nat \ {0} /\ DOMAIN up[Len(t)] = 1..Len(up[Len(t)]) BY <1>5
<1> QED BY <1>1, <1>6

(* The tree by TopoMation location is sound, however its list is linked. *)
LEMMA TopologySound ==
    ASSUME NEW c, SourcesSound(c), NEW t, NEW R, t \in Seq(R)
    PROVE  TreeSound(c, TopologyTree(c, t))
<1> DEFINE placed == OfKind(c, Readings \cup {"device"})
           PathTo(id) == [i \in DOMAIN Above(t, id) |-> <<"location", Reverse(Above(t, id))[i]>>]
           sources(id) == {s \in placed : LocationFor(c, t, s) = id}
           readings(id) == {s \in sources(id) : c[s].kind # "device"}
           loose(id) == {s \in sources(id) : DeviceOf(c[s]) = None}
           below(id) == UNION {DeviceNodes(c, PathTo(id), v, sources(id) \ readings(id), readings(id), None) :
                               v \in Devices(c, sources(id))}
           at(id) == {Node(PathTo(id), None)} \cup Leaves(PathTo(id), loose(id)) \cup below(id)
           all == UNION {at(id) : id \in Locations(t)}
           rest == {s \in placed : LocationFor(c, t, s) = None}
<1>1. TopologyTree(c, t) = all \cup Section("unassigned", rest) \cup ConnectionSection(c)
  BY DEF TopologyTree
<1>2. Len(t) \in Nat /\ DOMAIN t = 1..Len(t) OBVIOUS
<1>3. placed \in SUBSET DOMAIN c BY DEF OfKind
<1>4. ASSUME NEW id PROVE TreeSound(c, at(id))
 <2> DEFINE path == PathTo(id)
 <2>1. IsPath(path) /\ path # <<>> /\ Last(path)[1] # "source"
  <3>1. PICK m \in Nat \ {0} : DOMAIN Above(t, id) = 1..m BY <1>2, AbovePath
  <3> DEFINE key(i) == <<"location", Reverse(Above(t, id))[i]>>
             K == {key(i) : i \in 1..m}
  <3>2. path = [i \in 1..m |-> key(i)] /\ \A i \in 1..m : key(i)[1] = "location" BY <3>1
  <3> HIDE DEF path, key
  <3>3. path \in [1..m -> K] BY <3>2
  <3> HIDE DEF K
  <3>4. path \in Seq(K)
   <4>1. m \in Nat /\ path \in [1..m -> K] BY <3>1, <3>3
   <4>2. path \in UNION {[1..n -> K] : n \in Nat} BY <4>1, Zenon
   <4> QED BY <4>2, SeqDef, Zenon
  <3>5. Len(path) = m /\ path # <<>> BY <3>2, <3>4
  <3>6. Last(path) = key(m) /\ key(m)[1] = "location" BY <3>2, <3>5 DEF Last
  <3> QED BY <3>4, <3>5, <3>6 DEF IsPath
 <2> DEFINE some == sources(id)
            read == readings(id)
            free == loose(id)
            devices == Devices(c, some)
            under == UNION {DeviceNodes(c, path, v, some \ read, read, None) : v \in devices}
 <2>2. some \in SUBSET DOMAIN c /\ read \in SUBSET DOMAIN c /\ free \in SUBSET DOMAIN c BY <1>3
 <2>3. at(id) = {Node(path, None)} \cup Leaves(path, free) \cup under OBVIOUS
 <2> HIDE DEF path, some, read, free, at
 <2>4. TreeSound(c, {Node(path, None)}) /\ TreeSound(c, Leaves(path, free))
   BY <2>1, <2>2, GroupNode, OneNode, LeavesSound
 <2>5. TreeSound(c, under)
  <3>1. IsFiniteSet(devices) /\ some \ read \in SUBSET DOMAIN c BY <2>2, FewDevices
  <3> HIDE DEF devices
  <3> QED BY <2>1, <2>2, <3>1, DevicesSound
 <2> HIDE DEF under
 <2>6. TreeSound(c, {Node(path, None)} \cup Leaves(path, free)) BY <2>4, TreeUnion
 <2>7. TreeSound(c, {Node(path, None)} \cup Leaves(path, free) \cup under) BY <2>5, <2>6, TreeUnion
 <2> QED BY <2>3, <2>7
<1>5. IsFiniteSet(Locations(t))
 <2> DEFINE f == [i \in DOMAIN t |-> t[i].id]
 <2>1. IsFiniteSet(DOMAIN t) /\ DOMAIN f = DOMAIN t
  <3>1. IsFiniteSet(1..Len(t)) BY <1>2, FS_Interval
  <3> QED BY <1>2, <3>1
 <2>2. Locations(t) = {f[i] : i \in DOMAIN t} BY DEF Locations
 <2> HIDE DEF f
 <2> QED BY <2>1, <2>2, FiniteValues
<1>6. TreeSound(c, all)
 <2> DEFINE f == [id \in Locations(t) |-> at(id)]
 <2> HIDE DEF at
 <2>1. DOMAIN f = Locations(t) /\ \A id \in Locations(t) : TreeSound(c, f[id]) BY <1>4
 <2>2. all = UNION {f[id] : id \in Locations(t)} OBVIOUS
 <2> HIDE DEF f, all
 <2> QED BY <1>5, <2>1, <2>2, TreeUnions
<1>7. TreeSound(c, Section("unassigned", rest))
 <2>1. rest \in SUBSET DOMAIN c BY <1>3
 <2> HIDE DEF rest
 <2> QED BY <2>1, SectionSound
<1>8. TreeSound(c, ConnectionSection(c)) BY SectionSound DEF ConnectionSection, Connections, OfKind
<1> HIDE DEF all, rest
<1>9. TreeSound(c, all \cup Section("unassigned", rest)) BY <1>6, <1>7, TreeUnion
<1>10. TreeSound(c, all \cup Section("unassigned", rest) \cup ConnectionSection(c))
  BY <1>8, <1>9, TreeUnion
<1> QED BY <1>1, <1>10

----------------------------------------------------------------------------
(* Sources. *)

(* Everything has a place in the order. *)
LEMMA IndexIsNumber == \A id : Index(id) \in Nat \ {0}
<1>1. DOMAIN Order = 1..Len(Order) /\ Len(Order) \in Nat BY OrderAssumption
<1> QED BY <1>1 DEF Index

(* Of some things there is a first. *)
LEMMA FirstIn ==
    ASSUME NEW some, some # {}
    PROVE  First(some) \in some
<1> DEFINE places == {Index(id) : id \in some}
<1>1. places \subseteq Nat /\ places # {} BY IndexIsNumber
<1> HIDE DEF places
<1>2. PICK x \in places : \A y \in places : x <= y BY <1>1, LeastNumber
<1>3. \E id \in some : \A other \in some : Index(id) <= Index(other) BY <1>2 DEF places
<1> QED BY <1>3 DEF First

(* A list, with the source of each of its rows worked out. *)
ListSound(d) ==
    /\ ChecksAreCopies(d.rows)
    /\ IsFiniteSet(DOMAIN d.rows) /\ IsFiniteSet(DOMAIN d.areas) /\ IsFiniteSet(d.floors)
    /\ d.canonical = [r \in DOMAIN d.rows |-> CanonicalId(d, r)]

(* The source of a row is a row that is its own source. *)
LEMMA CanonicalSource ==
    ASSUME NEW d, ListSound(d), NEW i \in DOMAIN d.rows
    PROVE  /\ d.canonical[i] \in DOMAIN d.rows
           /\ d.canonical[d.canonical[i]] = d.canonical[i]
<1> DEFINE row == d.rows[i]
           entity == EntityRow(d, row.entity)
           s == CanonicalId(d, i)
<1>1. \A r \in DOMAIN d.rows : d.canonical[r] = CanonicalId(d, r) BY DEF ListSound
<1>2. s \in DOMAIN d.rows /\ CanonicalId(d, s) = s
 <2>1. CASE row.source # None
  <3>1. s = row.source BY <2>1 DEF CanonicalId
  <3>2. s \in DOMAIN d.rows /\ d.rows[s].source = None /\ d.rows[s].kind \notin TemperatureChecks
    BY <2>1, <3>1 DEF ListSound, ChecksAreCopies
  <3> HIDE DEF s
  <3> QED BY <3>2 DEF CanonicalId
 <2>2. CASE row.source = None /\ row.kind \in TemperatureChecks /\ entity # {}
  <3>1. s = First(entity) BY <2>2 DEF CanonicalId
  <3>2. s \in entity BY <2>2, <3>1, FirstIn
  <3> HIDE DEF s
  <3>3. s \in DOMAIN d.rows /\ d.rows[s].kind = "entity" /\ d.rows[s].policy = None
    BY <3>2 DEF EntityRow
  <3>4. d.rows[s].source = None BY <3>3 DEF ListSound, ChecksAreCopies
  <3>5. d.rows[s].kind \notin TemperatureChecks BY <3>3 DEF TemperatureChecks
  <3> QED BY <3>3, <3>4, <3>5 DEF CanonicalId
 <2>3. CASE row.source = None /\ ~(row.kind \in TemperatureChecks /\ entity # {})
  <3>1. s = i BY <2>3 DEF CanonicalId
  <3> QED BY <3>1
 <2> QED BY <2>1, <2>2, <2>3
<1> QED BY <1>1, <1>2

(* Sources are rows that are their own source. *)
LEMMA SourcesOwn ==
    ASSUME NEW d, ListSound(d), NEW showDisabled
    PROVE  \A s \in DOMAIN Sources(d, showDisabled) : s \in DOMAIN d.rows /\ d.canonical[s] = s
<1>1. \A s \in DOMAIN Sources(d, showDisabled) : s \in Range(d.canonical) BY DEF Sources
<1>2. Range(d.canonical) = {d.canonical[i] : i \in DOMAIN d.rows} BY DEF ListSound, Range
<1> QED BY <1>1, <1>2, CanonicalSource

(* The sources of a list are finitely many and ordered. *)
LEMMA SourcesAreSound ==
    ASSUME NEW d, ListSound(d), NEW showDisabled
    PROVE  SourcesSound(Sources(d, showDisabled))
<1>1. DOMAIN Sources(d, showDisabled) \subseteq DOMAIN d.rows BY SourcesOwn
<1>2. IsFiniteSet(DOMAIN Sources(d, showDisabled)) BY <1>1, FS_Subset DEF ListSound
<1> QED BY <1>2, FirstIn DEF SourcesSound

(* The whole tree. *)
LEMMA TreeIsSound ==
    ASSUME NEW d, ListSound(d), NEW showDisabled, NEW grouping, NEW R, NEW t \in Seq(R)
    PROVE  TreeSound(Sources(d, showDisabled), Tree(d, grouping, t, showDisabled))
<1> DEFINE c == Sources(d, showDisabled)
           grouped == GroupedTree(d, c, grouping, t)
           Rest(nodes, kinds) == {s \in OfKind(c, kinds) : s \notin Listed(d, nodes)}
           situations == Rest(grouped, {"situation"})
           automations == Rest(grouped, {"broken_automation"})
           repairs == Rest(grouped, {"repair"})
           named == grouped \cup Section("situations", situations)
                    \cup Section("automations", automations) \cup Section("repairs", repairs)
           others == DOMAIN c \ Listed(d, named)
<1>1. Tree(d, grouping, t, showDisabled) = named \cup Section("other", others) BY DEF Tree
<1>2. SourcesSound(c) BY SourcesAreSound
<1>3. /\ situations \in SUBSET DOMAIN c /\ automations \in SUBSET DOMAIN c
      /\ repairs \in SUBSET DOMAIN c /\ others \in SUBSET DOMAIN c
  BY DEF OfKind
<1> HIDE DEF c
<1>4. TreeSound(c, grouped)
 <2>1. TreeSound(c, IntegrationTree(d, c)) /\ TreeSound(c, TopologyTree(c, t))
   BY <1>2, IntegrationSound, TopologySound
 <2>2. TreeSound(c, LocationTree(d, c)) BY <1>2, LocationSound DEF ListSound
 <2>3. grouped \in {IntegrationTree(d, c), TopologyTree(c, t), LocationTree(d, c)}
  <3>1. CASE grouping = "integration" BY <3>1 DEF GroupedTree
  <3>2. CASE grouping # "integration" /\ grouping = "topomation" /\ Usable(t)
    BY <3>2 DEF GroupedTree
  <3>3. CASE grouping # "integration" /\ ~(grouping = "topomation" /\ Usable(t))
    BY <3>3 DEF GroupedTree
  <3> QED BY <3>1, <3>2, <3>3
 <2> QED BY <2>1, <2>2, <2>3
<1>5. /\ TreeSound(c, Section("situations", situations)) /\ TreeSound(c, Section("automations", automations))
      /\ TreeSound(c, Section("repairs", repairs)) /\ TreeSound(c, Section("other", others))
 <2> HIDE DEF situations, automations, repairs, others
 <2> QED BY <1>2, <1>3, SectionSound
<1> HIDE DEF grouped, situations, automations, repairs, others
<1>6. TreeSound(c, grouped \cup Section("situations", situations)) BY <1>4, <1>5, TreeUnion
<1>7. TreeSound(c, grouped \cup Section("situations", situations) \cup Section("automations", automations))
  BY <1>5, <1>6, TreeUnion
<1>8. TreeSound(c, named) BY <1>5, <1>7, TreeUnion
<1> HIDE DEF named
<1>9. TreeSound(c, named \cup Section("other", others)) BY <1>5, <1>8, TreeUnion
<1> QED BY <1>1, <1>9 DEF c

(* Each source is in it, or beside the device of its connection. *)
LEMMA TreeLists ==
    ASSUME NEW d, ListSound(d), NEW showDisabled, NEW grouping, NEW t,
           NEW s \in DOMAIN Sources(d, showDisabled)
    PROVE  \E n \in Tree(d, grouping, t, showDisabled) : s \in {n.source, n.connection}
<1> DEFINE c == Sources(d, showDisabled)
           grouped == GroupedTree(d, c, grouping, t)
           Rest(nodes, kinds) == {r \in OfKind(c, kinds) : r \notin Listed(d, nodes)}
           named == grouped \cup Section("situations", Rest(grouped, {"situation"}))
                    \cup Section("automations", Rest(grouped, {"broken_automation"}))
                    \cup Section("repairs", Rest(grouped, {"repair"}))
           others == DOMAIN c \ Listed(d, named)
           path == <<<<"section", "other">>>>
<1>1. Tree(d, grouping, t, showDisabled) = named \cup Section("other", others) BY DEF Tree
<1>2. d.canonical[s] = s BY SourcesOwn
<1>3. s \in DOMAIN c OBVIOUS
<1> HIDE DEF c, named, path
<1>4. CASE s \in others
 <2>1. Leaf(path, s) \in Section("other", others) BY <1>4 DEF Section, Leaves, path
 <2>2. Leaf(path, s).source = s BY DEF Leaf, Node
 <2> HIDE DEF others
 <2> QED BY <1>1, <2>1, <2>2
<1>5. CASE s \notin others
 <2>1. s \in Listed(d, named) BY <1>3, <1>5
 <2>2. PICK n \in named : \E x \in {n.source, n.connection} : s \in Aliases(d, x) \cup {x}
   BY <2>1 DEF Listed
 <2>3. s \in {n.source, n.connection} BY <1>2, <2>2 DEF Aliases
 <2> HIDE DEF others
 <2> QED BY <1>1, <2>3
<1> QED BY <1>4, <1>5

----------------------------------------------------------------------------
(* Finding a selection. *)

(* Two paths begin alike when their first keys are the same. *)
LEMMA SamePrefix ==
    ASSUME NEW K, NEW p \in Seq(K), NEW q \in Seq(K), NEW n \in Nat, n <= Len(p), n <= Len(q)
    PROVE  SubSeq(p, 1, n) = SubSeq(q, 1, n) <=> \A k \in 1..n : p[k] = q[k]
<1>1. /\ DOMAIN SubSeq(p, 1, n) = 1..n /\ DOMAIN SubSeq(q, 1, n) = 1..n
      /\ \A k \in 1..n : SubSeq(p, 1, n)[k] = p[k] /\ SubSeq(q, 1, n)[k] = q[k]
      /\ SubSeq(p, 1, n) \in Seq(K) /\ SubSeq(q, 1, n) \in Seq(K)
  OBVIOUS
<1>2. Len(SubSeq(p, 1, n)) = n /\ Len(SubSeq(q, 1, n)) = n OBVIOUS
<1> QED BY <1>1, <1>2

(* Every key has a position in a list. *)
LEMMA PositionIsNumber == \A key : Position(key) \in Nat \ {0}
<1>1. Len(Order) \in Nat BY OrderAssumption
<1>2. ASSUME NEW key PROVE Position(key) \in Nat \ {0}
 <2> DEFINE place == Index(key[2])
            more == IF key[1] = "location" THEN 0 ELSE Len(Order) + 1
 <2>1. place \in Nat \ {0} /\ more \in Nat BY <1>1, IndexIsNumber
 <2>2. Position(key) = place + more BY DEF Position
 <2> HIDE DEF place, more
 <2> QED BY <2>1, <2>2
<1> QED BY <1>2

(* Before, key by key. *)
Agree(p, q, n) == \A k \in 1..n : p[k] = q[k]
Parts(p, q, i) ==
    /\ i \in Nat \ {0} /\ i <= Len(p) /\ i <= Len(q)
    /\ Agree(p, q, i - 1) /\ Position(p[i]) < Position(q[i])

(* Two places in the order of the lists. *)
LEMMA BeforeIs ==
    ASSUME NEW K, NEW p \in Seq(K), NEW q \in Seq(K)
    PROVE  Before(p, q) <=> \/ Len(p) < Len(q) /\ Agree(p, q, Len(p))
                            \/ \E i : Parts(p, q, i)
<1>1. IsStrictPrefix(p, q) <=> Len(p) < Len(q) /\ Agree(p, q, Len(p))
 <2>1. CASE Len(p) <= Len(q)
  <3>1. SubSeq(p, 1, Len(p)) = SubSeq(q, 1, Len(p)) <=> Agree(p, q, Len(p))
    BY <2>1, SamePrefix DEF Agree
  <3>2. Len(p) = Len(q) /\ Agree(p, q, Len(p)) => p = q BY DEF Agree
  <3>3. p = q => Len(p) = Len(q) OBVIOUS
  <3> QED BY <2>1, <3>1, <3>2, <3>3 DEF IsStrictPrefix, IsPrefix
 <2>2. CASE ~(Len(p) <= Len(q))
  <3>1. ~(Len(p) < Len(q)) BY <2>2
  <3> QED BY <2>2, <3>1 DEF IsStrictPrefix, IsPrefix
 <2> QED BY <2>1, <2>2
<1>2. ASSUME NEW i \in DOMAIN p \cap DOMAIN q
      PROVE  SubSeq(p, 1, i - 1) = SubSeq(q, 1, i - 1) <=> Agree(p, q, i - 1)
 <2>1. i - 1 \in Nat /\ i - 1 <= Len(p) /\ i - 1 <= Len(q) OBVIOUS
 <2> QED BY <2>1, SamePrefix DEF Agree
<1>3. \A i : i \in DOMAIN p \cap DOMAIN q <=> i \in Nat \ {0} /\ i <= Len(p) /\ i <= Len(q) OBVIOUS
<1> QED BY <1>1, <1>2, <1>3 DEF Before, Parts

(* What is before another is before what that one is before. *)
LEMMA BeforeTransitive ==
    ASSUME NEW p, IsPath(p), NEW q, IsPath(q), NEW r, IsPath(r), Before(p, q), Before(q, r)
    PROVE  Before(p, r)
<1>1. PICK K : p \in Seq(K) /\ q \in Seq(K) /\ r \in Seq(K)
 <2>1. PICK K1, K2, K3 : p \in Seq(K1) /\ q \in Seq(K2) /\ r \in Seq(K3) BY DEF IsPath
 <2> DEFINE K == K1 \cup K2 \cup K3
 <2>2. p \in Seq(K) /\ q \in Seq(K) /\ r \in Seq(K) BY <2>1
 <2> QED BY <2>2
<1>2. /\ (Len(p) < Len(q) /\ Agree(p, q, Len(p))) \/ \E i : Parts(p, q, i)
      /\ (Len(q) < Len(r) /\ Agree(q, r, Len(q))) \/ \E i : Parts(q, r, i)
  BY <1>1, BeforeIs
<1>3. Len(p) \in Nat /\ Len(q) \in Nat /\ Len(r) \in Nat BY <1>1
<1>4. ASSUME Len(p) < Len(q), Agree(p, q, Len(p)), Len(q) < Len(r), Agree(q, r, Len(q))
      PROVE  Len(p) < Len(r) /\ Agree(p, r, Len(p))
  BY <1>3, <1>4 DEF Agree
<1>5. ASSUME Len(p) < Len(q), Agree(p, q, Len(p)), NEW i, Parts(q, r, i)
      PROVE  (Len(p) < Len(r) /\ Agree(p, r, Len(p))) \/ Parts(p, r, i)
 <2>1. CASE i <= Len(p)
  <3>1. p[i] = q[i] /\ Agree(p, r, i - 1) BY <1>3, <1>5, <2>1 DEF Agree, Parts
  <3>2. i <= Len(r) /\ i \in Nat \ {0} /\ Position(q[i]) < Position(r[i]) BY <1>5 DEF Parts
  <3> QED BY <2>1, <3>1, <3>2 DEF Parts
 <2>2. CASE ~(i <= Len(p)) BY <1>3, <1>5, <2>2 DEF Agree, Parts
 <2> QED BY <2>1, <2>2
<1>6. ASSUME NEW i, Parts(p, q, i), Len(q) < Len(r), Agree(q, r, Len(q))
      PROVE  Parts(p, r, i)
 <2>1. q[i] = r[i] /\ Agree(p, r, i - 1) /\ i <= Len(r) BY <1>3, <1>6 DEF Agree, Parts
 <2> QED BY <1>6, <2>1 DEF Parts
<1>7. ASSUME NEW i, Parts(p, q, i), NEW j, Parts(q, r, j)
      PROVE  Parts(p, r, i) \/ Parts(p, r, j)
 <2>1. i \in Nat \ {0} /\ j \in Nat \ {0} BY <1>7 DEF Parts
 <2>2. CASE i < j
  <3>1. q[i] = r[i] /\ Agree(p, r, i - 1) /\ i <= Len(r)
   <4>1. Agree(p, q, i - 1) /\ Agree(q, r, j - 1) /\ j <= Len(r) BY <1>7 DEF Parts
   <4> QED BY <1>3, <2>1, <2>2, <4>1 DEF Agree
  <3> QED BY <1>7, <3>1 DEF Parts
 <2>3. CASE j < i
  <3>1. p[j] = q[j] /\ Agree(p, r, j - 1) /\ j <= Len(p)
   <4>1. Agree(p, q, i - 1) /\ Agree(q, r, j - 1) /\ i <= Len(p) BY <1>7 DEF Parts
   <4> QED BY <1>3, <2>1, <2>3, <4>1 DEF Agree
  <3> QED BY <1>7, <3>1 DEF Parts
 <2>4. CASE i = j
  <3>1. Agree(p, r, i - 1) BY <1>7, <2>4 DEF Agree, Parts
  <3>2. Position(p[i]) < Position(q[i]) /\ Position(q[i]) < Position(r[i]) BY <1>7, <2>4 DEF Parts
  <3>3. Position(p[i]) < Position(r[i])
   <4> DEFINE a == Position(p[i])
              b == Position(q[i])
              e == Position(r[i])
   <4>1. a \in Nat /\ b \in Nat /\ e \in Nat BY PositionIsNumber
   <4>2. a < b /\ b < e BY <3>2
   <4> HIDE DEF a, b, e
   <4>3. a < e BY <4>1, <4>2
   <4> QED BY <4>3 DEF a, e
  <3> QED BY <1>7, <2>4, <3>1, <3>3 DEF Parts
 <2> QED BY <2>1, <2>2, <2>3, <2>4
<1> QED BY <1>1, <1>2, <1>4, <1>5, <1>6, <1>7, BeforeIs

(* Nothing is before itself. *)
LEMMA BeforeIrreflexive ==
    ASSUME NEW p, IsPath(p)
    PROVE  ~Before(p, p)
<1>1. \A i : ~(Position(p[i]) < Position(p[i])) BY PositionIsNumber
<1> QED BY <1>1 DEF Before, IsStrictPrefix

(* Of some nodes one is met first. *)
LEMMA MetFirst ==
    ASSUME NEW nodes, IsFiniteSet(nodes), nodes # {}, \A n \in nodes : IsPath(n.path)
    PROVE  \E n \in nodes : \A m \in nodes : m = n \/ ~Before(m.path, n.path)
<1> DEFINE Pred(n) == {m \in nodes : Before(m.path, n.path)}
           sizes == {Cardinality(Pred(n)) : n \in nodes}
<1>1. \A n \in nodes : IsFiniteSet(Pred(n)) /\ Cardinality(Pred(n)) \in Nat
  BY FS_Subset, FS_CardinalityType
<1>2. sizes \subseteq Nat /\ sizes # {} BY <1>1
<1>3. PICK x \in sizes : \A y \in sizes : x <= y
 <2> HIDE DEF sizes
 <2> QED BY <1>2, LeastNumber
<1>4. PICK n \in nodes : \A m \in nodes : Cardinality(Pred(n)) <= Cardinality(Pred(m)) BY <1>3
<1>5. ASSUME NEW m \in nodes, Before(m.path, n.path) PROVE FALSE
 <2>1. Pred(m) \subseteq Pred(n) BY <1>5, BeforeTransitive
 <2>2. m \in Pred(n) /\ m \notin Pred(m) BY <1>5, BeforeIrreflexive
 <2>3. Pred(m) # Pred(n) BY <2>2
 <2>4. IsFiniteSet(Pred(n)) /\ IsFiniteSet(Pred(m)) BY <1>1
 <2>5. Cardinality(Pred(m)) < Cardinality(Pred(n))
  <3> HIDE DEF Pred
  <3>1. Pred(m) \in SUBSET Pred(n) BY <2>1
  <3>2. /\ Cardinality(Pred(m)) <= Cardinality(Pred(n))
        /\ Cardinality(Pred(n)) = Cardinality(Pred(m)) => Pred(n) = Pred(m)
    BY <2>4, <3>1, FS_Subset
  <3>3. Cardinality(Pred(m)) \in Nat /\ Cardinality(Pred(n)) \in Nat BY <2>4, FS_CardinalityType
  <3> QED BY <2>3, <3>2, <3>3
 <2>6. Cardinality(Pred(n)) <= Cardinality(Pred(m)) /\ Cardinality(Pred(n)) \in Nat
       /\ Cardinality(Pred(m)) \in Nat
   BY <1>1, <1>4
 <2> HIDE DEF Pred
 <2> QED BY <2>5, <2>6
<1> QED BY <1>5

(* A row's link leads to its source. *)
LEMMA LinkLeads ==
    ASSUME NEW d, ListSound(d), NEW c, \A s \in DOMAIN c : s \in DOMAIN d.rows /\ d.canonical[s] = s,
           NEW tree, TreeSound(c, tree),
           NEW i \in DOMAIN d.rows, \E n \in tree : d.canonical[i] \in {n.source, n.connection}
    PROVE  Find(d, tree, SourceKey(i)).source = d.canonical[i]
<1> DEFINE selection == SourceKey(i)
           Direct(n) == selection \in Answers(d, n).names
           hits == {n \in tree : Direct(n)
                        \/ (n.connection # None /\ selection \in ConnectionAnswers(d, n).names)}
           n == CHOOSE n \in hits : \A m \in hits : m = n \/ ~Before(m.path, n.path)
           found == IF Direct(n) THEN n.source ELSE n.connection
<1>1. d.canonical[i] \in DOMAIN d.rows /\ None \notin DOMAIN d.rows
  BY CanonicalSource DEF ListSound, ChecksAreCopies
<1>2. i \in Aliases(d, d.canonical[i]) BY DEF Aliases
<1>3. PICK m \in tree : d.canonical[i] \in {m.source, m.connection} OBVIOUS
<1>4. m \in hits
 <2>1. CASE d.canonical[i] = m.source BY <1>2, <2>1 DEF Answers
 <2>2. CASE d.canonical[i] = m.connection BY <1>1, <1>2, <2>2 DEF ConnectionAnswers
 <2> QED BY <1>3, <2>1, <2>2
<1>5. n \in hits
 <2>1. IsFiniteSet(hits) /\ \A h \in hits : IsPath(h.path) BY FS_Subset DEF TreeSound, NodeSound
 <2> HIDE DEF hits
 <2>2. \E h \in hits : \A o \in hits : o = h \/ ~Before(o.path, h.path) BY <1>4, <2>1, MetFirst
 <2> QED BY <2>2
<1>6. Find(d, tree, selection).source = found BY <1>4 DEF Find
<1>7. NodeSound(c, n) BY <1>5 DEF TreeSound
<1>8. \A j : SourceKey(j) = SourceKey(i) => j = i BY DEF SourceKey
<1>9. SourceKey(i)[1] = "source" BY DEF SourceKey
<1>10. n \in tree /\ (Direct(n) \/ (n.connection # None /\ selection \in ConnectionAnswers(d, n).names))
  BY <1>5
<1> HIDE DEF n, hits
<1>11. CASE Direct(n)
 <2>1. SourceKey(i) = Key(n) \/ \E j \in Aliases(d, n.source) : SourceKey(i) = SourceKey(j)
   BY <1>11 DEF Answers
 <2>2. CASE SourceKey(i) = Key(n)
  <3>1. n.source \in DOMAIN c /\ i = n.source BY <1>7, <1>8, <1>9, <2>2 DEF NodeSound
  <3> QED BY <1>6, <1>11, <3>1
 <2>3. CASE \E j \in Aliases(d, n.source) : SourceKey(i) = SourceKey(j)
  <3>1. i \in Aliases(d, n.source) BY <1>8, <2>3
  <3> QED BY <1>6, <1>11, <3>1 DEF Aliases
 <2> QED BY <2>1, <2>2, <2>3
<1>12. CASE ~Direct(n)
 <2>1. n.connection # None /\ \E j \in Aliases(d, n.connection) \cup {n.connection} : SourceKey(i) = SourceKey(j)
   BY <1>10, <1>12 DEF ConnectionAnswers
 <2>2. i \in Aliases(d, n.connection) \cup {n.connection} BY <1>8, <2>1
 <2>3. d.canonical[n.connection] = n.connection BY <1>7, <2>1 DEF NodeSound
 <2>4. d.canonical[i] = n.connection BY <2>2, <2>3 DEF Aliases
 <2> QED BY <1>6, <1>12, <2>4
<1> QED BY <1>11, <1>12

----------------------------------------------------------------------------
(* Every source has a place. *)

(* The lists of the code's caches, with their trees. *)
LEMMA ListsAreSound ==
    ASSUME NEW i \in DOMAIN Inventories
    PROVE  ListSound(Lists[i])
<1> DEFINE inventory == Inventories[i]
           d == ListOf(inventory, CanonicalIn(inventory))
<1>1. Lists[i] = d BY CachesAreBuilt
<1>2. /\ ChecksAreCopies(inventory.rows) /\ IsFiniteSet(DOMAIN inventory.rows)
      /\ IsFiniteSet(DOMAIN inventory.areas) /\ IsFiniteSet(inventory.floors)
  BY InventoriesAssumption
<1>3. /\ d.rows = inventory.rows /\ d.areas = inventory.areas /\ d.floors = inventory.floors
      /\ d.canonical = CanonicalIn(inventory)
  BY DEF ListOf
<1> HIDE DEF d
<1>4. \A r : CanonicalId(d, r) = CanonicalId(inventory, r) BY <1>3 DEF CanonicalId, EntityRow
<1>5. d.canonical = [r \in DOMAIN d.rows |-> CanonicalId(d, r)] BY <1>3, <1>4 DEF CanonicalIn
<1> QED BY <1>1, <1>2, <1>3, <1>5 DEF ListSound

(* What the page shows has every source, and every link leads to one. *)
LEMMA EverythingListed ==
    ASSUME DataFits, PageFits
    PROVE  EverySourceListed
<1> DEFINE i == catalog.inventory
           d == Lists[i]
           g == page.grouping
           t == topology.response
           all == page.showDisabled
           k == <<i, g, t, all>>
           c == Sources(d, all)
           tree == Tree(d, g, t, all)
<1>1. i \in DOMAIN Inventories /\ g \in Groupings /\ t \in Responses /\ all \in BOOLEAN
  BY DEF DataFits, PageFits, PageShape
<1>2. Trees[k] = tree /\ Places[k] = PlacesIn(d, tree) /\ Shows[<<i, all>>] = c
  BY <1>1, CachesAreBuilt
<1>3. ListSound(d) BY <1>1, ListsAreSound
<1>4. t \in Seq(Range(t)) BY <1>1, ResponsesAssumption
<1>5. TreeOf(catalog, page, topology, all) = tree BY <1>2 DEF TreeOf
<1>6. \A r \in DOMAIN d.rows :
          Place(catalog, page, topology, all, SourceKey(r)) = Find(d, tree, SourceKey(r))
 <2> DEFINE names == {SourceKey(r) : r \in DOMAIN d.rows} \cup {Key(n) : n \in tree}
            places == PlacesIn(d, tree)
 <2>1. places = [name \in names |-> Find(d, tree, name)] BY DEF PlacesIn
 <2>2. \A selection : Place(catalog, page, topology, all, selection) =
                        IF selection \in DOMAIN places THEN places[selection] ELSE NoPlace
   BY <1>2 DEF Place
 <2>3. \A r \in DOMAIN d.rows : SourceKey(r) \in names OBVIOUS
 <2> HIDE DEF places, names, d, tree, all
 <2> QED BY <2>1, <2>2, <2>3
<1> HIDE DEF d, g, t, tree, i
<1>7. \A s \in DOMAIN c : s \in DOMAIN d.rows /\ d.canonical[s] = s BY <1>3, SourcesOwn
<1>8. TreeSound(c, tree) BY <1>3, <1>4, TreeIsSound DEF tree
<1>9. \A s \in DOMAIN c : \E n \in tree : s \in {n.source, n.connection} BY <1>3, TreeLists DEF tree
<1> HIDE DEF c
<1>10. ASSUME NEW r \in DOMAIN d.rows, d.canonical[r] \in DOMAIN c
       PROVE  Find(d, tree, SourceKey(r)).source = d.canonical[r]
  BY <1>3, <1>7, <1>8, <1>9, <1>10, LinkLeads
<1>11. DOMAIN c \subseteq UNION {{n.source, n.connection} : n \in tree} BY <1>9
<1>12. Shows[<<catalog.inventory, page.showDisabled>>] = c /\ Lists[catalog.inventory] = d
  BY <1>2 DEF d, i
<1> HIDE DEF all
<1>13. TreeOf(catalog, page, topology, page.showDisabled) = tree BY <1>5 DEF all
<1>14. \A r \in DOMAIN d.rows :
          Place(catalog, page, topology, page.showDisabled, SourceKey(r)) = Find(d, tree, SourceKey(r))
  BY <1>6 DEF all
<1> QED BY <1>10, <1>11, <1>12, <1>13, <1>14 DEF EverySourceListed

(* Each source the page may show is in its tree, links to its checks lead to  *)
(* it, and a grouping by locations nobody can use is left.                    *)
THEOREM SourcesAreReachable == Spec => []SourcesReachable
<1>1. DataFits /\ PageFits => SourcesReachable BY EverythingListed DEF SourcesReachable, PageFits
<1> QED BY <1>1, ShownSafety, PTL

----------------------------------------------------------------------------
(* The shape of the trees: at which depths a source is met. *)

(* What is known of a place and of the one below it. *)
LEMMA PathParts ==
    ASSUME NEW p, IsPath(p)
    PROVE  /\ Len(p) \in Nat /\ DOMAIN p = 1..Len(p)
           /\ p = <<>> <=> Len(p) = 0
           /\ p # <<>> => /\ IsPath(Front(p)) /\ Len(Front(p)) = Len(p) - 1
                          /\ \A i \in 1 .. Len(p) - 1 : Front(p)[i] = p[i]
                          /\ p = Append(Front(p), Last(p)) /\ Last(p) = p[Len(p)]
<1>1. PICK K : p \in Seq(K) BY DEF IsPath
<1>2. ASSUME p # <<>>
      PROVE  /\ IsPath(Front(p)) /\ Len(Front(p)) = Len(p) - 1
             /\ \A i \in 1 .. Len(p) - 1 : Front(p)[i] = p[i]
             /\ p = Append(Front(p), Last(p)) /\ Last(p) = p[Len(p)]
 <2>1. Len(p) \in Nat \ {0} BY <1>1, <1>2
 <2>2. Front(p) = SubSeq(p, 1, Len(p) - 1) /\ Last(p) = p[Len(p)] BY DEF Front, Last
 <2>3. SubSeq(p, 1, Len(p) - 1) \in Seq(K) BY <1>1, <2>1
 <2>4. /\ Len(SubSeq(p, 1, Len(p) - 1)) = Len(p) - 1
       /\ \A i \in 1 .. Len(p) - 1 : SubSeq(p, 1, Len(p) - 1)[i] = p[i]
   BY <1>1, <2>1
 <2>5. p = Append(SubSeq(p, 1, Len(p) - 1), p[Len(p)]) BY <1>1, <2>1
 <2> QED BY <2>2, <2>3, <2>4, <2>5 DEF IsPath
<1> QED BY <1>1, <1>2

(* The place of a child. *)
LEMMA BelowParts ==
    ASSUME NEW p, IsPath(p), NEW key
    PROVE  /\ IsPath(Append(p, key)) /\ Len(Append(p, key)) = Len(p) + 1 /\ Len(p) \in Nat
           /\ Append(p, key) # <<>> /\ Front(Append(p, key)) = p /\ Last(Append(p, key)) = key
           /\ \A i \in 1..Len(p) : Append(p, key)[i] = p[i]
           /\ Append(p, key)[Len(p) + 1] = key
<1>1. PICK K : p \in Seq(K) BY DEF IsPath
<1>2. p \in Seq(K \cup {key}) /\ key \in K \cup {key} BY <1>1
<1>3. Len(Append(p, key)) = Len(p) + 1 /\ Len(p) \in Nat BY <1>2
<1>4. (\A i \in 1..Len(p) : Append(p, key)[i] = p[i]) /\ Append(p, key)[Len(p) + 1] = key BY <1>2
<1>5. SubSeq(Append(p, key), 1, Len(p)) = p BY <1>2
<1>6. Front(Append(p, key)) = p BY <1>3, <1>5 DEF Front
<1> QED BY <1>3, <1>4, <1>6, LongerPath

(* A place is below its parent, and no source is met at two depths below one  *)
(* root, but for a device that has no row of its own, in the locations.       *)
Grown(T) == \A n \in T : Front(n.path) # <<>> => \E m \in T : m.path = Front(n.path)
Levelled(T) ==
    \A n, m \in T :
        n.path[1] = m.path[1] /\ Key(n) = Key(m) /\ Len(m.path) < Len(n.path) =>
            n.path[Len(m.path)][1] = "location" /\ Key(m)[1] # "location"

(* A connection is beside one device, or has a row, which is at the top if    *)
(* it has both.                                                               *)
Joined(T) ==
    \A n, m \in T : m.connection # None =>
        /\ n.connection = m.connection => n.path = m.path
        /\ n.source = m.connection => Len(n.path) = 1

Orderly(T) == Grown(T) /\ Levelled(T) /\ Joined(T)
Paths(T) == \A n \in T : IsPath(n.path) /\ n.path # <<>>
Roots(T) == {n.path[1] : n \in T}

(* A tree below some roots, where nothing is beside a connection or not.      *)
Planted(T, roots) == Levelled(T) /\ Grown(T) /\ Roots(T) \subseteq roots
Alone(T) == \A n \in T : n.connection = None

(* Trees below different roots are one. *)
LEMMA PlantedTogether ==
    ASSUME NEW S, NEW A, Planted(S, A), NEW T, NEW B, Planted(T, B), A \cap B = {}
    PROVE  Planted(S \cup T, A \cup B)
<1>1. \A n \in S, m \in T : n.path[1] # m.path[1] BY DEF Roots, Planted
<1>2. Levelled(S \cup T) BY <1>1 DEF Levelled, Planted
<1>3. Grown(S \cup T) BY DEF Grown, Planted
<1> QED BY <1>2, <1>3 DEF Roots, Planted

(* So are many, each below a root of its own. *)
LEMMA PlantedEach ==
    ASSUME NEW S, NEW f, DOMAIN f = S, NEW root, \A x \in S : Planted(f[x], {root[x]}),
           \A x, y \in S : x # y => root[x] # root[y]
    PROVE  Planted(UNION {f[x] : x \in S}, {root[x] : x \in S})
<1> DEFINE T == UNION {f[x] : x \in S}
<1>1. Grown(T)
 <2> SUFFICES ASSUME NEW n \in T, Front(n.path) # <<>>
              PROVE  \E m \in T : m.path = Front(n.path)
   BY DEF Grown
 <2>1. PICK x \in S : n \in f[x] OBVIOUS
 <2> QED BY <2>1 DEF Grown, Planted
<1>2. Levelled(T)
 <2> SUFFICES ASSUME NEW n \in T, NEW m \in T, n.path[1] = m.path[1], Key(n) = Key(m),
                     Len(m.path) < Len(n.path)
              PROVE  n.path[Len(m.path)][1] = "location" /\ Key(m)[1] # "location"
   BY DEF Levelled
 <2>1. PICK x \in S, y \in S : n \in f[x] /\ m \in f[y] OBVIOUS
 <2>2. n.path[1] = root[x] /\ m.path[1] = root[y] BY <2>1 DEF Roots, Planted
 <2>3. x = y BY <2>2
 <2> QED BY <2>1, <2>3 DEF Levelled, Planted
<1>3. Roots(T) \subseteq {root[x] : x \in S} BY DEF Roots, Planted
<1> QED BY <1>1, <1>2, <1>3 DEF Planted

(* A titled list: its rows are below the title. *)
LEMMA SectionShape ==
    ASSUME NEW id, NEW some
    PROVE  /\ Planted(Section(id, some), {<<"section", id>>}) /\ Alone(Section(id, some))
           /\ \A n \in Section(id, some) : n.source \in some \cup {None}
<1> DEFINE root == <<<<"section", id>>>>
<1>1. IsPath(root) /\ root # <<>> /\ Last(root) = <<"section", id>> /\ Len(root) = 1 /\ root[1] = <<"section", id>>
  BY ShortPaths
<1> HIDE DEF root
<1>2. ASSUME NEW n \in Section(id, some)
      PROVE  /\ n = Node(root, None) \/ \E s \in some : n = Leaf(root, s)
             /\ Node(root, None) \in Section(id, some)
  BY DEF Section, Leaves, root
<1>3. ASSUME NEW n \in Section(id, some)
      PROVE  /\ n.connection = None /\ n.source \in some \cup {None} /\ n.path[1] = <<"section", id>>
             /\ \/ n.path = root
                \/ Front(n.path) = root /\ Len(n.path) = 2 /\ Key(n)[1] = "source"
 <2>1. CASE n = Node(root, None) BY <1>1, <2>1 DEF Node
 <2>2. ASSUME NEW s \in some, n = Leaf(root, s) PROVE <1>3!2
  <3>1. n = [path |-> Append(root, SourceKey(s)), source |-> s, connection |-> None]
    BY <2>2 DEF Leaf, Node
  <3>2. n.path = Append(root, SourceKey(s)) /\ n.source = s /\ n.connection = None BY <3>1
  <3>3. /\ Len(n.path) = Len(root) + 1 /\ Front(n.path) = root /\ Last(n.path) = SourceKey(s)
        /\ \A i \in 1..Len(root) : n.path[i] = root[i]
   <4> DEFINE key == SourceKey(s)
           below == Append(root, key)
   <4>1. IsPath(root) BY <1>1
   <4> HIDE DEF key
   <4>2. /\ Len(below) = Len(root) + 1 /\ Front(below) = root /\ Last(below) = key
         /\ \A i \in 1..Len(root) : below[i] = root[i]
    BY <4>1, BelowParts
   <4> HIDE DEF below
   <4> QED BY Zenon, <3>2, <4>2 DEF key, below
  <3>4. Len(n.path) = 2 /\ n.path[1] = <<"section", id>> BY <1>1, <3>3
  <3> QED BY <3>2, <3>3, <3>4 DEF Key, SourceKey
 <2> QED BY <1>2, <2>1, <2>2
<1>4. Grown(Section(id, some))
 <2>1. Front(root) = <<>> BY <1>1, PathParts
 <2>2. Node(root, None).path = root BY DEF Node
 <2> QED BY <1>2, <1>3, <2>1, <2>2 DEF Grown
<1>5. Levelled(Section(id, some))
 <2>1. <<"section", id>>[1] # "source" OBVIOUS
 <2> QED BY <1>1, <1>3, <2>1 DEF Levelled, Key
<1> QED BY <1>3, <1>4, <1>5 DEF Roots, Planted, Alone

(* The row of a device, and the row of a reading below it. *)
DeviceKey(c, summaries, v) ==
    LET summary == {s \in summaries : DeviceOf(c[s]) = v}
    IN  IF summary = {} THEN <<"device", v>> ELSE SourceKey(First(summary))
IsDevice(c, summaries, n, path, v, connection) ==
    /\ n.path = Append(path, DeviceKey(c, summaries, v)) /\ n.connection = connection
    /\ \/ Key(n) = <<"device", v>> /\ n.source = None
       \/ \E s \in summaries : DeviceOf(c[s]) = v /\ Key(n) = SourceKey(s) /\ n.source = s
IsReading(c, readings, n, path, v) ==
    /\ Len(n.path) = Len(path) + 2 /\ n.connection = None
    /\ \E s \in readings : DeviceOf(c[s]) = v /\ Key(n) = SourceKey(s) /\ n.source = s

DeviceShaped(c, path, v, summaries, readings, connection, n) ==
    /\ \A i \in 1..Len(path) : n.path[i] = path[i]
    /\ \/ /\ IsDevice(c, summaries, n, path, v, connection)
          /\ Front(n.path) = path /\ Len(n.path) = Len(path) + 1
       \/ /\ IsReading(c, readings, n, path, v)
          /\ Front(n.path) = Append(path, DeviceKey(c, summaries, v))
          /\ \E m \in DeviceNodes(c, path, v, summaries, readings, connection) : m.path = Front(n.path)

(* What is at a device and below it: itself, or one of its readings. *)
LEMMA DeviceShape ==
    ASSUME NEW c, SourcesSound(c), NEW path, IsPath(path), NEW v,
           NEW summaries \in SUBSET DOMAIN c, NEW readings, NEW connection,
           NEW n \in DeviceNodes(c, path, v, summaries, readings, connection)
    PROVE  DeviceShaped(c, path, v, summaries, readings, connection, n)
<1> DEFINE summary == {s \in summaries : DeviceOf(c[s]) = v}
           key == IF summary = {} THEN <<"device", v>> ELSE SourceKey(First(summary))
           at == Append(path, key)
           source == IF summary = {} THEN None ELSE First(summary)
           top == [path |-> at, source |-> source, connection |-> connection]
           under == {s \in readings : DeviceOf(c[s]) = v}
           nodes == DeviceNodes(c, path, v, summaries, readings, connection)
<1>1. nodes = {top} \cup Leaves(at, under) /\ key = DeviceKey(c, summaries, v)
  BY DEF DeviceNodes, DeviceKey
<1>2. summary # {} => First(summary) \in summary BY DEF SourcesSound
<1>3. \/ key = <<"device", v>> /\ source = None
      \/ \E s \in summaries : DeviceOf(c[s]) = v /\ key = SourceKey(s) /\ source = s
  BY <1>2
<1>4. /\ IsPath(at) /\ Len(at) = Len(path) + 1 /\ Len(path) \in Nat /\ Front(at) = path /\ Last(at) = key
      /\ \A i \in 1..Len(path) : at[i] = path[i]
 <2> HIDE DEF key
 <2> QED BY BelowParts
<1>5. top \in nodes /\ IsDevice(c, summaries, top, path, v, connection) /\ top.path = at
 <2>1. at = Append(path, key) OBVIOUS
 <2> HIDE DEF at, key, source
 <2> QED BY <1>1, <1>3, <1>4, <2>1 DEF IsDevice, Key
<1>6. CASE n = top
 <2> HIDE DEF top, at, nodes
 <2> QED BY <1>4, <1>5, <1>6 DEF DeviceShaped
<1>7. ASSUME NEW s \in under, n = Leaf(at, s)
      PROVE  /\ \A i \in 1..Len(path) : n.path[i] = path[i]
             /\ IsReading(c, readings, n, path, v) /\ Front(n.path) = at
 <2> HIDE DEF at
 <2>1. n = [path |-> Append(at, SourceKey(s)), source |-> s, connection |-> None]
   BY <1>7 DEF Leaf, Node
 <2>2. /\ Front(n.path) = at /\ Len(n.path) = Len(at) + 1 /\ Last(n.path) = SourceKey(s)
       /\ \A i \in 1..Len(at) : n.path[i] = at[i]
   BY <1>4, <2>1, BelowParts
 <2>3. \A i \in 1..Len(path) : n.path[i] = path[i] BY <1>4, <2>2
 <2>4. Len(n.path) = Len(path) + 2 BY <1>4, <2>2
 <2> QED BY <2>1, <2>2, <2>3, <2>4 DEF IsReading, Key
<1>8. n = top \/ \E s \in under : n = Leaf(at, s) BY <1>1 DEF Leaves
<1>9. at = Append(path, DeviceKey(c, summaries, v)) BY <1>1
<1> HIDE DEF top, at, under, nodes
<1> QED BY <1>5, <1>6, <1>7, <1>8, <1>9 DEF nodes, DeviceShaped

(* A row is right below the place it is in. *)
LEMMA LeafShape ==
    ASSUME NEW path, IsPath(path), NEW some, NEW n \in Leaves(path, some)
    PROVE  /\ Front(n.path) = path /\ Len(n.path) = Len(path) + 1 /\ n.connection = None
           /\ \A i \in 1..Len(path) : n.path[i] = path[i]
           /\ \E s \in some : n.path = Append(path, SourceKey(s)) /\ Key(n) = SourceKey(s) /\ n.source = s
<1>1. PICK s \in some : n = [path |-> Append(path, SourceKey(s)), source |-> s, connection |-> None]
  BY DEF Leaves, Leaf, Node
<1>2. /\ Front(n.path) = path /\ Len(n.path) = Len(path) + 1 /\ Last(n.path) = SourceKey(s)
      /\ \A i \in 1..Len(path) : n.path[i] = path[i]
  BY <1>1, BelowParts
<1> QED BY <1>1, <1>2 DEF Key

(* What is not a device or a connection may be read below a device. *)
Readers(c) == {s \in DOMAIN c : c[s].kind \notin {"integration", "device"}}

(* A device with its readings fits into a tree that has the place above it.   *)
DeviceFit(c, path, v, summaries, readings, connection, T, n) ==
    /\ \A i \in 1..Len(path) : n.path[i] = path[i]
    /\ \E m \in T : m.path = Front(n.path)
    /\ n.source \notin Connections(c)
    /\ n.connection # None =>
           n.connection = connection /\ n.path = Append(path, DeviceKey(c, summaries, v))
    /\ \/ /\ Len(n.path) = Len(path) + 1
          /\ \/ Key(n) = <<"device", v>>
             \/ \E s \in summaries : DeviceOf(c[s]) = v /\ Key(n) = SourceKey(s)
       \/ Len(n.path) = Len(path) + 2 /\ \E s \in readings : DeviceOf(c[s]) = v /\ Key(n) = SourceKey(s)

(* A device fits below any place of a tree. *)
LEMMA DeviceFits ==
    ASSUME NEW c, SourcesSound(c), None \notin DOMAIN c,
           NEW path, IsPath(path), path # <<>>, NEW v,
           NEW summaries \in SUBSET OfKind(c, {"device"}), NEW readings \in SUBSET Readers(c),
           NEW connection, NEW T, \E m \in T : m.path = path,
           DeviceNodes(c, path, v, summaries, readings, connection) \subseteq T,
           NEW n \in DeviceNodes(c, path, v, summaries, readings, connection)
    PROVE  DeviceFit(c, path, v, summaries, readings, connection, T, n)
<1> DEFINE nodes == DeviceNodes(c, path, v, summaries, readings, connection)
<1>1. summaries \in SUBSET DOMAIN c BY DEF OfKind
<1>2. /\ \A i \in 1..Len(path) : n.path[i] = path[i]
      /\ \/ /\ IsDevice(c, summaries, n, path, v, connection)
            /\ Front(n.path) = path /\ Len(n.path) = Len(path) + 1
         \/ /\ IsReading(c, readings, n, path, v)
            /\ Front(n.path) = Append(path, DeviceKey(c, summaries, v))
            /\ \E m \in nodes : m.path = Front(n.path)
 <2>1. DeviceShaped(c, path, v, summaries, readings, connection, n) BY <1>1, DeviceShape
 <2> QED BY <2>1 DEF DeviceShaped
<1>3. nodes \subseteq T OBVIOUS
<1>4. \A s \in summaries \cup readings \cup {None} : s \notin Connections(c)
  BY DEF Connections, OfKind, Readers
<1> HIDE DEF nodes
<1>5. \E m \in T : m.path = Front(n.path) BY <1>2, <1>3
<1>6. CASE IsDevice(c, summaries, n, path, v, connection) /\ Len(n.path) = Len(path) + 1
  BY <1>2, <1>4, <1>5, <1>6 DEF IsDevice, DeviceFit
<1>7. CASE IsReading(c, readings, n, path, v) BY <1>2, <1>4, <1>5, <1>7 DEF IsReading, DeviceFit
<1> QED BY <1>2, <1>6, <1>7 DEF DeviceFit

(* The root of a family. *)
FamilyKey(c, groups) ==
    LET entries == groups \ {None}
    IN  IF Cardinality(entries) = 1 THEN SourceKey(First(entries))
        ELSE <<"family", FamilyOf(c, CHOOSE g \in groups : TRUE)>>

(* How deep something is in its family: devices of a connection with a row    *)
(* are below that row, and so is what it has without a device.                *)
FamilyLevel(c, root, deep, low, key) ==
    LET Level(v) == IF v \in deep THEN 3 ELSE 2
        s == key[2]
    IN  IF key = root THEN 1
        ELSE IF key[1] = "device" THEN Level(key[2])
        ELSE IF c[s].kind = "integration" THEN 2
        ELSE IF c[s].kind = "device" THEN Level(DeviceOf(c[s]))
        ELSE IF DeviceOf(c[s]) # None THEN Level(DeviceOf(c[s])) + 1
        ELSE IF GroupOf(c, s) \in low THEN 3 ELSE 2

Familial(c, groups, F) ==
    /\ Planted(F, {FamilyKey(c, groups)}) /\ Joined(F)
    /\ \A n \in F : /\ n.connection \in groups \cup {None}
                    /\ n.source \in Connections(c) => n.source \in groups

(* The connections of one domain, and what is below them. *)
LEMMA FamilyShape ==
    ASSUME NEW d, NEW c, SourcesSound(c), None \notin DOMAIN c,
           NEW groups \in SUBSET (Connections(c) \cup {None})
    PROVE  Familial(c, groups, FamilyNodes(d, c, groups))
<1> DEFINE entries == groups \ {None}
           single == Cardinality(entries) = 1
           many == Cardinality(entries) > 1
           devices == GroupDevices(c, groups)
           Loose(some) == {s \in Grouped(c, some) : DeviceOf(c[s]) = None}
           Owned(e) == {v \in devices : v \in DOMAIN d.registry /\ d.registry[v] = e}
           summaries == OfKind(c, {"device"})
           Summarised(v) == \E s \in summaries : DeviceOf(c[s]) = v
           Paired(e) == /\ Loose({e}) = {}
                        /\ \E v \in devices : Owned(e) = {v} /\ Summarised(v)
           root == IF single THEN Node(<<SourceKey(First(entries))>>, First(entries))
                   ELSE Node(<<<<"family", FamilyOf(c, CHOOSE g \in groups : TRUE)>>>>, None)
           Under(path, v, connection) ==
               DeviceNodes(c, path, v, summaries, Grouped(c, groups), connection)
           Connection(e) ==
               IF Paired(e) THEN Under(root.path, CHOOSE v \in Owned(e) : TRUE, e)
               ELSE LET own == Leaf(root.path, e)
                    IN  {own} \cup Leaves(own.path, Loose({e}))
                        \cup UNION {Under(own.path, v, None) : v \in Owned(e)}
           pair == single /\ Paired(First(entries)) /\ Cardinality(devices) = 1
           mate == IF pair THEN First(entries) ELSE None
           stray == {v \in devices : \A e \in entries : v \notin Owned(e)}
           F == FamilyNodes(d, c, groups)
           key == FamilyKey(c, groups)
           deep == {v \in devices : many /\ \E e \in entries : v \in Owned(e) /\ ~Paired(e)}
           low == IF many THEN entries ELSE {}
           Level(k) == FamilyLevel(c, key, deep, low, k)
           DL(v) == IF v \in deep THEN 3 ELSE 2
           readings == Grouped(c, groups)
<1>1. F = {root} \cup
          IF many
          THEN (UNION {Connection(e) : e \in entries}) \cup Leaves(root.path, Loose(groups \ entries))
               \cup UNION {Under(root.path, v, None) : v \in stray}
          ELSE Leaves(root.path, Loose(groups)) \cup UNION {Under(root.path, v, mate) : v \in devices}
  BY DEF FamilyNodes
<1>2. /\ entries \subseteq DOMAIN c /\ \A e \in entries : c[e].kind = "integration"
      /\ summaries \subseteq DOMAIN c /\ \A s \in summaries : c[s].kind = "device"
      /\ \A some : \A s \in Grouped(c, some) : /\ s \in DOMAIN c /\ c[s].kind \notin {"integration", "device"}
                                             /\ GroupOf(c, s) \in some
 <2>1. \A s \in Readable(c) : s \in DOMAIN c /\ c[s].kind \notin {"integration", "device"}
   BY DEF Readable, OfKind, Readings
 <2> QED BY <2>1 DEF Connections, OfKind, Grouped
<1>3. single => First(entries) \in entries BY <1>2, FS_EmptySet DEF SourcesSound
<1>4. single => ~many OBVIOUS
<1>5. /\ root.path = <<key>> /\ root.connection = None
      /\ IF single THEN key = SourceKey(First(entries)) /\ root.source = First(entries)
         ELSE key[1] = "family" /\ root.source = None
  BY DEF Node, FamilyKey
<1>6. IsPath(<<key>>) /\ Len(<<key>>) = 1 /\ <<key>>[1] = key /\ Last(<<key>>) = key /\ Front(<<key>>) = <<>>
 <2>1. IsPath(<<key>>) /\ <<key>> # <<>> /\ Last(<<key>>) = key
  <3> HIDE DEF key
  <3> QED BY ShortPaths
 <2>2. Len(<<key>>) = 1 /\ <<key>>[1] = key OBVIOUS
 <2> HIDE DEF key
 <2>3. Len(Front(<<key>>)) = 0 /\ IsPath(Front(<<key>>)) BY <2>1, <2>2, PathParts
 <2> QED BY <2>1, <2>2, <2>3, PathParts
<1>7. /\ \A v \in stray : v \notin deep
      /\ \A e \in entries : \A v \in Owned(e) : Paired(e) => v \notin deep
      /\ \A e \in entries : \A v \in Owned(e) : many /\ ~Paired(e) => v \in deep
      /\ ~many => deep = {}
 <2> HIDE DEF entries, many, devices, Paired
 <2> QED OBVIOUS
<1>8. \A e \in entries : Paired(e) => \E v \in devices : Owned(e) = {v} OBVIOUS
<1>9. pair => \A v, w \in devices : v = w
 <2>1. IsFiniteSet(devices)
  <3>1. PICK some \in SUBSET DOMAIN c : devices = Devices(c, some) BY <1>2 DEF GroupDevices, OfKind
  <3> QED BY <3>1, FewDevices
 <2> HIDE DEF devices
 <2> QED BY <2>1, FS_Singleton
<1> HIDE DEF many, Owned, Paired, entries
<1> DEFINE Root(n) == n = root
           Own(n) == \E e \in entries : many /\ ~Paired(e) /\ n = Leaf(<<key>>, e)
           Low(n) == \E e \in entries : many /\ ~Paired(e) /\ n \in Leaves(Leaf(<<key>>, e).path, Loose({e}))
           Deep(n) == \E e \in entries : many /\ ~Paired(e)
                        /\ \E v \in Owned(e) : /\ n \in Under(Leaf(<<key>>, e).path, v, None)
                                              /\ Under(Leaf(<<key>>, e).path, v, None) \subseteq F
           High(n) == n \in Leaves(<<key>>, Loose(IF many THEN groups \ entries ELSE groups))
           Device(n) == \E v \in devices, e \in groups \cup {None} :
                            /\ v \notin deep /\ n \in Under(<<key>>, v, e) /\ Under(<<key>>, v, e) \subseteq F
                            /\ e # None => IF many THEN Owned(e) = {v} /\ Paired(e) ELSE pair /\ e = First(entries)
<1>10. \A e \in entries : many /\ ~Paired(e) => Leaf(<<key>>, e) \in F
 <2> HIDE DEF F, root, key, devices, summaries, stray, Paired, Owned, Loose, Under
 <2> QED BY <1>1, <1>5
<1>11. ASSUME NEW n \in F
       PROVE  Root(n) \/ Own(n) \/ Low(n) \/ Deep(n) \/ High(n) \/ Device(n)
 <2>1. root.path = <<key>> BY <1>5
 <2> HIDE DEF F, root, key, devices, summaries, stray, deep, mate
 <2>2. ASSUME many, NEW e \in entries, n \in Connection(e) PROVE <1>11!2
  <3>1. CASE Paired(e)
   <4>1. PICK v \in devices : Owned(e) = {v} BY <1>8, <3>1
   <4>2. v \in Owned(e) /\ (CHOOSE w \in Owned(e) : TRUE) = v BY <4>1
   <4> HIDE DEF Owned, Paired, Under
   <4>3. n \in Under(<<key>>, v, e) /\ Under(<<key>>, v, e) \subseteq F
    <5>1. Connection(e) = Under(<<key>>, v, e) BY <2>1, <3>1, <4>2
    <5> HIDE DEF Connection
    <5>2. Connection(e) \subseteq F BY <1>1, <2>2
    <5> QED BY <2>2, <5>1, <5>2
   <4>4. v \notin deep /\ e # None /\ e \in groups BY <1>7, <3>1, <4>2 DEF entries
   <4>5. Device(n) BY <2>2, <3>1, <4>1, <4>3, <4>4
   <4> QED BY <4>5
  <3>2. CASE ~Paired(e)
   <4> DEFINE own == Leaf(<<key>>, e)
              owned == Owned(e)
   <4>1. Connection(e) = {own} \cup Leaves(own.path, Loose({e})) \cup UNION {Under(own.path, v, None) : v \in owned}
     BY <2>1, <3>2
   <4>2. Connection(e) \subseteq F
    <5> HIDE DEF Connection
    <5> QED BY <1>1, <2>2
   <4> HIDE DEF Owned, Paired, Under, Loose, Connection, owned
   <4>3. CASE n = own BY <2>2, <3>2, <4>3
   <4>4. CASE n \in Leaves(own.path, Loose({e})) BY <2>2, <3>2, <4>4
   <4>5. ASSUME NEW v \in owned, n \in Under(own.path, v, None) PROVE Deep(n)
    <5>1. Under(own.path, v, None) \subseteq F BY <4>1, <4>2
    <5> QED BY <2>2, <3>2, <4>5, <5>1 DEF owned
   <4> HIDE DEF own, Deep, Low, Own
   <4> QED BY <2>2, <4>1, <4>3, <4>4, <4>5
  <3> QED BY <3>1, <3>2
 <2>3. CASE n = root BY <2>3
 <2>4. CASE many /\ n \in Leaves(root.path, Loose(groups \ entries)) BY <2>1, <2>4
 <2>5. ASSUME many, NEW v \in stray, n \in Under(root.path, v, None) PROVE Device(n)
  <3>1. v \in devices /\ v \notin deep BY <1>7, <2>5 DEF stray
  <3> HIDE DEF Owned, Paired, Under
  <3>2. Under(<<key>>, v, None) \subseteq F
   <4> HIDE DEF Connection
   <4> QED BY <1>1, <2>1, <2>5
  <3> QED BY <2>1, <2>5, <3>1, <3>2
 <2>6. CASE ~many /\ n \in Leaves(root.path, Loose(groups)) BY <2>1, <2>6
 <2>7. ASSUME ~many, NEW v \in devices, n \in Under(root.path, v, mate) PROVE Device(n)
  <3>1. v \notin deep BY <1>7, <2>7
  <3>2. mate \in groups \cup {None} /\ (mate # None => pair /\ mate = First(entries))
   <4>1. single => First(entries) \in groups BY <1>3 DEF entries
   <4> HIDE DEF single, Paired
   <4> QED BY <4>1 DEF mate
  <3> HIDE DEF Owned, Paired, Under, pair
  <3>3. n \in Under(<<key>>, v, mate) /\ Under(<<key>>, v, mate) \subseteq F
   <4> HIDE DEF Connection
   <4> QED BY <1>1, <2>1, <2>7
  <3> QED BY <2>7, <3>1, <3>2, <3>3
 <2> HIDE DEF Connection, Under, Root, Own, Low, Deep, High, Device, Loose
 <2>8. CASE many
  <3>1. n = root \/ (\E e \in entries : n \in Connection(e)) \/ n \in Leaves(root.path, Loose(groups \ entries))
        \/ \E v \in stray : n \in Under(root.path, v, None)
    BY <1>1, <2>8
  <3> QED BY <2>2, <2>3, <2>4, <2>5, <2>8, <3>1 DEF Root, High
 <2>9. CASE ~many
  <3>1. n = root \/ n \in Leaves(root.path, Loose(groups)) \/ \E v \in devices : n \in Under(root.path, v, mate)
    BY <1>1, <2>9
  <3> QED BY <2>3, <2>6, <2>7, <2>9, <3>1 DEF Root, High
 <2> QED BY <2>8, <2>9
<1>12. ASSUME NEW s PROVE SourceKey(s)[1] = "source" /\ SourceKey(s)[2] = s /\ (SourceKey(s) = key => single /\ s = First(entries))
 <2>1. \A r : SourceKey(r) = SourceKey(s) => r = s BY DEF SourceKey
 <2>2. SourceKey(s)[1] = "source" /\ SourceKey(s)[2] = s BY DEF SourceKey
 <2> HIDE DEF key
 <2> QED BY <1>5, <2>1, <2>2
<1>13. /\ Level(key) = 1
       /\ \A e \in entries : many => Level(SourceKey(e)) = 2
       /\ \A s \in summaries : Level(SourceKey(s)) = DL(DeviceOf(c[s]))
       /\ \A v : Level(<<"device", v>>) = DL(v)
       /\ \A s \in DOMAIN c : c[s].kind \notin {"integration", "device"} =>
              Level(SourceKey(s)) = IF DeviceOf(c[s]) # None THEN DL(DeviceOf(c[s])) + 1
                                    ELSE IF GroupOf(c, s) \in low THEN 3 ELSE 2
 <2>1. Level(key) = 1 BY DEF FamilyLevel
 <2>2. ASSUME NEW s, ~ (single /\ s = First(entries))
       PROVE  Level(SourceKey(s)) =
                  IF c[s].kind = "integration" THEN 2
                  ELSE IF c[s].kind = "device" THEN DL(DeviceOf(c[s]))
                  ELSE IF DeviceOf(c[s]) # None THEN DL(DeviceOf(c[s])) + 1
                  ELSE IF GroupOf(c, s) \in low THEN 3 ELSE 2
  <3>1. SourceKey(s) # key /\ SourceKey(s)[1] # "device" /\ SourceKey(s)[2] = s BY <1>12, <2>2
  <3> HIDE DEF key, deep, low
  <3> QED BY <3>1 DEF FamilyLevel
 <2>3. \A v : Level(<<"device", v>>) = DL(v)
  <3>1. ASSUME NEW v PROVE <<"device", v>> # key
   <4>1. <<"device", v>>[1] = "device" OBVIOUS
   <4> HIDE DEF key
   <4> QED BY <1>5, <1>12, <4>1
  <3> HIDE DEF key, deep, low
  <3> QED BY <3>1 DEF FamilyLevel
 <2>4. \A s \in DOMAIN c : c[s].kind # "integration" => ~ (single /\ s = First(entries))
   BY <1>2, <1>3
 <2> HIDE DEF Level, DL, single, summaries
 <2>5. \A e \in entries : many => Level(SourceKey(e)) = 2 BY <1>2, <1>4, <2>2
 <2>6. \A s \in summaries : Level(SourceKey(s)) = DL(DeviceOf(c[s])) BY <1>2, <2>2, <2>4
 <2>7. \A s \in DOMAIN c : c[s].kind \notin {"integration", "device"} =>
             Level(SourceKey(s)) = IF DeviceOf(c[s]) # None THEN DL(DeviceOf(c[s])) + 1
                                   ELSE IF GroupOf(c, s) \in low THEN 3 ELSE 2
   BY <2>2, <2>4
 <2> QED BY <2>1, <2>3, <2>5, <2>6, <2>7
<1>14. \A v \in devices : v # None BY DEF GroupDevices, Devices
<1> DEFINE Up(n) == Front(n.path) # <<>> => \E m \in F : m.path = Front(n.path)
           At(n) == n.path[1] = key /\ Len(n.path) = Level(Key(n))
           Is(n) == n.source \in Connections(c) =>
                        /\ n.source \in groups
                        /\ Len(n.path) = 1 \/ (many /\ ~Paired(n.source))
           Beside(n) == n.connection # None =>
                        /\ n.connection \in entries
                        /\ \E v \in devices :
                               /\ n.path = Append(<<key>>, DeviceKey(c, summaries, v))
                               /\ IF many THEN Owned(n.connection) = {v} /\ Paired(n.connection) ELSE pair
           Fits(n) == Up(n) /\ At(n) /\ Is(n) /\ Beside(n)
           Hangs(path, v, connection, n) ==
               /\ Up(n) /\ At(n) /\ n.source \notin Connections(c)
               /\ n.connection # None => n.connection = connection /\ n.path = Append(path, DeviceKey(c, summaries, v))
<1>15. ASSUME NEW n, Root(n) PROVE Fits(n)
 <2>1. n.path = <<key>> /\ n.connection = None /\ n.source \in groups \cup {None}
  <3> HIDE DEF root, key
  <3> QED BY <1>3, <1>5, <1>15 DEF entries
 <2>2. None \notin Connections(c) BY DEF Connections, OfKind
 <2> HIDE DEF key, Level
 <2> QED BY <1>6, <1>13, <2>1, <2>2 DEF Key
<1>16. ASSUME NEW n, Own(n) PROVE Fits(n)
 <2>1. PICK e \in entries : many /\ ~Paired(e) /\ n = Leaf(<<key>>, e) BY <1>16
 <2> HIDE DEF key, Level, Paired
 <2>2. n.path = Append(<<key>>, SourceKey(e)) /\ n.source = e /\ n.connection = None
   BY <2>1 DEF Leaf, Node
 <2>3. /\ Front(n.path) = <<key>> /\ Len(n.path) = 2 /\ Key(n) = SourceKey(e) /\ n.path[1] = key
   BY <1>6, <2>2, BelowParts DEF Key
 <2>4. Up(n)
  <3>1. root \in F /\ root.path = <<key>>
   <4> HIDE DEF F, root
   <4> QED BY <1>1, <1>5
  <3> HIDE DEF F, root
  <3> QED BY <2>3, <3>1
 <2> HIDE DEF Up
 <2> QED BY <1>13, <2>1, <2>2, <2>3, <2>4 DEF entries
<1>17. ASSUME NEW n, Low(n) PROVE Fits(n)
 <2>1. PICK e \in entries : many /\ ~Paired(e) /\ n \in Leaves(Leaf(<<key>>, e).path, Loose({e}))
   BY <1>17
 <2> DEFINE own == Leaf(<<key>>, e)
            loose == Loose({e})
 <2> HIDE DEF key, Level, Paired
 <2>2. IsPath(own.path) /\ Len(own.path) = 2 /\ own.path[1] = key
  <3>1. own.path = Append(<<key>>, SourceKey(e)) BY DEF Leaf, Node
  <3> HIDE DEF own
  <3> QED BY <1>6, <3>1, BelowParts
 <2>3. own \in F /\ n \in Leaves(own.path, loose) BY <1>10, <2>1
 <2> HIDE DEF own, loose
 <2>4. /\ Front(n.path) = own.path /\ Len(n.path) = 3 /\ n.connection = None /\ n.path[1] = key
       /\ \E s \in loose : Key(n) = SourceKey(s) /\ n.source = s
  <3> DEFINE path == own.path
  <3>1. IsPath(path) /\ n \in Leaves(path, loose) /\ 1 \in 1..Len(path) BY <2>2, <2>3
  <3> HIDE DEF path
  <3>2. /\ Front(n.path) = path /\ Len(n.path) = Len(path) + 1 /\ n.connection = None
        /\ \A i \in 1..Len(path) : n.path[i] = path[i]
        /\ \E s \in loose : n.path = Append(path, SourceKey(s)) /\ Key(n) = SourceKey(s) /\ n.source = s
    BY <3>1, LeafShape
  <3>3. n.path[1] = path[1] BY <3>1, <3>2
  <3> QED BY <2>2, <3>2, <3>3 DEF path
 <2>5. PICK s \in loose : Key(n) = SourceKey(s) /\ n.source = s BY <2>4
 <2>6. /\ s \in DOMAIN c /\ c[s].kind \notin {"integration", "device"} /\ GroupOf(c, s) = e
       /\ DeviceOf(c[s]) = None
   BY <1>2 DEF loose
 <2>7. Level(SourceKey(s)) = 3 BY <1>13, <2>1, <2>6
 <2>8. s \notin Connections(c) BY <2>6 DEF Connections, OfKind
 <2> QED BY <2>3, <2>4, <2>5, <2>7, <2>8
<1>18. ASSUME NEW n, High(n) PROVE Fits(n)
 <2> DEFINE loose == Loose(IF many THEN groups \ entries ELSE groups)
 <2>1. n \in Leaves(<<key>>, loose) BY <1>18
 <2>2. root \in F /\ root.path = <<key>>
  <3> HIDE DEF F, root
  <3> QED BY <1>1, <1>5
 <2>3. \A s \in loose : /\ s \in DOMAIN c /\ c[s].kind \notin {"integration", "device"}
                        /\ GroupOf(c, s) \notin low /\ DeviceOf(c[s]) = None
   BY <1>2 DEF low
 <2> HIDE DEF key, Level, loose, F, root
 <2>4. /\ Front(n.path) = <<key>> /\ Len(n.path) = 2 /\ n.connection = None /\ n.path[1] = key
       /\ \E s \in loose : Key(n) = SourceKey(s) /\ n.source = s
  <3> DEFINE path == <<key>>
  <3>1. IsPath(path) /\ n \in Leaves(path, loose) BY <1>6, <2>1
  <3>0. 1 \in 1..Len(path) /\ Len(path) = 1 /\ path[1] = key BY <1>6
  <3> HIDE DEF path
  <3>2. /\ Front(n.path) = path /\ Len(n.path) = Len(path) + 1 /\ n.connection = None
        /\ \A i \in 1..Len(path) : n.path[i] = path[i]
        /\ \E s \in loose : n.path = Append(path, SourceKey(s)) /\ Key(n) = SourceKey(s) /\ n.source = s
    BY <3>1, LeafShape
  <3>3. n.path[1] = key BY <3>0, <3>2
  <3> QED BY <3>0, <3>2, <3>3 DEF path
 <2>5. PICK s \in loose : Key(n) = SourceKey(s) /\ n.source = s BY <2>4
 <2>6. Level(SourceKey(s)) = 2 /\ s \notin Connections(c) BY <1>13, <2>3 DEF Connections, OfKind
 <2> QED BY <2>2, <2>4, <2>5, <2>6
<1>19. ASSUME NEW path, IsPath(path), path # <<>>, path[1] = key, NEW v \in devices, Len(path) = DL(v) - 1,
              \E m \in F : m.path = path, NEW connection, Under(path, v, connection) \subseteq F,
              NEW n \in Under(path, v, connection)
       PROVE  Hangs(path, v, connection, n)
 <2>1. summaries \in SUBSET OfKind(c, {"device"}) /\ readings \in SUBSET Readers(c)
   BY <1>2 DEF Readers
 <2>2. v # None BY <1>14
 <2>3. DeviceNodes(c, path, v, summaries, readings, connection) \subseteq F BY <1>19
 <2>4. n \in DeviceNodes(c, path, v, summaries, readings, connection) BY <1>19
 <2>5. DL(v) \in {2, 3} OBVIOUS
 <2>6. IsPath(path) /\ path # <<>> /\ \E m \in F : m.path = path BY <1>19
 <2> HIDE DEF key, Level, F, summaries, readings, DL, devices, Under
 <2>7. /\ \A i \in 1..Len(path) : n.path[i] = path[i]
       /\ \E m \in F : m.path = Front(n.path)
       /\ n.source \notin Connections(c)
       /\ n.connection # None =>
              n.connection = connection /\ n.path = Append(path, DeviceKey(c, summaries, v))
       /\ \/ /\ Len(n.path) = Len(path) + 1
             /\ \/ Key(n) = <<"device", v>>
                \/ \E s \in summaries : DeviceOf(c[s]) = v /\ Key(n) = SourceKey(s)
          \/ Len(n.path) = Len(path) + 2 /\ \E s \in readings : DeviceOf(c[s]) = v /\ Key(n) = SourceKey(s)
  <3>1. DeviceFit(c, path, v, summaries, readings, connection, F, n)
    BY <2>1, <2>3, <2>4, <2>6, DeviceFits
  <3> QED BY <3>1 DEF DeviceFit
 <2>8. 1 \in 1..Len(path) /\ Len(path) + 1 = DL(v) BY <1>19, <2>5
 <2>9. n.path[1] = key BY <1>19, <2>7, <2>8
 <2>10. Len(n.path) = Level(Key(n))
  <3>1. CASE Len(n.path) = Len(path) + 1 /\ Key(n) = <<"device", v>> BY <1>13, <2>8, <3>1
  <3>2. CASE Len(n.path) = Len(path) + 1 /\ \E s \in summaries : DeviceOf(c[s]) = v /\ Key(n) = SourceKey(s)
    BY <1>13, <2>8, <3>2
  <3>3. CASE Len(n.path) = Len(path) + 2 /\ \E s \in readings : DeviceOf(c[s]) = v /\ Key(n) = SourceKey(s)
   <4>1. PICK s \in readings : DeviceOf(c[s]) = v /\ Key(n) = SourceKey(s) BY <3>3
   <4>2. s \in DOMAIN c /\ c[s].kind \notin {"integration", "device"} BY <2>1 DEF Readers
   <4>3. Level(Key(n)) = DL(v) + 1 BY <1>13, <2>2, <4>1, <4>2
   <4>4. Len(n.path) = DL(v) + 1 BY <2>5, <2>8, <3>3
   <4> QED BY <4>3, <4>4
  <3> QED BY <2>7, <3>1, <3>2, <3>3
 <2> QED BY <2>7, <2>9, <2>10
<1>20. ASSUME NEW n, Deep(n) PROVE Fits(n)
 <2> DEFINE own(e) == Leaf(<<key>>, e)
 <2>1. PICK e \in entries : /\ many /\ ~Paired(e)
                            /\ \E v \in Owned(e) : /\ n \in Under(own(e).path, v, None)
                                                  /\ Under(own(e).path, v, None) \subseteq F
   BY <1>20
 <2>2. PICK v \in Owned(e) : n \in Under(own(e).path, v, None) /\ Under(own(e).path, v, None) \subseteq F
   BY <2>1
 <2> DEFINE path == own(e).path
 <2>3. path = Append(<<key>>, SourceKey(e)) BY DEF Leaf, Node
 <2>4. \E m \in F : m.path = path BY <1>10, <2>1
 <2>5. n \in Under(path, v, None) BY <2>2
 <2>6. Under(path, v, None) \subseteq F BY <2>2
 <2>7. v \in devices /\ DL(v) = 3 BY <1>7, <2>1, <2>2 DEF Owned
 <2> HIDE DEF key, Level, F, path, Under, DL, Up, At, devices, summaries
 <2>8. IsPath(path) /\ path[1] = key /\ Len(path) = 2 /\ path # <<>> BY <1>6, <2>3, BelowParts
 <2>9. Len(path) = DL(v) - 1 BY <2>7, <2>8
 <2>10. Hangs(path, v, None, n)
  <3> HIDE DEF Hangs
  <3> QED BY <1>19, <2>4, <2>5, <2>6, <2>7, <2>8, <2>9
 <2> QED BY <2>10
<1>21. ASSUME NEW n, Device(n) PROVE Fits(n)
 <2>1. PICK v \in devices, e \in groups \cup {None} :
           /\ v \notin deep /\ n \in Under(<<key>>, v, e) /\ Under(<<key>>, v, e) \subseteq F
           /\ e # None => IF many THEN Owned(e) = {v} /\ Paired(e) ELSE pair /\ e = First(entries)
   BY <1>21
 <2> DEFINE path == <<key>>
 <2>2. DL(v) = 2 BY <2>1
 <2>3. \E m \in F : m.path = path
  <3> HIDE DEF F, root
  <3> QED BY <1>1, <1>5
 <2> HIDE DEF key, Level, F, Under, DL, Up, At, deep, Owned, Paired, pair, devices, summaries
 <2>4. n \in Under(path, v, e) BY <2>1
 <2>5. Under(path, v, e) \subseteq F BY <2>1
 <2>6. IsPath(path) /\ path[1] = key /\ Len(path) = DL(v) - 1 /\ path # <<>> BY <1>6, <2>2
 <2>7. path = <<key>> OBVIOUS
 <2> HIDE DEF path
 <2>8. Hangs(path, v, e, n)
  <3> HIDE DEF Hangs
  <3> QED BY <1>19, <2>3, <2>4, <2>5, <2>6
 <2>9. n.connection # None => n.connection \in entries BY <2>1, <2>8 DEF entries
 <2>10. n.connection # None => IF many THEN Owned(n.connection) = {v} /\ Paired(n.connection) ELSE pair
   BY <2>1, <2>8
 <2> QED BY <2>7, <2>8, <2>9, <2>10
<1>22. ASSUME NEW n \in F PROVE Fits(n)
 <2> HIDE DEF Fits, Root, Own, Low, Deep, High, Device
 <2> QED BY <1>11, <1>15, <1>16, <1>17, <1>18, <1>20, <1>21
<1>23. Levelled(F)
 <2> SUFFICES ASSUME NEW n \in F, NEW m \in F, Key(n) = Key(m), Len(m.path) < Len(n.path)
              PROVE  FALSE
   BY DEF Levelled
 <2>1. Len(n.path) = Level(Key(n)) /\ Len(m.path) = Level(Key(m)) BY <1>22
 <2>2. \A k : Level(k) \in Nat BY DEF FamilyLevel
 <2> HIDE DEF Level, F
 <2> QED BY <2>1, <2>2
<1>24. Grown(F)
 <2>1. \A n \in F : Up(n) BY <1>22
 <2> HIDE DEF F
 <2> QED BY <2>1 DEF Grown
<1>25. Joined(F)
 <2> SUFFICES ASSUME NEW n \in F, NEW m \in F, m.connection # None
              PROVE  /\ n.connection = m.connection => n.path = m.path
                     /\ n.source = m.connection => Len(n.path) = 1
   BY DEF Joined
 <2>1. Beside(n) /\ Beside(m) /\ Is(n) BY <1>22
 <2> HIDE DEF F, Owned, Paired, pair, devices, key, summaries
 <2>2. PICK v \in devices : /\ m.path = Append(<<key>>, DeviceKey(c, summaries, v))
                            /\ IF many THEN Owned(m.connection) = {v} /\ Paired(m.connection) ELSE pair
   BY <2>1
 <2>3. m.connection \in entries /\ m.connection \in Connections(c)
   BY <1>2, <2>1 DEF Connections, OfKind
 <2>4. ASSUME n.connection = m.connection PROVE n.path = m.path
  <3>1. PICK w \in devices : /\ n.path = Append(<<key>>, DeviceKey(c, summaries, w))
                             /\ IF many THEN Owned(m.connection) = {w} ELSE pair
    BY <2>1, <2>4
  <3>2. v = w BY <1>9, <2>2, <3>1
  <3> QED BY <2>2, <3>1, <3>2
 <2>5. ASSUME n.source = m.connection PROVE Len(n.path) = 1 BY <2>1, <2>2, <2>3, <2>5
 <2> QED BY <2>4, <2>5
<1>26. Roots(F) \subseteq {key}
 <2>1. \A n \in F : n.path[1] = key BY <1>22
 <2> HIDE DEF F, key
 <2> QED BY <2>1 DEF Roots
<1>27. \A n \in F : /\ n.connection \in groups \cup {None}
                    /\ n.source \in Connections(c) => n.source \in groups
 <2>1. \A n \in F : Beside(n) /\ Is(n) BY <1>22
 <2> HIDE DEF F
 <2> QED BY <2>1 DEF entries
<1> QED BY <1>23, <1>24, <1>25, <1>26, <1>27 DEF Familial, Planted

(* A grouping leaves the roots of the other sections to them. *)
Standing(T) ==
    /\ Joined(T)
    /\ \E roots : /\ Planted(T, roots)
                  /\ \A key \in roots : key[1] = "section" => key[2] \in {"unassigned", "connections"}

(* By integration, each family has a root of its own. *)
LEMMA IntegrationShape ==
    ASSUME NEW d, NEW c, SourcesSound(c), None \notin DOMAIN c
    PROVE  Standing(IntegrationTree(d, c))
<1> DEFINE stray == Grouped(c, {None}) # {} \/ GroupDevices(c, {None}) # {}
           groups == Connections(c) \cup IF stray THEN {None} ELSE {}
           names == {FamilyOf(c, g) : g \in groups}
           of(n) == {g \in groups : FamilyOf(c, g) = n}
           family(n) == FamilyNodes(d, c, of(n))
           f == [n \in names |-> family(n)]
           root == [n \in names |-> FamilyKey(c, of(n))]
           T == UNION {f[n] : n \in names}
<1>1. IntegrationTree(d, c) = T
 <2>1. IntegrationTree(d, c) = UNION {family(n) : n \in names} BY DEF IntegrationTree
 <2>2. T = UNION {family(n) : n \in names}
  <3> HIDE DEF family, names
  <3> QED OBVIOUS
 <2> QED BY <2>1, <2>2
<1>2. groups \subseteq Connections(c) \cup {None} /\ None \notin Connections(c) /\ Connections(c) \subseteq DOMAIN c
  BY DEF Connections, OfKind
<1>3. \A n \in names : \E g \in groups : FamilyOf(c, g) = n OBVIOUS
<1> HIDE DEF groups, names
<1>4. ASSUME NEW n \in names
      PROVE  \/ root[n] = <<"family", n>>
             \/ \E e \in of(n) : root[n] = SourceKey(e)
 <2> DEFINE some == of(n)
            entries == some \ {None}
 <2>1. some # {} /\ \A g \in some : FamilyOf(c, g) = n BY <1>3
 <2>2. root[n] = FamilyKey(c, some) OBVIOUS
 <2>3. entries \in SUBSET DOMAIN c BY <1>2
 <2> HIDE DEF some
 <2>4. CASE Cardinality(entries) = 1
  <3>1. entries # {} BY <2>4, FS_EmptySet
  <3>2. First(entries) \in entries BY <2>3, <3>1 DEF SourcesSound
  <3>3. FamilyKey(c, some) = SourceKey(First(entries)) BY <2>4 DEF FamilyKey
  <3> QED BY <2>2, <3>2, <3>3 DEF some
 <2>5. CASE Cardinality(entries) # 1
  <3>1. FamilyKey(c, some) = <<"family", FamilyOf(c, CHOOSE g \in some : TRUE)>>
    BY <2>5 DEF FamilyKey
  <3>2. (CHOOSE g \in some : TRUE) \in some BY <2>1
  <3> QED BY <2>1, <2>2, <3>1, <3>2
 <2> QED BY <2>4, <2>5
<1>5. \A x, y \in names : x # y => root[x] # root[y]
 <2> SUFFICES ASSUME NEW x \in names, NEW y \in names, root[x] = root[y] PROVE x = y OBVIOUS
 <2>1. ASSUME NEW a, NEW b PROVE <<"family", a>> # SourceKey(b) BY DEF SourceKey
 <2>2. \A a, b : SourceKey(a) = SourceKey(b) => a = b BY DEF SourceKey
 <2>3. \A a, b : <<"family", a>> = <<"family", b>> => a = b OBVIOUS
 <2>4. \A z, e : e \in of(z) => FamilyOf(c, e) = z OBVIOUS
 <2> HIDE DEF of, root
 <2> QED BY <1>4, <2>1, <2>2, <2>3, <2>4
<1>6. ASSUME NEW x \in names PROVE Familial(c, of(x), f[x])
 <2> DEFINE some == of(x)
 <2>1. some \in SUBSET (Connections(c) \cup {None}) BY <1>2
 <2> HIDE DEF some
 <2>2. Familial(c, some, FamilyNodes(d, c, some)) BY <2>1, FamilyShape
 <2> QED BY <2>2 DEF some
<1>7. \A x \in names : Planted(f[x], {root[x]}) BY <1>6 DEF Familial
<1>8. DOMAIN f = names /\ DOMAIN root = names OBVIOUS
<1>9. \A x, y, g : g \in of(x) /\ g \in of(y) => x = y OBVIOUS
<1>10. \A x : of(x) \subseteq Connections(c) \cup {None} BY <1>2
<1> HIDE DEF f, root, of
<1>11. Planted(T, {root[x] : x \in names}) BY <1>5, <1>7, <1>8, PlantedEach
<1>12. \A key \in {root[x] : x \in names} : key[1] \in {"source", "family"}
 <2>1. \A x \in names : root[x][1] \in {"source", "family"} BY <1>4 DEF SourceKey
 <2> QED BY <2>1
<1>13. Joined(T)
 <2> SUFFICES ASSUME NEW n \in T, NEW m \in T, m.connection # None
              PROVE  /\ n.connection = m.connection => n.path = m.path
                     /\ n.source = m.connection => Len(n.path) = 1
   BY DEF Joined
 <2>1. PICK x \in names, y \in names : n \in f[x] /\ m \in f[y] OBVIOUS
 <2>2. m.connection \in of(y) /\ m.connection \in Connections(c) BY <1>6, <1>10, <2>1 DEF Familial
 <2>3. n.connection = m.connection \/ n.source = m.connection => x = y
  <3>1. n.connection \in of(x) \cup {None} /\ (n.source \in Connections(c) => n.source \in of(x))
    BY <1>6, <2>1 DEF Familial
  <3> QED BY <1>9, <2>2, <3>1
 <2>4. Joined(f[y]) BY <1>6 DEF Familial
 <2> QED BY <2>1, <2>3, <2>4 DEF Joined
<1> QED BY <1>1, <1>11, <1>12, <1>13 DEF Standing

(* How deep something is in its area: readings are below the devices that the *)
(* registry names.                                                            *)
PlaceLevel(d, c, key) ==
    LET device == DeviceOf(c[key[2]])
    IN  IF key[1] \notin {"device", "source"} THEN 1
        ELSE IF key[1] = "source" /\ c[key[2]].kind # "device" /\ device # None /\ device \in DOMAIN d.registry
             THEN 3 ELSE 2

PlaceShaped(d, c, path, place, T, n) ==
    /\ \A i \in 1..Len(path) : n.path[i] = path[i]
    /\ n.path[Len(path) + 1] = place
    /\ n.path = Append(path, place) \/ \E m \in T : m.path = Front(n.path)
    /\ Len(n.path) = Len(path) + PlaceLevel(d, c, Key(n))
    /\ Key(n) = place \/ Key(n)[1] \in {"device", "source"}
    /\ n.connection = None

(* What is at an area and below it. *)
LEMMA PlaceShape ==
    ASSUME NEW d, NEW c, SourcesSound(c), None \notin DOMAIN c, NEW path, IsPath(path),
           NEW place, place[1] \notin {"device", "source"}, NEW some \in SUBSET Located(c),
           NEW n \in PlaceNodes(d, c, path, place, some)
    PROVE  PlaceShaped(d, c, path, place, PlaceNodes(d, c, path, place, some), n)
<1> DEFINE at == Append(path, place)
           known == Devices(c, some) \cap DOMAIN d.registry
           readings == {s \in some : c[s].kind \in Readings}
           summaries == {s \in some : c[s].kind = "device"}
           loose == {s \in readings : DeviceOf(c[s]) \notin known}
           T == PlaceNodes(d, c, path, place, some)
           Level(key) == PlaceLevel(d, c, key)
<1>1. T = {Node(at, None)} \cup Leaves(at, loose)
          \cup UNION {DeviceNodes(c, at, v, summaries, readings, None) : v \in known}
  BY DEF PlaceNodes
<1>2. /\ IsPath(at) /\ Len(at) = Len(path) + 1 /\ Len(path) \in Nat /\ at # <<>> /\ Last(at) = place
      /\ \A i \in 1..Len(path) : at[i] = path[i]
      /\ at[Len(path) + 1] = place
  BY BelowParts
<1>3. Node(at, None) = [path |-> at, source |-> None, connection |-> None] BY DEF Node
<1>4. Node(at, None) \in T
 <2> HIDE DEF T, at, readings, summaries, loose, known
 <2> QED BY <1>1
<1>5. Level(place) = 1 BY DEF PlaceLevel
<1>6. /\ \A s \in readings : s \in DOMAIN c /\ c[s].kind \notin {"integration", "device"}
      /\ \A s \in loose : s \in readings /\ (DeviceOf(c[s]) = None \/ DeviceOf(c[s]) \notin DOMAIN d.registry)
      /\ \A s \in summaries : s \in DOMAIN c /\ c[s].kind = "device"
 <2>1. some \subseteq DOMAIN c BY DEF Located, OfKind
 <2>2. \A s \in some : DeviceOf(c[s]) # None => DeviceOf(c[s]) \in Devices(c, some) BY DEF Devices
 <2> QED BY <2>1, <2>2 DEF Readings
<1>7. \A s : SourceKey(s)[1] = "source" /\ SourceKey(s)[2] = s BY DEF SourceKey
<1>8. CASE n = Node(at, None)
 <2>1. n.path = at /\ n.connection = None BY <1>3, <1>8
 <2>2. Key(n) = place BY <1>2, <2>1 DEF Key
 <2> HIDE DEF Level, T
 <2> QED BY <1>2, <1>5, <2>1, <2>2 DEF PlaceShaped, at, Level
<1>9. CASE n \in Leaves(at, loose)
 <2> HIDE DEF T, at, loose, readings
 <2>1. /\ Front(n.path) = at /\ Len(n.path) = Len(at) + 1 /\ n.connection = None
       /\ \A i \in 1..Len(at) : n.path[i] = at[i]
       /\ \E s \in loose : n.path = Append(at, SourceKey(s)) /\ Key(n) = SourceKey(s) /\ n.source = s
   BY <1>2, <1>9, LeafShape
 <2>2. PICK s \in loose : Key(n) = SourceKey(s) BY <2>1
 <2>3. Level(Key(n)) = 2 BY <1>6, <1>7, <2>2 DEF PlaceLevel
 <2>4. n.path[Len(path) + 1] = place /\ \A i \in 1..Len(path) : n.path[i] = path[i] BY <1>2, <2>1
 <2>5. Len(n.path) = Len(path) + Level(Key(n)) BY <1>2, <2>1, <2>3
 <2>6. \E m \in T : m.path = Front(n.path) BY <1>3, <1>4, <2>1
 <2>7. Key(n)[1] = "source" BY <1>7, <2>2
 <2> QED BY <2>1, <2>4, <2>5, <2>6, <2>7 DEF PlaceShaped, T
<1>10. ASSUME NEW v \in known, n \in DeviceNodes(c, at, v, summaries, readings, None)
       PROVE  PlaceShaped(d, c, path, place, T, n)
 <2>1. v # None /\ v \in DOMAIN d.registry BY DEF Devices
 <2>2. \E m \in T : m.path = at BY <1>3, <1>4
 <2>3. summaries \in SUBSET OfKind(c, {"device"}) /\ readings \in SUBSET Readers(c)
   BY <1>6 DEF OfKind, Readers
 <2> HIDE DEF T, at, summaries, readings, known
 <2>4. DeviceNodes(c, at, v, summaries, readings, None) \subseteq T BY <1>1, <1>10
 <2>5. DeviceFit(c, at, v, summaries, readings, None, T, n)
   BY <1>2, <1>10, <2>2, <2>3, <2>4, DeviceFits
 <2>6. n.path[Len(path) + 1] = place /\ \A i \in 1..Len(path) : n.path[i] = path[i]
   BY <1>2, <2>5 DEF DeviceFit
 <2>7. n.connection = None /\ \E m \in T : m.path = Front(n.path) BY <2>5 DEF DeviceFit
 <2>8. /\ Len(n.path) = Len(path) + Level(Key(n))
       /\ Key(n)[1] \in {"device", "source"}
  <3>1. CASE Len(n.path) = Len(at) + 1 /\ Key(n) = <<"device", v>>
   <4>1. Level(Key(n)) = 2 BY <3>1 DEF PlaceLevel
   <4> QED BY <1>2, <3>1, <4>1
  <3>2. CASE Len(n.path) = Len(at) + 1 /\ \E s \in summaries : DeviceOf(c[s]) = v /\ Key(n) = SourceKey(s)
   <4>1. PICK s \in summaries : Key(n) = SourceKey(s) BY <3>2
   <4>2. Level(Key(n)) = 2 BY <1>6, <1>7, <4>1 DEF PlaceLevel
   <4>3. Len(n.path) = Len(path) + 2 BY <1>2, <3>2
   <4> QED BY <1>7, <4>1, <4>2, <4>3
  <3>3. CASE Len(n.path) = Len(at) + 2 /\ \E s \in readings : DeviceOf(c[s]) = v /\ Key(n) = SourceKey(s)
   <4>1. PICK s \in readings : DeviceOf(c[s]) = v /\ Key(n) = SourceKey(s) BY <3>3
   <4>2. Level(Key(n)) = 3 BY <1>6, <1>7, <2>1, <4>1 DEF PlaceLevel
   <4>3. Len(n.path) = Len(path) + 3 BY <1>2, <3>3
   <4> QED BY <1>7, <4>1, <4>2, <4>3
  <3> QED BY <2>5, <3>1, <3>2, <3>3 DEF DeviceFit
 <2> QED BY <2>6, <2>7, <2>8 DEF PlaceShaped
<1>11. n \in T OBVIOUS
<1> HIDE DEF at, known, readings, summaries, loose
<1>12. n = Node(at, None) \/ n \in Leaves(at, loose)
       \/ \E v \in known : n \in DeviceNodes(c, at, v, summaries, readings, None)
 <2> HIDE DEF T
 <2> QED BY <1>1, <1>11
<1> QED BY <1>8, <1>9, <1>10, <1>12

(* What is in no area. *)
LEMMA UnplacedShape ==
    ASSUME NEW d, NEW c, SourcesSound(c), None \notin DOMAIN c,
           NEW place, place[1] \notin {"device", "source"}, NEW some \in SUBSET Located(c)
    PROVE  LET T == PlaceNodes(d, c, <<>>, place, some) IN Planted(T, {place}) /\ Alone(T)
<1> DEFINE T == PlaceNodes(d, c, <<>>, place, some)
<1>1. IsPath(<<>>) /\ Len(<<>>) = 0 BY ShortPaths
<1>2. \A n \in T : PlaceShaped(d, c, <<>>, place, T, n) BY <1>1, PlaceShape
<1>3. Front(Append(<<>>, place)) = <<>> BY <1>1, BelowParts
<1> HIDE DEF T
<1>4. \A n \in T : /\ n.path[1] = place /\ n.connection = None
                   /\ Front(n.path) # <<>> => \E m \in T : m.path = Front(n.path)
  BY <1>1, <1>2, <1>3 DEF PlaceShaped
<1>5. Levelled(T)
 <2> SUFFICES ASSUME NEW n \in T, NEW m \in T, Key(n) = Key(m), Len(m.path) < Len(n.path) PROVE FALSE
   BY DEF Levelled
 <2>1. Len(n.path) = 0 + PlaceLevel(d, c, Key(n)) /\ Len(m.path) = 0 + PlaceLevel(d, c, Key(m))
   BY <1>1, <1>2 DEF PlaceShaped
 <2>2. \A key : PlaceLevel(d, c, key) \in Nat BY DEF PlaceLevel
 <2> QED BY <2>1, <2>2
<1>6. Grown(T) /\ Roots(T) \subseteq {place} /\ Alone(T) BY <1>4 DEF Grown, Roots, Alone
<1> QED BY <1>5, <1>6 DEF Planted, T

(* The areas of a floor, or those on none. *)
LEMMA AreaGroupShape ==
    ASSUME NEW d, NEW c, SourcesSound(c), None \notin DOMAIN c,
           NEW key, key[1] \notin {"area", "device", "source"}, NEW areas
    PROVE  LET T == {Node(<<key>>, None)} \cup AreaNodes(d, c, <<key>>, areas)
           IN  Planted(T, {key}) /\ Alone(T)
<1> DEFINE path == <<key>>
           of(a) == PlaceNodes(d, c, path, <<"area", a>>, InArea(d, c, a))
           top == Node(path, None)
           T == {top} \cup AreaNodes(d, c, path, areas)
           Level(k) == PlaceLevel(d, c, k)
<1>1. IsPath(path) /\ path # <<>> /\ Last(path) = key /\ Len(path) = 1 /\ path[1] = key
  BY ShortPaths
<1>2. top = [path |-> path, source |-> None, connection |-> None] BY DEF Node
<1> HIDE DEF path
<1>3. T = {top} \cup UNION {of(a) : a \in areas} BY DEF AreaNodes
<1>4. ASSUME NEW a \in areas, NEW n \in of(a)
      PROVE  /\ n.path[1] = key /\ n.connection = None /\ Len(n.path) = 1 + Level(Key(n)) /\ Key(n) # key
             /\ \E m \in T : m.path = Front(n.path)
 <2> DEFINE place == <<"area", a>>
            some == InArea(d, c, a)
 <2>1. some \in SUBSET Located(c) /\ place[1] = "area" BY DEF InArea
 <2>2. of(a) = PlaceNodes(d, c, path, place, some) /\ of(a) \subseteq T BY <1>3
 <2> HIDE DEF place, some, T, top, of
 <2>3. PlaceShaped(d, c, path, place, of(a), n) BY <1>1, <2>1, <2>2, PlaceShape
 <2>4. n.path[1] = key
  <3>1. 1 \in 1..Len(path) BY <1>1
  <3> QED BY <1>1, <2>3, <3>1 DEF PlaceShaped
 <2>5. \E m \in T : m.path = Front(n.path)
  <3>1. Front(Append(path, place)) = path BY <1>1, BelowParts
  <3>2. top \in T /\ top.path = path BY <1>2 DEF T
  <3> QED BY <2>2, <2>3, <3>1, <3>2 DEF PlaceShaped
 <2>6. n.connection = None /\ Len(n.path) = 1 + Level(Key(n)) /\ Key(n) # key
  <3>1. Key(n) = place \/ Key(n)[1] \in {"device", "source"} BY <2>3 DEF PlaceShaped
  <3>2. Key(n) # key BY <2>1, <3>1
  <3> QED BY <1>1, <2>3, <3>2 DEF PlaceShaped
 <2> QED BY <2>4, <2>5, <2>6
<1>5. ASSUME NEW n \in T
      PROVE  n = top \/ \E a \in areas : n \in of(a)
  BY <1>3
<1>6. top.path = path /\ top.connection = None /\ Key(top) = key /\ Front(top.path) = <<>>
 <2>1. top.path = path /\ top.connection = None BY <1>2
 <2> HIDE DEF top
 <2>2. Len(Front(path)) = 0 /\ IsPath(Front(path)) BY <1>1, PathParts
 <2> QED BY <1>1, <2>1, <2>2, PathParts DEF Key
<1> HIDE DEF of, T, top
<1>7. Grown(T) BY <1>4, <1>5, <1>6 DEF Grown
<1>8. Alone(T) BY <1>4, <1>5, <1>6 DEF Alone
<1>9. Roots(T) \subseteq {key} BY <1>1, <1>4, <1>5, <1>6 DEF Roots
<1>10. Levelled(T)
 <2> SUFFICES ASSUME NEW n \in T, NEW m \in T, Key(n) = Key(m), Len(m.path) < Len(n.path) PROVE FALSE
   BY DEF Levelled
 <2>1. Level(Key(n)) \in Nat BY DEF PlaceLevel
 <2>2. ASSUME NEW o \in T PROVE IF Key(o) = key THEN Len(o.path) = 1 ELSE Len(o.path) = 1 + Level(Key(o))
   BY <1>1, <1>4, <1>5, <1>6
 <2> HIDE DEF Level
 <2> QED BY <2>1, <2>2
<1> QED BY <1>7, <1>8, <1>9, <1>10 DEF Planted, T, path, top

(* By Home Assistant location. *)
LEMMA LocationShape ==
    ASSUME NEW d, NEW c, SourcesSound(c), None \notin DOMAIN c
    PROVE  Standing(LocationTree(d, c))
<1> DEFINE On(floor) == {a \in DOMAIN d.areas : d.areas[a] = floor}
           floorless == {a \in DOMAIN d.areas : d.areas[a] \notin d.floors}
           floor(f) == {Node(<<<<"floor", f>>>>, None)} \cup AreaNodes(d, c, <<<<"floor", f>>>>, On(f))
           floors == UNION {floor(f) : f \in d.floors}
           free == IF floorless = {} THEN {}
                   ELSE {Node(<<<<"group", "floorless">>>>, None)}
                        \cup AreaNodes(d, c, <<<<"group", "floorless">>>>, floorless)
           unplaced == IF Unplaced(d, c) = {} THEN {}
                       ELSE PlaceNodes(d, c, <<>>, <<"group", "unassigned">>, Unplaced(d, c))
           roots == {<<"floor", f>> : f \in d.floors}
<1>1. LocationTree(d, c) = floors \cup free \cup unplaced \cup ConnectionSection(c)
  BY DEF LocationTree
<1>2. ASSUME NEW f \in d.floors PROVE Planted(floor(f), {<<"floor", f>>}) /\ Alone(floor(f))
 <2> DEFINE key == <<"floor", f>>
 <2>1. key[1] \notin {"area", "device", "source"} OBVIOUS
 <2> HIDE DEF key
 <2>2. /\ Planted({Node(<<key>>, None)} \cup AreaNodes(d, c, <<key>>, On(f)), {key})
       /\ Alone({Node(<<key>>, None)} \cup AreaNodes(d, c, <<key>>, On(f)))
   BY <2>1, AreaGroupShape
 <2> QED BY <2>2 DEF key
<1>3. Planted(floors, roots) /\ Alone(floors)
 <2> DEFINE g == [f \in d.floors |-> floor(f)]
            root == [f \in d.floors |-> <<"floor", f>>]
 <2>0. \A f \in d.floors : Planted(g[f], {root[f]}) BY <1>2
 <2>1. \A f \in d.floors : Alone(g[f]) BY <1>2
 <2>2. \A x, y \in d.floors : x # y => root[x] # root[y] OBVIOUS
 <2> HIDE DEF floor
 <2>3. floors = UNION {g[x] : x \in d.floors} /\ roots = {root[x] : x \in d.floors} OBVIOUS
 <2>4. Planted(floors, roots)
  <3> DEFINE names == d.floors
  <3>1. \A x \in names : Planted(g[x], {root[x]}) BY <2>0
  <3>2. \A x, y \in names : x # y => root[x] # root[y] BY <2>2
  <3>3. DOMAIN g = names /\ DOMAIN root = names OBVIOUS
  <3>4. floors = UNION {g[x] : x \in names} /\ roots = {root[x] : x \in names} BY <2>3
  <3> HIDE DEF g, root, names, floors, roots
  <3>5. Planted(UNION {g[x] : x \in names}, {root[x] : x \in names})
    BY <3>1, <3>2, <3>3, PlantedEach
  <3> QED BY <3>4, <3>5
 <2> HIDE DEF g, floors, root, roots
 <2>5. Alone(floors) BY <2>1, <2>3 DEF Alone
 <2> QED BY <2>4, <2>5
<1>4. ASSUME NEW root PROVE Planted({}, {root}) /\ Alone({})
  BY DEF Planted, Alone, Levelled, Grown, Roots
<1>5. Planted(free, {<<"group", "floorless">>}) /\ Alone(free)
 <2> DEFINE key == <<"group", "floorless">>
 <2>1. key[1] \notin {"area", "device", "source"} OBVIOUS
 <2> HIDE DEF key
 <2>2. /\ Planted({Node(<<key>>, None)} \cup AreaNodes(d, c, <<key>>, floorless), {key})
       /\ Alone({Node(<<key>>, None)} \cup AreaNodes(d, c, <<key>>, floorless))
   BY <2>1, AreaGroupShape
 <2> QED BY <1>4, <2>2 DEF key
<1>6. Planted(unplaced, {<<"group", "unassigned">>}) /\ Alone(unplaced)
 <2> DEFINE place == <<"group", "unassigned">>
            some == Unplaced(d, c)
 <2>1. place[1] \notin {"device", "source"} /\ some \in SUBSET Located(c) BY DEF Unplaced
 <2> HIDE DEF place, some
 <2>2. Planted(PlaceNodes(d, c, <<>>, place, some), {place}) /\ Alone(PlaceNodes(d, c, <<>>, place, some))
   BY <2>1, UnplacedShape
 <2> QED BY <1>4, <2>2 DEF place, some
<1>7. Planted(ConnectionSection(c), {<<"section", "connections">>}) /\ Alone(ConnectionSection(c))
  BY SectionShape DEF ConnectionSection
<1> DEFINE floorlessKey == <<"group", "floorless">>
           unassigned == <<"group", "unassigned">>
           connections == <<"section", "connections">>
<1>8. /\ roots \cap {floorlessKey} = {} /\ (roots \cup {floorlessKey}) \cap {unassigned} = {}
      /\ (roots \cup {floorlessKey} \cup {unassigned}) \cap {connections} = {}
  OBVIOUS
<1>9. \A key \in roots \cup {floorlessKey} \cup {unassigned} \cup {connections} :
          key[1] = "section" => key[2] \in {"unassigned", "connections"}
  OBVIOUS
<1> HIDE DEF floors, free, unplaced, roots, floorlessKey, unassigned, connections
<1>10. Planted(floors \cup free, roots \cup {floorlessKey})
  BY <1>3, <1>5, <1>8, PlantedTogether DEF floorlessKey
<1>11. Planted(floors \cup free \cup unplaced, roots \cup {floorlessKey} \cup {unassigned})
  BY <1>6, <1>8, <1>10, PlantedTogether DEF unassigned
<1>12. Planted(LocationTree(d, c), roots \cup {floorlessKey} \cup {unassigned} \cup {connections})
  BY <1>1, <1>7, <1>8, <1>11, PlantedTogether DEF connections
<1>13. Joined(LocationTree(d, c)) BY <1>1, <1>3, <1>5, <1>6, <1>7 DEF Alone, Joined
<1> QED BY <1>9, <1>12, <1>13 DEF Standing

----------------------------------------------------------------------------
(* The locations above a location. *)

(* The way up from a location, and its end. *)
IsWay(t, id, w) ==
    /\ IsPath(w) /\ w # <<>> /\ w[1] = id
    /\ \A k \in 1 .. Len(w) - 1 : /\ w[k + 1] = LocationOf(t, w[k]).parent
                                  /\ w[k + 1] \in Locations(t)
Ended(t, w) == LocationOf(t, w[Len(w)]).parent \notin Locations(t)

(* One step up is a way again. *)
LEMMA WayGoesOn ==
    ASSUME NEW t, NEW id, NEW w, IsWay(t, id, w)
    PROVE  /\ IsWay(t, id, Higher(t, w))
           /\ Ended(t, w) => Higher(t, w) = w
           /\ ~Ended(t, w) => Len(Higher(t, w)) = Len(w) + 1
<1> DEFINE parent == LocationOf(t, Last(w)).parent
           more == Append(w, parent)
<1>1. /\ IsPath(w) /\ w # <<>> /\ Last(w) = w[Len(w)] /\ Len(w) \in Nat /\ Len(w) # 0
      /\ Higher(t, w) = IF parent \in Locations(t) THEN more ELSE w
      /\ Ended(t, w) <=> parent \notin Locations(t)
 <2>1. IsPath(w) /\ w # <<>> BY DEF IsWay
 <2>2. Last(w) = w[Len(w)] /\ Len(w) \in Nat /\ Len(w) # 0 BY <2>1, PathParts
 <2> QED BY <2>1, <2>2 DEF Ended, Higher
<1>2. parent = LocationOf(t, w[Len(w)]).parent BY <1>1
<1> HIDE DEF parent
<1>3. /\ IsPath(more) /\ Len(more) = Len(w) + 1 /\ more # <<>>
      /\ \A i \in 1..Len(w) : more[i] = w[i]
      /\ more[Len(w) + 1] = parent
  BY <1>1, BelowParts
<1>4. ASSUME parent \in Locations(t) PROVE IsWay(t, id, more)
 <2>1. ASSUME NEW k \in 1 .. Len(more) - 1
       PROVE  more[k + 1] = LocationOf(t, more[k]).parent /\ more[k + 1] \in Locations(t)
  <3>1. k \in 1..Len(w) BY <1>1, <1>3
  <3>2. more[k] = w[k] BY <1>3, <3>1
  <3>3. CASE k = Len(w) BY <1>2, <1>3, <1>4, <3>2, <3>3
  <3>4. CASE k # Len(w)
   <4>1. k \in 1 .. Len(w) - 1 /\ k + 1 \in 1..Len(w) BY <1>1, <3>1, <3>4
   <4>2. more[k + 1] = w[k + 1] BY <1>3, <4>1
   <4> QED BY <3>2, <4>1, <4>2 DEF IsWay
  <3> QED BY <3>3, <3>4
 <2>2. more[1] = id
  <3>1. 1 \in 1..Len(w) BY <1>1
  <3> QED BY <1>3, <3>1 DEF IsWay
 <2> HIDE DEF more
 <2> QED BY <1>3, <2>1, <2>2 DEF IsWay
<1> HIDE DEF more
<1> QED BY <1>1, <1>3, <1>4

(* Above is the way up to its end, when no way comes back to where it was.    *)
LEMMA AboveIsWay ==
    ASSUME NEW R, NEW t \in Seq(R), Usable(t), NEW id \in Locations(t)
    PROVE  IsWay(t, id, Above(t, id)) /\ Ended(t, Above(t, id))
<1> DEFINE N == Len(t)
<1>1. N \in Nat OBVIOUS
<1> HIDE DEF N
<1>2. PICK up : Climb(t, id, N, up) /\ Above(t, id) = up[N] BY <1>1, AboveRecursion DEF N
<1> DEFINE Fine(n) == IsWay(t, id, up[n]) /\ (Ended(t, up[n]) \/ Len(up[n]) = n + 1)
           G == {n \in Nat : n <= N => Fine(n)}
<1>3. 0 \in G
 <2>1. up[0] = <<id>> BY <1>1, <1>2 DEF Climb
 <2>2. IsPath(<<id>>) /\ <<id>> # <<>> /\ Len(<<id>>) = 1 /\ <<id>>[1] = id BY ShortPaths
 <2>3. IsWay(t, id, <<id>>) BY <2>2 DEF IsWay
 <2> QED BY <2>1, <2>2, <2>3
<1>4. ASSUME NEW n \in Nat, n \in G PROVE n + 1 \in G
 <2>1. CASE n + 1 <= N
  <3>1. up[n + 1] = Higher(t, up[n])
   <4>1. n + 1 \in 0..N /\ n + 1 # 0 /\ (n + 1) - 1 = n BY <1>1, <2>1
   <4> QED BY <4>1, <1>2 DEF Climb
  <3>2. Fine(n) BY <1>1, <1>4, <2>1
  <3>3. /\ IsWay(t, id, Higher(t, up[n]))
        /\ Ended(t, up[n]) => Higher(t, up[n]) = up[n]
        /\ ~Ended(t, up[n]) => Len(Higher(t, up[n])) = Len(up[n]) + 1
    BY <3>2, WayGoesOn
  <3> QED BY <3>1, <3>2, <3>3
 <2>2. CASE ~(n + 1 <= N) BY <2>2
 <2> QED BY <2>1, <2>2
<1>5. Fine(N)
 <2> HIDE DEF Fine
 <2>1. Nat \subseteq G
  <3> HIDE DEF G
  <3> QED BY <1>3, <1>4, Induction
 <2> QED BY <1>1, <2>1
<1> DEFINE w == Above(t, id)
<1>6. CASE Ended(t, w) BY <1>2, <1>5, <1>6
<1>7. CASE Len(w) = N + 1
 <2>1. IsWay(t, id, w) BY <1>2, <1>5
 <2>2. \A a, b \in DOMAIN w : w[a] = w[b] => a = b BY DEF Usable, IsInjective
 <2>3. Cardinality(Locations(t)) = N BY DEF Usable, N
 <2>4. IsFiniteSet(Locations(t))
  <3> DEFINE f == [i \in DOMAIN t |-> t[i].id]
  <3>1. IsFiniteSet(DOMAIN t) /\ DOMAIN f = DOMAIN t
   <4>1. IsFiniteSet(1..Len(t)) /\ DOMAIN t = 1..Len(t) BY <1>1, FS_Interval DEF N
   <4> QED BY <4>1
  <3>2. Locations(t) = {f[i] : i \in DOMAIN t} BY DEF Locations
  <3> HIDE DEF f
  <3> QED BY <3>1, <3>2, FiniteValues
 <2> HIDE DEF w
 <2>5. IsPath(w) /\ DOMAIN w = 1 .. N + 1 BY <1>7, <2>1, PathParts DEF IsWay
 <2>6. \A i \in 1 .. N + 1 : w[i] \in Locations(t)
  <3> SUFFICES ASSUME NEW i \in 1 .. N + 1 PROVE w[i] \in Locations(t) OBVIOUS
  <3>1. CASE i = 1 BY <2>1, <3>1 DEF IsWay
  <3>2. CASE i # 1
   <4>1. i - 1 \in 1 .. Len(w) - 1 /\ (i - 1) + 1 = i BY <1>1, <1>7, <3>2
   <4> QED BY <2>1, <4>1 DEF IsWay
  <3> QED BY <3>1, <3>2
 <2> DEFINE S == 1 .. N + 1
            g == [i \in S |-> w[i]]
 <2>7. IsFiniteSet(S) /\ Cardinality(S) = N + 1 BY <1>1, FS_Interval
 <2>8. g \in [S -> Locations(t)] /\ \A i \in S : g[i] = w[i] BY <2>6
 <2>9. Cardinality(Locations(t)) < Cardinality(S) BY <1>1, <2>3, <2>7
 <2>10. \A a, b \in S : g[a] = g[b] => a = b BY <2>2, <2>5, <2>8
 <2> HIDE DEF S, g
 <2>11. FALSE BY <2>4, <2>7, <2>8, <2>9, <2>10, FS_PigeonHole
 <2> QED BY <2>11
<1> QED BY <1>2, <1>5, <1>6, <1>7

(* There is one way up from a location. *)
LEMMA OneWay ==
    ASSUME NEW t, NEW id, NEW w, IsWay(t, id, w), Ended(t, w), NEW x, IsWay(t, id, x), Ended(t, x)
    PROVE  Len(w) <= Len(x) /\ \A k \in 1..Len(w) : w[k] = x[k]
<1>1. /\ Len(w) \in Nat \ {0} /\ Len(x) \in Nat \ {0} /\ w[1] = id /\ x[1] = id
  BY PathParts DEF IsWay
<1> DEFINE G == {k \in Nat : k + 1 <= Len(w) => k + 1 <= Len(x) /\ w[k + 1] = x[k + 1]}
<1>2. 0 \in G BY <1>1
<1>3. ASSUME NEW k \in Nat, k \in G PROVE k + 1 \in G
 <2> SUFFICES ASSUME k + 2 <= Len(w) PROVE k + 2 <= Len(x) /\ w[k + 2] = x[k + 2]
  <3>1. (k + 1) + 1 = k + 2 OBVIOUS
  <3> QED BY <3>1
 <2>1. k + 1 <= Len(x) /\ w[k + 1] = x[k + 1] /\ k + 1 \in 1 .. Len(w) - 1 BY <1>1, <1>3
 <2>2. (k + 1) + 1 = k + 2 OBVIOUS
 <2>3. w[k + 2] = LocationOf(t, w[k + 1]).parent /\ w[k + 2] \in Locations(t)
   BY <2>1, <2>2 DEF IsWay
 <2>4. k + 1 # Len(x) BY <2>1, <2>3 DEF Ended
 <2>5. k + 1 \in 1 .. Len(x) - 1 BY <1>1, <2>1, <2>4
 <2>6. x[k + 2] = LocationOf(t, x[k + 1]).parent BY <2>2, <2>5 DEF IsWay
 <2> QED BY <1>1, <2>1, <2>3, <2>5, <2>6
<1>4. Nat \subseteq G
 <2> HIDE DEF G
 <2> QED BY <1>2, <1>3, Induction
<1>5. ASSUME NEW k \in 1..Len(w) PROVE k <= Len(x) /\ w[k] = x[k]
 <2>1. k - 1 \in G /\ (k - 1) + 1 = k /\ k <= Len(w) BY <1>1, <1>4
 <2> QED BY <2>1
<1>6. Len(w) <= Len(x) BY <1>1, <1>5
<1> QED BY <1>5, <1>6

(* The way up from a location that is in another goes on as that one's. *)
LEMMA WayUp ==
    ASSUME NEW R, NEW t \in Seq(R), Usable(t), NEW id \in Locations(t), Len(Above(t, id)) # 1
    PROVE  \E p \in Locations(t) :
               /\ Len(Above(t, p)) = Len(Above(t, id)) - 1
               /\ \A k \in 1 .. Len(Above(t, id)) - 1 : Above(t, p)[k] = Above(t, id)[k + 1]
<1> DEFINE w == Above(t, id)
           p == w[2]
           x == Tail(w)
           y == Above(t, p)
<1>0. Len(w) # 1 OBVIOUS
<1>1. IsWay(t, id, w) /\ Ended(t, w) BY AboveIsWay
<1> HIDE DEF w
<1>2. PICK K : w \in Seq(K) BY <1>1 DEF IsWay, IsPath
<1>3. Len(w) \in Nat /\ Len(w) > 1 /\ w # <<>>
 <2>1. w # <<>> /\ Len(w) # 1 BY <1>0, <1>1 DEF IsWay
 <2> DEFINE l == Len(w)
 <2>2. l \in Nat /\ l # 0 /\ l # 1 BY <1>2, <2>1
 <2> HIDE DEF l
 <2>3. l > 1 BY <2>2
 <2> QED BY <2>1, <2>2, <2>3 DEF l
<1>4. x \in Seq(K) /\ Len(x) = Len(w) - 1 /\ \A k \in 1 .. Len(w) - 1 : x[k] = w[k + 1]
  BY <1>2, <1>3
<1>5. p \in Locations(t)
 <2>1. 1 \in 1 .. Len(w) - 1 /\ 1 + 1 = 2 BY <1>3
 <2>2. w[1 + 1] \in Locations(t) BY <1>1, <2>1 DEF IsWay
 <2> QED BY <2>1, <2>2
<1>6. IsWay(t, p, x)
 <2>1. IsPath(x) /\ x # <<>>
  <3> HIDE DEF x
  <3>1. Len(x) # 0 BY <1>3, <1>4
  <3> QED BY <1>4, <3>1 DEF IsPath
 <2>2. x[1] = p
  <3>1. 1 \in 1 .. Len(w) - 1 /\ 1 + 1 = 2 BY <1>3
  <3> QED BY <1>4, <3>1
 <2>3. ASSUME NEW k \in 1 .. Len(x) - 1
       PROVE  x[k + 1] = LocationOf(t, x[k]).parent /\ x[k + 1] \in Locations(t)
  <3>1. k \in 1 .. Len(w) - 1 /\ k + 1 \in 1 .. Len(w) - 1 BY <1>3, <1>4
  <3>2. x[k] = w[k + 1] /\ x[k + 1] = w[(k + 1) + 1] BY <1>4, <3>1
  <3> QED BY <1>1, <3>1, <3>2 DEF IsWay
 <2> HIDE DEF x
 <2> QED BY <2>1, <2>2, <2>3 DEF IsWay
<1>7. Ended(t, x)
 <2>1. Len(w) - 1 \in 1 .. Len(w) - 1 /\ (Len(w) - 1) + 1 = Len(w) BY <1>3
 <2>2. x[Len(x)] = w[Len(w)] BY <1>4, <2>1
 <2> QED BY <1>1, <2>2 DEF Ended
<1>8. IsWay(t, p, y) /\ Ended(t, y) BY <1>5, AboveIsWay
<1> HIDE DEF y, x, p
<1>9. Len(x) <= Len(y) /\ \A k \in 1..Len(x) : x[k] = y[k] BY <1>6, <1>7, <1>8, OneWay
<1>10. Len(y) <= Len(x) BY <1>6, <1>7, <1>8, OneWay
<1>11. Len(x) \in Nat /\ Len(y) \in Nat BY <1>6, <1>8, PathParts DEF IsWay
<1>12. Len(y) = Len(w) - 1 /\ \A k \in 1 .. Len(w) - 1 : y[k] = w[k + 1] BY <1>4, <1>9, <1>10, <1>11
<1> QED BY <1>5, <1>12 DEF w, y

(* Two places are one when their keys are the same. *)
LEMMA SamePath ==
    ASSUME NEW p, IsPath(p), NEW q, IsPath(q), Len(p) = Len(q), \A i \in 1..Len(p) : p[i] = q[i]
    PROVE  p = q
<1>1. PICK K, J : p \in Seq(K) /\ q \in Seq(J) BY DEF IsPath
<1>2. DOMAIN p = 1..Len(p) /\ DOMAIN q = 1..Len(p) BY <1>1
<1>3. p = [i \in DOMAIN p |-> p[i]] /\ q = [i \in DOMAIN q |-> q[i]] BY <1>1
<1> QED BY <1>2, <1>3

(* The place of a location: the way up to it, from its end. *)
PathTo(t, id) == [i \in DOMAIN Above(t, id) |-> <<"location", Reverse(Above(t, id))[i]>>]
PathIs(t, id, path) ==
    LET w == Above(t, id)
    IN  /\ IsPath(path) /\ path # <<>> /\ Len(path) = Len(w) /\ Len(w) \in Nat \ {0}
        /\ \A i \in 1..Len(w) : path[i] = <<"location", w[(Len(w) - i) + 1]>>
        /\ Last(path) = <<"location", id>>

(* The place of a location has a key for each location above it. *)
LEMMA PathToIs ==
    ASSUME NEW R, NEW t \in Seq(R), Usable(t), NEW id \in Locations(t)
    PROVE  PathIs(t, id, PathTo(t, id))
<1> DEFINE w == Above(t, id)
           path == PathTo(t, id)
           m == Len(w)
           key(i) == <<"location", w[(m - i) + 1]>>
           K == {key(i) : i \in 1..m}
<1>1. IsWay(t, id, w) BY AboveIsWay
<1>2. path = [i \in DOMAIN w |-> <<"location", Reverse(w)[i]>>] BY DEF PathTo
<1> HIDE DEF w, path
<1>3. m \in Nat \ {0} /\ DOMAIN w = 1..m /\ w[1] = id BY <1>1, PathParts DEF IsWay
<1>4. \A i \in 1..m : Reverse(w)[i] = w[(m - i) + 1] BY DEF Reverse
<1>5. path = [i \in 1..m |-> key(i)] BY <1>2, <1>3, <1>4
<1> HIDE DEF m
<1>6. path \in Seq(K) /\ Len(path) = m
 <2>1. path \in [1..m -> K]
  <3> HIDE DEF key
  <3> QED BY <1>5
 <2> HIDE DEF K, key
 <2>2. m \in Nat BY <1>3
 <2>3. path \in UNION {[1..n -> K] : n \in Nat} BY <2>1, <2>2, Zenon
 <2>4. path \in Seq(K) BY <2>3, SeqDef, Zenon
 <2> QED BY <1>5, <2>2, <2>4
<1>7. IsPath(path) /\ path # <<>>
 <2> HIDE DEF K
 <2> QED BY <1>3, <1>6 DEF IsPath
<1>8. \A i \in 1..m : path[i] = key(i)
 <2> HIDE DEF key
 <2> QED BY <1>5
<1>9. Last(path) = <<"location", id>>
 <2>1. path[m] = key(m) /\ (m - m) + 1 = 1 BY <1>3, <1>8
 <2> QED BY <1>3, <1>6, <2>1 DEF Last
<1> QED BY <1>3, <1>6, <1>7, <1>8, <1>9 DEF PathIs, m, w, path

(* It is below the place of the location it is in, if there is one. *)
LEMMA PathToFront ==
    ASSUME NEW R, NEW t \in Seq(R), Usable(t), NEW id \in Locations(t)
    PROVE  Front(PathTo(t, id)) # <<>> =>
               \E p \in Locations(t) : PathTo(t, p) = Front(PathTo(t, id))
<1> SUFFICES ASSUME Front(PathTo(t, id)) # <<>>
             PROVE  \E p \in Locations(t) : PathTo(t, p) = Front(PathTo(t, id))
  OBVIOUS
<1> DEFINE w == Above(t, id)
           path == PathTo(t, id)
           front == Front(path)
           m == Len(w)
<1>1. PathIs(t, id, path) BY PathToIs
<1> HIDE DEF path
<1>2. /\ IsPath(path) /\ path # <<>> /\ Len(path) = m /\ m \in Nat \ {0}
      /\ \A i \in 1..m : path[i] = <<"location", w[(m - i) + 1]>>
  BY <1>1 DEF PathIs
<1>3. /\ IsPath(front) /\ Len(front) = m - 1
      /\ \A i \in 1 .. m - 1 : front[i] = path[i]
  BY <1>2, PathParts
<1>4. m # 1
 <2>1. front # <<>> BY DEF path
 <2> HIDE DEF front
 <2>2. Len(front) # 0 BY <1>3, <2>1, PathParts
 <2> QED BY <1>2, <1>3, <2>2
<1>5. PICK p \in Locations(t) :
          /\ Len(Above(t, p)) = m - 1
          /\ \A k \in 1 .. m - 1 : Above(t, p)[k] = w[k + 1]
  BY <1>4, WayUp
<1> DEFINE x == Above(t, p)
           other == PathTo(t, p)
<1>6. PathIs(t, p, other) BY PathToIs
<1> HIDE DEF other, front, w, m
<1>7. /\ IsPath(other) /\ Len(other) = m - 1
      /\ \A i \in 1 .. m - 1 : other[i] = <<"location", x[((m - 1) - i) + 1]>>
  BY <1>5, <1>6 DEF PathIs
<1>8. ASSUME NEW i \in 1 .. m - 1 PROVE other[i] = front[i]
 <2>1. ((m - 1) - i) + 1 \in 1 .. m - 1 /\ i \in 1..m /\ (((m - 1) - i) + 1) + 1 = (m - i) + 1
   BY <1>2
 <2>2. x[((m - 1) - i) + 1] = w[(m - i) + 1] BY <1>5, <2>1
 <2>3. front[i] = <<"location", w[(m - i) + 1]>> BY <1>2, <1>3, <2>1
 <2>4. other[i] = <<"location", x[((m - 1) - i) + 1]>> BY <1>7
 <2> QED BY <2>2, <2>3, <2>4
<1>9. other = front BY <1>3, <1>7, <1>8, SamePath
<1> QED BY <1>9 DEF other, front, path

(* What is at a location: the location itself, devices and readings, those    *)
(* of a device below it.                                                      *)
Deep(c, s) == IF c[s].kind # "device" /\ DeviceOf(c[s]) # None THEN 2 ELSE 1
PlacedAt(c, t, T, id, n) ==
    LET path == PathTo(t, id)
    IN  /\ \A i \in 1..Len(path) : n.path[i] = path[i]
        /\ Front(n.path) # <<>> => \E m \in T : m.path = Front(n.path)
        /\ n.connection = None
        /\ \/ n.path = path /\ Key(n) = <<"location", id>>
           \/ Len(n.path) = Len(path) + 1 /\ \E v : Key(n) = <<"device", v>>
           \/ \E s : /\ LocationFor(c, t, s) = id /\ Key(n) = SourceKey(s)
                     /\ Len(n.path) = Len(path) + Deep(c, s)

(* What is at a location, but for the locations below it. *)
LEMMA LocationNodes ==
    ASSUME NEW c, SourcesSound(c), None \notin DOMAIN c, NEW R, NEW t \in Seq(R), Usable(t),
           NEW id \in Locations(t), NEW path, path = PathTo(t, id), NEW sources, NEW readings,
           sources = {s \in OfKind(c, Readings \cup {"device"}) : LocationFor(c, t, s) = id},
           readings = {s \in sources : c[s].kind # "device"},
           NEW T, Node(path, None) \in T,
           Front(path) # <<>> => \E m \in T : m.path = Front(path),
           \A v \in Devices(c, sources) :
               DeviceNodes(c, path, v, sources \ readings, readings, None) \subseteq T,
           NEW n,
           \/ n = Node(path, None)
           \/ n \in Leaves(path, {s \in sources : DeviceOf(c[s]) = None})
           \/ \E v \in Devices(c, sources) :
                 n \in DeviceNodes(c, path, v, sources \ readings, readings, None)
    PROVE  PlacedAt(c, t, T, id, n)
<1> DEFINE loose == {s \in sources : DeviceOf(c[s]) = None}
<1>1. PathIs(t, id, path) BY PathToIs
<1>2. /\ IsPath(path) /\ path # <<>> /\ Last(path) = <<"location", id>>
      /\ Len(path) \in Nat \ {0}
 <2>1. IsPath(path) /\ path # <<>> /\ Last(path) = <<"location", id>> BY <1>1 DEF PathIs
 <2> QED BY <1>1, <2>1 DEF PathIs
<1>3. Node(path, None) = [path |-> path, source |-> None, connection |-> None] BY DEF Node
<1>4. /\ \A s \in sources : s \in DOMAIN c /\ LocationFor(c, t, s) = id
      /\ \A s \in readings : s \in sources /\ c[s].kind \notin {"integration", "device"}
      /\ \A s \in sources \ readings : c[s].kind = "device"
  BY DEF OfKind, Readings
<1>5. CASE n = Node(path, None) BY <1>2, <1>3, <1>5 DEF PlacedAt, Key
<1>6. CASE n \in Leaves(path, loose)
 <2> HIDE DEF loose
 <2>1. /\ Front(n.path) = path /\ Len(n.path) = Len(path) + 1 /\ n.connection = None
       /\ \A i \in 1..Len(path) : n.path[i] = path[i]
       /\ \E s \in loose : n.path = Append(path, SourceKey(s)) /\ Key(n) = SourceKey(s) /\ n.source = s
   BY <1>2, <1>6, LeafShape
 <2>2. PICK s \in loose : Key(n) = SourceKey(s) BY <2>1
 <2>3. s \in sources /\ DeviceOf(c[s]) = None BY DEF loose
 <2>4. Deep(c, s) = 1 BY <2>3 DEF Deep
 <2>5. \E m \in T : m.path = Front(n.path) BY <1>3, <2>1
 <2> QED BY <1>4, <2>1, <2>2, <2>3, <2>4, <2>5 DEF PlacedAt
<1>7. ASSUME NEW v \in Devices(c, sources),
             n \in DeviceNodes(c, path, v, sources \ readings, readings, None)
      PROVE  PlacedAt(c, t, T, id, n)
 <2> DEFINE summaries == sources \ readings
 <2>1. v # None BY DEF Devices
 <2>2. \E m \in T : m.path = path BY <1>3
 <2>3. summaries \in SUBSET OfKind(c, {"device"}) /\ readings \in SUBSET Readers(c)
   BY <1>4 DEF OfKind, Readers
 <2>4. /\ DeviceNodes(c, path, v, summaries, readings, None) \subseteq T
       /\ n \in DeviceNodes(c, path, v, summaries, readings, None)
       /\ \A s \in summaries : s \in sources
   BY <1>7
 <2> HIDE DEF summaries
 <2>5. DeviceFit(c, path, v, summaries, readings, None, T, n) BY <1>2, <2>2, <2>3, <2>4, DeviceFits
 <2>6. /\ \A i \in 1..Len(path) : n.path[i] = path[i]
       /\ \E m \in T : m.path = Front(n.path)
       /\ n.connection = None
   BY <2>5 DEF DeviceFit
 <2>7. CASE Len(n.path) = Len(path) + 1 /\ Key(n) = <<"device", v>> BY <2>6, <2>7 DEF PlacedAt
 <2>8. CASE Len(n.path) = Len(path) + 1 /\ \E s \in summaries : DeviceOf(c[s]) = v /\ Key(n) = SourceKey(s)
  <3>1. PICK s \in summaries : Key(n) = SourceKey(s) BY <2>8
  <3>2. s \in sources /\ Deep(c, s) = 1 BY <2>3, <2>4 DEF Deep, OfKind
  <3> QED BY <1>4, <2>6, <2>8, <3>1, <3>2 DEF PlacedAt
 <2>9. CASE Len(n.path) = Len(path) + 2 /\ \E s \in readings : DeviceOf(c[s]) = v /\ Key(n) = SourceKey(s)
  <3>1. PICK s \in readings : DeviceOf(c[s]) = v /\ Key(n) = SourceKey(s) BY <2>9
  <3>2. s \in sources /\ Deep(c, s) = 2 BY <1>4, <2>1, <3>1 DEF Deep
  <3> QED BY <1>4, <2>6, <2>9, <3>1, <3>2 DEF PlacedAt
 <2> QED BY <2>5, <2>7, <2>8, <2>9 DEF DeviceFit
<1> HIDE DEF loose
<1> QED BY <1>5, <1>6, <1>7 DEF loose

(* By TopoMation location, when its list can be used. *)
LEMMA TopologyShape ==
    ASSUME NEW c, SourcesSound(c), None \notin DOMAIN c, NEW R, NEW t \in Seq(R), Usable(t)
    PROVE  Standing(TopologyTree(c, t))
<1> DEFINE placed == OfKind(c, Readings \cup {"device"})
           sources(id) == {s \in placed : LocationFor(c, t, s) = id}
           readings(id) == {s \in sources(id) : c[s].kind # "device"}
           loose(id) == {s \in sources(id) : DeviceOf(c[s]) = None}
           below(id) == UNION {DeviceNodes(c, PathTo(t, id), v, sources(id) \ readings(id), readings(id), None) :
                               v \in Devices(c, sources(id))}
           at(id) == {Node(PathTo(t, id), None)} \cup Leaves(PathTo(t, id), loose(id)) \cup below(id)
           T == UNION {at(id) : id \in Locations(t)}
           rest == {s \in placed : LocationFor(c, t, s) = None}
           unassigned == <<"section", "unassigned">>
           connections == <<"section", "connections">>
<1>1. TopologyTree(c, t) = T \cup Section("unassigned", rest) \cup ConnectionSection(c)
  BY DEF TopologyTree, PathTo
<1>2. \A id \in Locations(t) : Node(PathTo(t, id), None) \in T /\ at(id) \subseteq T
 <2>1. \A id : Node(PathTo(t, id), None) \in at(id) OBVIOUS
 <2> HIDE DEF at
 <2> QED BY <2>1
<1>3. ASSUME NEW id \in Locations(t), NEW n \in at(id) PROVE PlacedAt(c, t, T, id, n)
 <2> DEFINE path == PathTo(t, id)
            some == sources(id)
            read == readings(id)
 <2>1. /\ some = {s \in OfKind(c, Readings \cup {"device"}) : LocationFor(c, t, s) = id}
       /\ read = {s \in some : c[s].kind # "device"}
   OBVIOUS
 <2>2. \/ n = Node(path, None)
       \/ n \in Leaves(path, {s \in some : DeviceOf(c[s]) = None})
       \/ \E v \in Devices(c, some) : n \in DeviceNodes(c, path, v, some \ read, read, None)
   OBVIOUS
 <2>3. \A v \in Devices(c, some) : DeviceNodes(c, path, v, some \ read, read, None) \subseteq at(id)
   OBVIOUS
 <2> HIDE DEF at, some, read
 <2>4. \A v \in Devices(c, some) : DeviceNodes(c, path, v, some \ read, read, None) \subseteq T
   BY <1>2, <2>3
 <2>5. Node(path, None) \in T BY <1>2
 <2>6. Front(path) # <<>> => \E m \in T : m.path = Front(path)
  <3> SUFFICES ASSUME Front(path) # <<>> PROVE \E m \in T : m.path = Front(path) OBVIOUS
  <3>1. PICK p \in Locations(t) : PathTo(t, p) = Front(path) BY PathToFront
  <3>2. Node(PathTo(t, p), None) \in T /\ Node(PathTo(t, p), None).path = PathTo(t, p)
    BY <1>2 DEF Node
  <3> QED BY <3>1, <3>2
 <2>7. path = PathTo(t, id) OBVIOUS
 <2> HIDE DEF T, path
 <2> QED BY <2>1, <2>2, <2>4, <2>5, <2>6, <2>7, LocationNodes
<1>4. \A n \in T : \E id \in Locations(t) : PlacedAt(c, t, T, id, n)
 <2> HIDE DEF at
 <2> QED BY <1>3
<1> HIDE DEF T, at, rest
<1>5. ASSUME NEW id \in Locations(t)
      PROVE  /\ Len(PathTo(t, id)) \in Nat \ {0}
             /\ \A i \in 1..Len(PathTo(t, id)) : PathTo(t, id)[i][1] = "location"
 <2>1. PathIs(t, id, PathTo(t, id)) BY PathToIs
 <2> DEFINE path == PathTo(t, id)
            w == Above(t, id)
 <2>2. /\ Len(path) = Len(w) /\ Len(w) \in Nat \ {0}
       /\ \A i \in 1..Len(w) : path[i] = <<"location", w[(Len(w) - i) + 1]>>
   BY <2>1 DEF PathIs
 <2> HIDE DEF path, w
 <2>3. \A i \in 1..Len(path) : path[i][1] = "location" BY <2>2
 <2> QED BY <2>2, <2>3 DEF path
<1>6. \A n \in T : n.path[1][1] = "location"
 <2> SUFFICES ASSUME NEW n \in T PROVE n.path[1][1] = "location" OBVIOUS
 <2>1. PICK id \in Locations(t) : PlacedAt(c, t, T, id, n) BY <1>4
 <2>2. 1 \in 1..Len(PathTo(t, id)) BY <1>5
 <2> QED BY <1>5, <2>1, <2>2 DEF PlacedAt
<1>7. Grown(T) /\ Alone(T) BY <1>4 DEF Grown, Alone, PlacedAt
<1>8. Levelled(T)
 <2> SUFFICES ASSUME NEW n \in T, NEW m \in T, Key(n) = Key(m), Len(m.path) < Len(n.path)
              PROVE  n.path[Len(m.path)][1] = "location" /\ Key(m)[1] # "location"
   BY DEF Levelled
 <2>1. PICK x \in Locations(t), y \in Locations(t) : PlacedAt(c, t, T, x, n) /\ PlacedAt(c, t, T, y, m)
   BY <1>4
 <2> DEFINE a == Len(PathTo(t, x))
            b == Len(PathTo(t, y))
 <2>2. /\ \/ Key(n) = <<"location", x>> /\ n.path = PathTo(t, x)
          \/ Len(n.path) = a + 1 /\ \E v : Key(n) = <<"device", v>>
          \/ \E s : LocationFor(c, t, s) = x /\ Key(n) = SourceKey(s) /\ Len(n.path) = a + Deep(c, s)
       /\ \/ Key(m) = <<"location", y>> /\ m.path = PathTo(t, y)
          \/ Len(m.path) = b + 1 /\ \E v : Key(m) = <<"device", v>>
          \/ \E s : LocationFor(c, t, s) = y /\ Key(m) = SourceKey(s) /\ Len(m.path) = b + Deep(c, s)
   BY <2>1 DEF PlacedAt
 <2>3. \A s : SourceKey(s)[1] = "source" /\ SourceKey(s)[2] = s BY DEF SourceKey
 <2>4. a \in Nat \ {0} /\ b \in Nat \ {0} /\ \A s : Deep(c, s) \in Nat BY <1>5 DEF Deep
 <2>5. CASE Key(n)[1] = "location"
  <3>1. Key(n) = <<"location", x>> /\ n.path = PathTo(t, x) /\ Key(m) = <<"location", y>> /\ m.path = PathTo(t, y)
    BY <2>2, <2>3, <2>5
  <3>2. <<"location", x>> = <<"location", y>>
   <4> HIDE DEF Key
   <4> QED BY <3>1, Zenon
  <3>3. x = y BY <3>2
  <3>4. n.path = m.path BY <3>1, <3>3
  <3> QED BY <2>4, <3>1, <3>4
 <2>6. CASE Key(n)[1] = "source"
  <3>1. PICK s : LocationFor(c, t, s) = x /\ Key(n) = SourceKey(s) /\ Len(n.path) = a + Deep(c, s)
    BY <2>2, <2>6
  <3>2. PICK r : LocationFor(c, t, r) = y /\ Key(m) = SourceKey(r) /\ Len(m.path) = b + Deep(c, r)
    BY <2>2, <2>6
  <3>3. SourceKey(r) = SourceKey(s) BY <3>1, <3>2, Zenon
  <3>4. SourceKey(r)[2] = r /\ SourceKey(s)[2] = s BY <2>3
  <3>5. r = s BY <3>3, <3>4
  <3>6. x = y BY <3>1, <3>2, <3>5
  <3> QED BY <2>4, <3>1, <3>2, <3>5, <3>6
 <2>7. CASE Key(n)[1] = "device"
  <3>1. Len(n.path) = a + 1 /\ Len(m.path) = b + 1 BY <2>2, <2>3, <2>7
  <3> HIDE DEF b
  <3>2. Len(m.path) \in 1..a BY <2>4, <3>1
  <3>3. n.path[Len(m.path)] = PathTo(t, x)[Len(m.path)] BY <2>1, <3>2 DEF PlacedAt
  <3> QED BY <1>5, <2>7, <3>2, <3>3
 <2> QED BY <2>2, <2>3, <2>5, <2>6, <2>7
<1>9. Planted(T, Roots(T)) /\ \A key \in Roots(T) : key[1] = "location"
  BY <1>6, <1>7, <1>8 DEF Planted, Roots
<1>10. /\ Planted(Section("unassigned", rest), {unassigned}) /\ Alone(Section("unassigned", rest))
       /\ Planted(ConnectionSection(c), {connections}) /\ Alone(ConnectionSection(c))
  BY SectionShape DEF ConnectionSection
<1>11. Roots(T) \cap {unassigned} = {} /\ (Roots(T) \cup {unassigned}) \cap {connections} = {}
  BY <1>9
<1>12. \A key \in Roots(T) \cup {unassigned} \cup {connections} :
          key[1] = "section" => key[2] \in {"unassigned", "connections"}
  BY <1>9
<1> HIDE DEF unassigned, connections
<1>13. Planted(T \cup Section("unassigned", rest), Roots(T) \cup {unassigned})
  BY <1>9, <1>10, <1>11, PlantedTogether
<1>14. Planted(TopologyTree(c, t), Roots(T) \cup {unassigned} \cup {connections})
  BY <1>1, <1>10, <1>11, <1>13, PlantedTogether
<1>15. Joined(TopologyTree(c, t)) BY <1>1, <1>7, <1>10 DEF Alone, Joined
<1> QED BY <1>12, <1>14, <1>15 DEF Standing

----------------------------------------------------------------------------
(* The whole tree. *)

(* What is beside a device. *)
Connected(T) == {n.connection : n \in T} \ {None}

SectionFits(T, roots, id, some) ==
    /\ Planted(T \cup Section(id, some), roots \cup {<<"section", id>>})
    /\ Joined(T \cup Section(id, some))
    /\ Connected(T \cup Section(id, some)) = Connected(T)

(* A section lists no connection that is beside a device. *)
LEMMA SectionAdded ==
    ASSUME NEW T, NEW roots, Planted(T, roots), Joined(T), NEW id, <<"section", id>> \notin roots,
           NEW some, some \cap Connected(T) = {}
    PROVE  SectionFits(T, roots, id, some)
<1> DEFINE key == <<"section", id>>
           S == Section(id, some)
<1>1. Planted(S, {key}) /\ Alone(S) /\ \A n \in S : n.source \in some \cup {None} BY SectionShape
<1>2. roots \cap {key} = {} OBVIOUS
<1> HIDE DEF key, S
<1>3. Planted(T \cup S, roots \cup {key}) BY <1>1, <1>2, PlantedTogether
<1>4. Connected(T \cup S) = Connected(T) BY <1>1 DEF Connected, Alone
<1>5. Joined(T \cup S)
 <2> SUFFICES ASSUME NEW n \in T \cup S, NEW m \in T \cup S, m.connection # None
              PROVE  /\ n.connection = m.connection => n.path = m.path
                     /\ n.source = m.connection => Len(n.path) = 1
   BY DEF Joined
 <2>1. m \in T /\ m.connection \notin some BY <1>1 DEF Alone, Connected
 <2>2. CASE n \in T BY <2>1, <2>2 DEF Joined
 <2>3. CASE n \in S BY <1>1, <2>1, <2>3 DEF Alone
 <2> QED BY <2>2, <2>3
<1> QED BY <1>3, <1>4, <1>5 DEF SectionFits, key, S

(* The whole tree. *)
LEMMA TreeShape ==
    ASSUME NEW d, ListSound(d), NEW showDisabled, NEW grouping, NEW R, NEW t \in Seq(R)
    PROVE  Orderly(Tree(d, grouping, t, showDisabled))
<1> DEFINE c == Sources(d, showDisabled)
           grouped == GroupedTree(d, c, grouping, t)
           Rest(nodes, kinds) == {s \in OfKind(c, kinds) : s \notin Listed(d, nodes)}
           situations == Rest(grouped, {"situation"})
           automations == Rest(grouped, {"broken_automation"})
           repairs == Rest(grouped, {"repair"})
           named == grouped \cup Section("situations", situations)
                    \cup Section("automations", automations) \cup Section("repairs", repairs)
           others == DOMAIN c \ Listed(d, named)
<1>1. Tree(d, grouping, t, showDisabled) = named \cup Section("other", others) BY DEF Tree
<1>2. SourcesSound(c) /\ None \notin DOMAIN c
  BY SourcesAreSound, SourcesOwn DEF ListSound, ChecksAreCopies
<1>3. /\ \A s \in situations \cup automations \cup repairs : s \notin Listed(d, grouped)
      /\ \A s \in others : s \notin Listed(d, named)
  OBVIOUS
<1> HIDE DEF c
<1>4. Standing(grouped)
 <2>1. CASE grouping = "integration"
  <3>1. grouped = IntegrationTree(d, c) BY <2>1 DEF GroupedTree
  <3> QED BY <1>2, <3>1, IntegrationShape
 <2>2. CASE grouping # "integration" /\ grouping = "topomation" /\ Usable(t)
  <3>1. grouped = TopologyTree(c, t) BY <2>2 DEF GroupedTree
  <3> QED BY <1>2, <2>2, <3>1, TopologyShape
 <2>3. CASE grouping # "integration" /\ ~(grouping = "topomation" /\ Usable(t))
  <3>1. grouped = LocationTree(d, c) BY <2>3 DEF GroupedTree
  <3> QED BY <1>2, <3>1, LocationShape
 <2> QED BY <2>1, <2>2, <2>3
<1>5. PICK roots : /\ Planted(grouped, roots) /\ Joined(grouped)
                   /\ \A key \in roots : key[1] = "section" => key[2] \in {"unassigned", "connections"}
  BY <1>4 DEF Standing
<1> DEFINE key(id) == <<"section", id>>
           a == grouped \cup Section("situations", situations)
           b == a \cup Section("automations", automations)
           ra == roots \cup {key("situations")}
           rb == ra \cup {key("automations")}
           rc == rb \cup {key("repairs")}
<1>6. ASSUME NEW id, id \notin {"unassigned", "connections"} PROVE key(id) \notin roots
 <2>1. key(id)[1] = "section" /\ key(id)[2] = id OBVIOUS
 <2> HIDE DEF key
 <2> QED BY <1>5, <1>6, <2>1
<1>7. \A id, other : id # other => key(id) # key(other) OBVIOUS
<1>8. /\ key("situations") \notin roots /\ key("automations") \notin ra
      /\ key("repairs") \notin rb /\ key("other") \notin rc
 <2> HIDE DEF key
 <2> QED BY <1>6, <1>7
<1>9. /\ (situations \cup automations \cup repairs) \cap Connected(grouped) = {}
      /\ others \cap Connected(named) = {}
 <2>1. \A T : Connected(T) \subseteq Listed(d, T) BY DEF Listed, Connected
 <2> HIDE DEF grouped, situations, automations, repairs, others, named
 <2> QED BY <1>3, <2>1
<1>10. /\ a = grouped \cup Section("situations", situations)
       /\ b = a \cup Section("automations", automations)
       /\ named = b \cup Section("repairs", repairs)
       /\ ra = roots \cup {key("situations")} /\ rb = ra \cup {key("automations")}
       /\ rc = rb \cup {key("repairs")}
  OBVIOUS
<1> HIDE DEF grouped, situations, automations, repairs, others, key, named, a, b, ra, rb, rc
<1>11. Planted(a, ra) /\ Joined(a) /\ Connected(a) = Connected(grouped)
 <2>1. situations \cap Connected(grouped) = {} BY <1>9
 <2>2. Planted(grouped, roots) /\ Joined(grouped) /\ <<"section", "situations">> \notin roots
   BY <1>5, <1>8 DEF key
 <2>3. SectionFits(grouped, roots, "situations", situations) BY <2>1, <2>2, SectionAdded
 <2> QED BY <1>10, <2>3 DEF SectionFits, key
<1>12. Planted(b, rb) /\ Joined(b) /\ Connected(b) = Connected(grouped)
 <2>1. automations \cap Connected(a) = {} BY <1>9, <1>11
 <2>2. Planted(a, ra) /\ Joined(a) /\ <<"section", "automations">> \notin ra BY <1>11, <1>8 DEF key
 <2>3. SectionFits(a, ra, "automations", automations) BY <2>1, <2>2, SectionAdded
 <2> QED BY <1>10, <1>11, <2>3 DEF SectionFits, key
<1>13. Planted(named, rc) /\ Joined(named) /\ Connected(named) = Connected(grouped)
 <2>1. repairs \cap Connected(b) = {} BY <1>9, <1>12
 <2>2. Planted(b, rb) /\ Joined(b) /\ <<"section", "repairs">> \notin rb BY <1>12, <1>8 DEF key
 <2>3. SectionFits(b, rb, "repairs", repairs) BY <2>1, <2>2, SectionAdded
 <2> QED BY <1>10, <1>12, <2>3 DEF SectionFits, key
<1>14. SectionFits(named, rc, "other", others)
 <2>1. Planted(named, rc) /\ Joined(named) /\ <<"section", "other">> \notin rc
   BY <1>13, <1>8 DEF key
 <2> QED BY <1>9, <2>1, SectionAdded
<1> QED BY <1>1, <1>14 DEF SectionFits, Orderly, Planted

----------------------------------------------------------------------------
(* The way down to a place. *)

(* The way down to a place, as far as its k-th key. *)
WayTo(p, k, q) ==
    /\ IsPath(q) /\ q # <<>> /\ Len(q) = k /\ q = SubSeq(p, 1, k)
    /\ \A i \in 1..k : q[i] = p[i]
    /\ Last(q) = p[k] /\ Front(q) = SubSeq(p, 1, k - 1)
    /\ Len(p) \in Nat \ {0} /\ Len(Front(q)) = k - 1
    /\ k > 1 => Front(q) # <<>>

(* The beginning of a place is the way to it. *)
LEMMA PartOfWay ==
    ASSUME NEW p, IsPath(p), p # <<>>, NEW k \in 1..Len(p)
    PROVE  WayTo(p, k, SubSeq(p, 1, k))
<1> DEFINE q == SubSeq(p, 1, k)
           front == SubSeq(p, 1, k - 1)
<1>1. PICK K : p \in Seq(K) BY DEF IsPath
<1>2. Len(p) \in Nat \ {0} /\ k \in Nat \ {0} /\ k <= Len(p) BY <1>1
<1>3. q \in Seq(K) /\ Len(q) = k /\ (\A i \in 1..k : q[i] = p[i]) BY <1>1, <1>2
<1>4. q # <<>> /\ q[Len(q)] = p[k] BY <1>2, <1>3
<1>5. SubSeq(q, 1, k - 1) = front /\ Len(front) = k - 1 BY <1>1, <1>2
<1>6. Last(q) = q[Len(q)] /\ Front(q) = SubSeq(q, 1, Len(q) - 1) BY DEF Last, Front
<1>7. k > 1 => front # <<>> BY <1>2, <1>5
<1> HIDE DEF q, front
<1>8. Front(q) = front BY <1>3, <1>5, <1>6
<1>9. IsPath(q) BY <1>3 DEF IsPath
<1>10. Last(q) = p[k] BY <1>4, <1>6
<1> QED BY <1>2, <1>3, <1>4, <1>5, <1>7, <1>8, <1>9, <1>10 DEF WayTo, q, front

(* Every place on the way to a place in the tree is in the tree. *)
LEMMA WayInTree ==
    ASSUME NEW T, Grown(T), Paths(T), NEW n \in T, NEW k \in 1..Len(n.path)
    PROVE  \E m \in T : m.path = SubSeq(n.path, 1, k)
<1> DEFINE p == n.path
           l == Len(p)
           G == {g \in Nat : g < l => \E m \in T : m.path = SubSeq(p, 1, l - g)}
<1>1. IsPath(p) /\ p # <<>> BY DEF Paths
<1>2. l \in Nat \ {0} /\ SubSeq(p, 1, l) = p
 <2>1. PICK K : p \in Seq(K) BY <1>1 DEF IsPath
 <2> QED BY <1>1, <2>1
<1>3. 0 \in G
 <2>1. l - 0 = l BY <1>2
 <2> QED BY <1>2, <2>1
<1>4. ASSUME NEW g \in Nat, g \in G PROVE g + 1 \in G
 <2> SUFFICES ASSUME g + 1 < l
              PROVE  \E m \in T : m.path = SubSeq(p, 1, l - (g + 1))
   OBVIOUS
 <2> DEFINE h == l - g
 <2>1. h \in 1..l /\ h > 1 /\ g < l /\ l - (g + 1) = h - 1 BY <1>2
 <2>2. PICK m \in T : m.path = SubSeq(p, 1, h) BY <1>4, <2>1
 <2> HIDE DEF h
 <2>3. WayTo(p, h, SubSeq(p, 1, h)) BY <1>1, <2>1, PartOfWay
 <2>4. Front(m.path) = SubSeq(p, 1, h - 1) /\ Front(m.path) # <<>> BY <2>1, <2>2, <2>3 DEF WayTo
 <2>5. PICK o \in T : o.path = Front(m.path) BY <2>4 DEF Grown
 <2> QED BY <2>1, <2>4, <2>5
<1> HIDE DEF G
<1>5. Nat \subseteq G BY <1>3, <1>4, Induction
<1>6. l - k \in Nat /\ l - k < l /\ l - (l - k) = k BY <1>2
<1> HIDE DEF l
<1> QED BY <1>5, <1>6 DEF G

(* A location comes before whatever is not one. *)
LEMMA LocationsFirst ==
    ASSUME NEW a, a[1] = "location", NEW b, b[1] # "location"
    PROVE  Position(a) < Position(b)
<1>1. Index(a[2]) \in Nat \ {0} /\ Index(b[2]) \in Nat \ {0} /\ Len(Order) \in Nat
  BY IndexIsNumber, OrderAssumption
<1>2. Index(a[2]) <= Len(Order) + 1
 <2>1. CASE \E i \in DOMAIN Order : Order[i] = a[2]
  <3> DEFINE i == CHOOSE i \in DOMAIN Order : Order[i] = a[2]
  <3>1. i \in DOMAIN Order /\ Index(a[2]) = i BY <2>1 DEF Index
  <3>2. DOMAIN Order = 1..Len(Order) BY OrderAssumption
  <3> HIDE DEF i
  <3> QED BY <1>1, <3>1, <3>2
 <2>2. CASE ~\E i \in DOMAIN Order : Order[i] = a[2]
  <3>1. Index(a[2]) = Len(Order) + 1 BY <2>2 DEF Index
  <3> QED BY <1>1, <3>1
 <2> QED BY <2>1, <2>2
<1>3. Position(a) = Index(a[2]) + 0 /\ Position(b) = Index(b[2]) + (Len(Order) + 1) BY DEF Position
<1> QED BY <1>1, <1>2, <1>3

(* Beside the way to a place, none of its keys is met before the way is. *)
LEMMA NoneMetBefore ==
    ASSUME NEW T, Orderly(T), Paths(T), NEW n \in T, NEW h \in T,
           NEW k \in 1..Len(n.path), k > 1, Len(h.path) = k,
           \A i \in 1 .. k - 1 : h.path[i] = n.path[i],
           NEW j \in 1..Len(n.path), Key(h) = n.path[j]
    PROVE  ~(Position(Key(h)) < Position(n.path[k]))
<1>1. PICK a \in T : a.path = SubSeq(n.path, 1, j) BY WayInTree DEF Orderly
<1>2. WayTo(n.path, j, a.path) BY <1>1, PartOfWay DEF Paths
<1>3. Len(a.path) = j /\ Key(a) = Key(h) /\ \A i \in 1..j : a.path[i] = n.path[i]
  BY <1>2 DEF WayTo, Key
<1>4. Len(n.path) \in Nat /\ k \in Nat /\ j \in Nat \ {0} BY <1>2 DEF WayTo
<1>5. a.path[1] = n.path[1] /\ h.path[1] = n.path[1] BY <1>3, <1>4
<1>6. CASE j = k
 <2>1. Position(Key(h)) = Position(n.path[k]) /\ Position(Key(h)) \in Nat BY <1>6, PositionIsNumber
 <2> QED BY <2>1
<1>7. CASE j < k
 <2>1. h.path[j][1] = "location" /\ Key(a)[1] # "location" BY <1>3, <1>5, <1>7 DEF Orderly, Levelled
 <2>2. h.path[j] = n.path[j] BY <1>4, <1>7
 <2> QED BY <1>3, <2>1, <2>2
<1>8. CASE k < j
 <2>1. a.path[k][1] = "location" /\ Key(h)[1] # "location" BY <1>3, <1>5, <1>8 DEF Orderly, Levelled
 <2>2. a.path[k] = n.path[k] BY <1>3, <1>4, <1>8
 <2>3. Position(n.path[k]) < Position(Key(h)) BY <2>1, <2>2, LocationsFirst
 <2>4. Position(n.path[k]) \in Nat /\ Position(Key(h)) \in Nat BY PositionIsNumber
 <2> QED BY <2>3, <2>4
<1> QED BY <1>4, <1>6, <1>7, <1>8

----------------------------------------------------------------------------
(* What a branch shows beyond its limit. *)

(* Of two places below the same one, the first is the one whose key is. *)
LEMMA SiblingsMet ==
    ASSUME NEW p, IsPath(p), p # <<>>, NEW q, IsPath(q), q # <<>>, Front(p) = Front(q), Before(p, q)
    PROVE  Position(Last(p)) < Position(Last(q))
<1>1. PICK K : p \in Seq(K) /\ q \in Seq(K)
 <2>1. PICK K1, K2 : p \in Seq(K1) /\ q \in Seq(K2) BY DEF IsPath
 <2>2. p \in Seq(K1 \cup K2) /\ q \in Seq(K1 \cup K2) BY <2>1
 <2> QED BY <2>2
<1> DEFINE l == Len(p)
<1>2. /\ l \in Nat \ {0} /\ Len(q) = l /\ Last(p) = p[l] /\ Last(q) = q[l]
      /\ \A i \in 1 .. l - 1 : p[i] = q[i]
 <2>1. /\ Len(p) \in Nat /\ (p = <<>> <=> Len(p) = 0) /\ Len(Front(p)) = Len(p) - 1 /\ Last(p) = p[Len(p)]
       /\ \A i \in 1 .. Len(p) - 1 : Front(p)[i] = p[i]
   BY PathParts
 <2>2. /\ Len(q) \in Nat /\ (q = <<>> <=> Len(q) = 0) /\ Len(Front(q)) = Len(q) - 1 /\ Last(q) = q[Len(q)]
       /\ \A i \in 1 .. Len(q) - 1 : Front(q)[i] = q[i]
   BY PathParts
 <2>3. Len(q) = Len(p) BY <2>1, <2>2
 <2> QED BY <2>1, <2>2, <2>3
<1> HIDE DEF l
<1>3. \/ Len(p) < Len(q) /\ Agree(p, q, Len(p))
      \/ \E i : Parts(p, q, i)
  BY <1>1, BeforeIs
<1>4. ~(Len(p) < Len(q)) BY <1>2 DEF l
<1>5. PICK i : Parts(p, q, i) BY <1>3, <1>4
<1>6. i \in Nat \ {0} /\ i <= l /\ Position(p[i]) < Position(q[i]) BY <1>5 DEF Parts, l
<1>7. i = l
 <2>1. Position(p[i]) \in Nat BY PositionIsNumber
 <2>2. p[i] # q[i] BY <1>6, <2>1
 <2> QED BY <1>2, <1>6, <2>2
<1> QED BY <1>2, <1>6, <1>7

(* Where a selection was found: at a node, or at the connection beside it. *)
AtNode(at, f) ==
    /\ at.parents = Front(f.path)
    /\ \/ at.key = Key(f) /\ at.source = f.source
       \/ f.connection # None /\ at.key = SourceKey(f.connection) /\ at.source = f.connection

(* What is found is at a node of the tree. *)
LEMMA FoundAtNode ==
    ASSUME NEW d, NEW c, NEW tree, TreeSound(c, tree), NEW selection, Find(d, tree, selection) # NoPlace
    PROVE  \E f \in tree : AtNode(Find(d, tree, selection), f)
<1> DEFINE Direct(n) == selection \in Answers(d, n).names
           hits == {n \in tree : Direct(n)
                        \/ (n.connection # None /\ selection \in ConnectionAnswers(d, n).names)}
           n == CHOOSE n \in hits : \A m \in hits : m = n \/ ~Before(m.path, n.path)
           key == IF Direct(n) THEN Key(n) ELSE SourceKey(n.connection)
           source == IF Direct(n) THEN n.source ELSE n.connection
<1>1. hits # {} BY DEF Find
<1>2. Find(d, tree, selection) = [key |-> key, source |-> source, parents |-> Front(n.path)]
  BY <1>1 DEF Find
<1>3. IsFiniteSet(hits) /\ \A h \in hits : IsPath(h.path) BY FS_Subset DEF TreeSound, NodeSound
<1>4. n \in hits
 <2> HIDE DEF hits
 <2>1. \E h \in hits : \A o \in hits : o = h \/ ~Before(o.path, h.path) BY <1>1, <1>3, MetFirst
 <2> QED BY <2>1
<1>5. n \in tree /\ (Direct(n) \/ n.connection # None) BY <1>4
<1> HIDE DEF n, hits
<1>6. Direct(n) => key = Key(n) /\ source = n.source OBVIOUS
<1>7. ~Direct(n) => key = SourceKey(n.connection) /\ source = n.connection /\ n.connection # None
  BY <1>5
<1> HIDE DEF Direct, key, source
<1>8. AtNode(Find(d, tree, selection), n) BY <1>2, <1>6, <1>7 DEF AtNode
<1> QED BY <1>5, <1>8

(* What a place is led to by: itself, what is beside it, or what is above it. *)
Selects(at, n) == Key(n) = at.key \/ (n.connection # None /\ n.connection = at.source)

(* What a place below the top is led to by has one key. *)
LEMMA SelectedAlone ==
    ASSUME NEW c, NEW T, TreeSound(c, T), Orderly(T), NEW f \in T, NEW at, AtNode(at, f),
           Len(f.path) > 1,
           NEW n \in T, Selects(at, n), Len(n.path) > 1,
           NEW h \in T, Selects(at, h), Len(h.path) > 1
    PROVE  Key(h) = Key(n)
<1>1. ASSUME NEW o \in T, NEW m \in T, m.connection # None, o.source = m.connection
      PROVE  Len(o.path) = 1
  BY <1>1 DEF Orderly, Joined
<1>2. CASE at.key = Key(f) /\ at.source = f.source
 <2>1. ASSUME NEW o \in T, Selects(at, o) PROVE Key(o) = at.key
  <3> SUFFICES ASSUME o.connection # None, o.connection = f.source PROVE FALSE
    BY <1>2, <2>1 DEF Selects
  <3>1. Len(f.path) = 1 BY <1>1
  <3> QED BY <3>1
 <2> QED BY <2>1
<1>3. CASE f.connection # None /\ at.key = SourceKey(f.connection) /\ at.source = f.connection
 <2>1. ASSUME NEW o \in T, Selects(at, o), Len(o.path) > 1 PROVE o.path = f.path
  <3>1. CASE Key(o) = at.key
   <4>1. at.key[1] = "source" /\ \A s : at.key = SourceKey(s) => s = f.connection
     BY <1>3 DEF SourceKey
   <4>2. NodeSound(c, o) BY DEF TreeSound
   <4>3. o.source = f.connection BY <3>1, <4>1, <4>2 DEF NodeSound
   <4>4. Len(o.path) = 1 BY <1>1, <1>3, <4>3
   <4> QED BY <2>1, <4>4
  <3>2. CASE o.connection = f.connection BY <1>3, <3>2 DEF Orderly, Joined
  <3> QED BY <1>3, <2>1, <3>1, <3>2 DEF Selects
 <2> QED BY <2>1 DEF Key
<1> QED BY <1>2, <1>3 DEF AtNode

(* Nothing a branch would show first is before what it should show. *)
LEMMA NoneLinkedBefore ==
    ASSUME NEW c, NEW T, TreeSound(c, T), Orderly(T), NEW f \in T, NEW at, AtNode(at, f),
           NEW n \in T, Front(n.path) = at.parents, Selects(at, n),
           NEW k \in 1..Len(n.path), k > 1,
           NEW h \in T, Front(h.path) = SubSeq(n.path, 1, k - 1),
           Selects(at, h) \/ Key(h) \in Range(at.parents)
    PROVE  ~Before(h.path, SubSeq(n.path, 1, k))
<1> DEFINE p == SubSeq(n.path, 1, k)
           l == Len(n.path)
<1>1. Paths(T) BY DEF TreeSound, NodeSound, Paths
<1>2. WayTo(n.path, k, p) BY <1>1, PartOfWay DEF Paths
<1>3. /\ l \in Nat /\ DOMAIN n.path = 1..l /\ Len(Front(n.path)) = l - 1 /\ Last(n.path) = n.path[l]
      /\ IsPath(Front(n.path)) /\ n.path # <<>>
      /\ \A i \in 1 .. l - 1 : Front(n.path)[i] = n.path[i]
  BY <1>1, PathParts DEF Paths
<1>4. /\ Len(f.path) \in Nat /\ Len(Front(f.path)) = Len(f.path) - 1 BY <1>1, PathParts DEF Paths
<1>5. /\ Len(h.path) \in Nat /\ Len(Front(h.path)) = Len(h.path) - 1 /\ IsPath(h.path) /\ h.path # <<>>
      /\ \A i \in 1 .. Len(h.path) - 1 : Front(h.path)[i] = h.path[i]
  BY <1>1, PathParts DEF Paths
<1> HIDE DEF p
<1>6. /\ IsPath(p) /\ p # <<>> /\ Last(p) = n.path[k] /\ Front(p) = SubSeq(n.path, 1, k - 1)
      /\ Len(Front(p)) = k - 1
  BY <1>2 DEF WayTo
<1>7. \A i \in 1 .. k - 1 : SubSeq(n.path, 1, k - 1)[i] = n.path[i]
 <2>1. k - 1 \in 1..Len(n.path) BY <1>3
 <2>2. WayTo(n.path, k - 1, SubSeq(n.path, 1, k - 1)) BY <1>1, <2>1, PartOfWay DEF Paths
 <2> QED BY <2>2 DEF WayTo
<1>8. Len(h.path) = k /\ \A i \in 1 .. k - 1 : h.path[i] = n.path[i]
 <2>1. Len(Front(h.path)) = k - 1 BY <1>6
 <2>2. Len(h.path) = k
  <3>1. k \in Nat BY <1>3
  <3> QED BY <1>5, <2>1, <3>1
 <2>3. \A i \in 1 .. k - 1 : Front(h.path)[i] = n.path[i] BY <1>7
 <2> QED BY <1>5, <2>2, <2>3
<1>9. k \in Nat /\ l > 1 /\ Len(f.path) > 1 BY <1>3, <1>4 DEF AtNode
<1>10. PICK j \in 1..l : Key(h) = n.path[j]
 <2>1. CASE Selects(at, h)
  <3>1. Key(h) = Key(n) BY <1>8, <1>9, <2>1, SelectedAlone
  <3> QED BY <1>3, <1>9, <3>1 DEF Key
 <2>2. CASE Key(h) \in Range(at.parents)
  <3>1. DOMAIN Front(n.path) = 1 .. l - 1 BY <1>3, PathParts
  <3>2. PICK j \in 1 .. l - 1 : Key(h) = Front(n.path)[j] BY <2>2, <3>1 DEF Range
  <3> QED BY <1>3, <3>2
 <2> QED BY <2>1, <2>2
<1>11. ~(Position(Key(h)) < Position(n.path[k])) BY <1>1, <1>8, <1>10, NoneMetBefore
<1>12. Before(h.path, p) => Position(Last(h.path)) < Position(Last(p)) BY <1>5, <1>6, SiblingsMet
<1> QED BY <1>6, <1>11, <1>12 DEF Key, p

----------------------------------------------------------------------------
(* What the filters leave, and what of it is on the screen. *)

(* What is left of a tree has the way to everything that is left. *)
Closed(T, nodes) == nodes \subseteq T /\ \A n \in nodes, m \in T : IsPrefix(m.path, n.path) => m \in nodes

(* The way to a place above another is part of the way to that one. *)
LEMMA PrefixTransitive ==
    ASSUME NEW p, IsPath(p), NEW q, IsPath(q), NEW r, IsPath(r), IsPrefix(p, q), IsPrefix(q, r)
    PROVE  IsPrefix(p, r)
<1>1. PICK K : p \in Seq(K) /\ q \in Seq(K) /\ r \in Seq(K)
 <2>1. PICK K1, K2, K3 : p \in Seq(K1) /\ q \in Seq(K2) /\ r \in Seq(K3) BY DEF IsPath
 <2>2. p \in Seq(K1 \cup K2 \cup K3) /\ q \in Seq(K1 \cup K2 \cup K3) /\ r \in Seq(K1 \cup K2 \cup K3)
   BY <2>1
 <2> QED BY <2>2
<1>2. Len(p) \in Nat /\ Len(q) \in Nat /\ Len(r) \in Nat BY <1>1
<1>3. Len(p) <= Len(q) /\ Len(q) <= Len(r) BY DEF IsPrefix
<1>4. SubSeq(p, 1, Len(p)) = SubSeq(q, 1, Len(p)) /\ SubSeq(q, 1, Len(q)) = SubSeq(r, 1, Len(q))
  BY DEF IsPrefix
<1>5. (\A i \in 1..Len(p) : p[i] = q[i]) /\ (\A i \in 1..Len(q) : q[i] = r[i])
 <2>1. \A i \in 1..Len(p) : p[i] = q[i] BY <1>1, <1>2, <1>3, <1>4, SamePrefix
 <2>2. \A i \in 1..Len(q) : q[i] = r[i] BY <1>1, <1>2, <1>3, <1>4, SamePrefix
 <2> QED BY <2>1, <2>2
<1>6. \A i \in 1..Len(p) : p[i] = r[i] BY <1>2, <1>3, <1>5
<1>7. Len(p) <= Len(r) BY <1>2, <1>3
<1>8. SubSeq(p, 1, Len(p)) = SubSeq(r, 1, Len(p)) BY <1>1, <1>2, <1>6, <1>7, SamePrefix
<1> QED BY <1>7, <1>8 DEF IsPrefix

(* Keeping what passes keeps the way to it. *)
LEMMA BranchesClosed ==
    ASSUME NEW T, Paths(T), NEW nodes, Closed(T, nodes), NEW passing, passing \subseteq nodes
    PROVE  Closed(T, Branches(nodes, passing))
<1>1. Branches(nodes, passing) \subseteq T BY DEF Closed, Branches
<1>2. ASSUME NEW n \in Branches(nodes, passing), NEW m \in T, IsPrefix(m.path, n.path)
      PROVE  m \in Branches(nodes, passing)
 <2>1. PICK o \in passing : IsPrefix(n.path, o.path) BY DEF Branches
 <2>2. n \in nodes /\ n \in T /\ o \in T BY DEF Branches, Closed
 <2>3. m \in nodes BY <1>2, <2>2 DEF Closed
 <2>4. IsPrefix(m.path, o.path) BY <1>2, <2>1, <2>2, PrefixTransitive DEF Paths
 <2> QED BY <2>3, <2>4 DEF Branches
<1> QED BY <1>1, <1>2 DEF Closed

(* The filters keep the way to whatever they leave. *)
LEMMA FilteredClosed ==
    ASSUME NEW T, Paths(T), NEW d, NEW c, NEW filter
    PROVE  Closed(T, Filtered(d, T, c, filter))
<1> DEFINE About(n) == {n.source, n.connection} \cap DOMAIN c
           passing == {n \in T :
                    /\ filter.query # None => SearchMatches(T, {filter.query}, n)
                    /\ filter.review => About(n) \cap filter.issues # {}}
           found == Branches(T, passing)
           wanted == {s \in DOMAIN c : Monitored(d, s, c[s]) = (filter.monitoring = "monitored")}
           covered == {n \in found : About(n) \cap wanted # {}}
           status == IF filter.monitoring = "all" THEN found ELSE Branches(found, covered)
           excluded == {n \in status : n.source \in filter.excluded}
<1>1. Filtered(d, T, c, filter) = IF filter.excludedOnly THEN Branches(status, excluded) ELSE status
  BY DEF Filtered
<1>2. passing \subseteq T /\ covered \subseteq found /\ excluded \subseteq status OBVIOUS
<1> HIDE DEF passing, covered, excluded
<1>3. Closed(T, T) BY DEF Closed
<1>4. Closed(T, found) BY <1>2, <1>3, BranchesClosed
<1> HIDE DEF found
<1>5. Closed(T, Branches(found, covered)) BY <1>2, <1>4, BranchesClosed
<1>6. Closed(T, status) BY <1>4, <1>5
<1> HIDE DEF status
<1>7. Closed(T, Branches(status, excluded)) BY <1>2, <1>6, BranchesClosed
<1> QED BY <1>1, <1>6, <1>7

(* The selection is on the screen once the groups above it are open. *)
LEMMA OpenedIsOnScreen ==
    ASSUME NEW c, NEW T, TreeSound(c, T), Orderly(T), NEW nodes, Closed(T, nodes), NEW p,
           NEW at, at = Place(catalog, p, topology, p.showDisabled, p.selection), at # NoPlace,
           NEW f \in T, AtNode(at, f),
           NEW n \in nodes, Front(n.path) = at.parents, Selects(at, n),
           \A k \in 1 .. Len(n.path) - 1 : Opened(p, n.path[k])
    PROVE  OnScreen(p, nodes, n)
<1> DEFINE l == Len(n.path)
           way(k) == SubSeq(n.path, 1, k)
<1>1. Paths(T) /\ n \in T BY DEF TreeSound, NodeSound, Paths, Closed
<1>2. /\ l \in Nat \ {0} /\ IsPath(n.path) /\ n.path # <<>> /\ way(l) = n.path /\ way(0) = <<>>
      /\ \A k \in 1..l : IsPrefix(way(k), n.path)
 <2>1. IsPath(n.path) /\ n.path # <<>> BY <1>1 DEF Paths
 <2>2. PICK K : n.path \in Seq(K) BY <2>1 DEF IsPath
 <2>3. l \in Nat \ {0} /\ way(l) = n.path /\ way(0) = <<>> BY <2>1, <2>2
 <2>4. ASSUME NEW k \in 1..l PROVE IsPrefix(way(k), n.path)
  <3>1. Len(way(k)) = k /\ k <= l /\ k \in Nat BY <2>2, <2>3
  <3>2. SubSeq(way(k), 1, k) = way(k) BY <2>2, <2>3
  <3> HIDE DEF l
  <3> QED BY <3>1, <3>2 DEF IsPrefix, l
 <2> QED BY <2>1, <2>3, <2>4
<1>3. ASSUME NEW k \in 1..l
      PROVE  \E m \in ShownUnder(p, nodes, way(k - 1)) : m.path = way(k)
 <2>1. PICK m \in nodes : m.path = way(k) /\ (k = l => m = n)
  <3>1. CASE k = l BY <1>2, <3>1
  <3>2. CASE k # l
   <4>1. PICK m \in T : m.path = way(k) BY <1>1, WayInTree DEF Orderly
   <4>2. IsPrefix(m.path, n.path) BY <1>2, <4>1
   <4>3. m \in nodes BY <4>2 DEF Closed
   <4> QED BY <3>2, <4>1, <4>3
  <3> QED BY <3>1, <3>2
 <2>2. WayTo(n.path, k, way(k)) BY <1>2, PartOfWay
 <2> HIDE DEF way
 <2>3. m.path # <<>> /\ Front(m.path) = way(k - 1) /\ Key(m) = n.path[k]
   BY <2>1, <2>2 DEF WayTo, Key, way
 <2>4. m \in Children(nodes, way(k - 1)) BY <2>1, <2>3 DEF Children
 <2>5. CASE k = 1
  <3>1. way(k - 1) = <<>> BY <1>2, <2>5
  <3> QED BY <2>1, <2>4, <3>1 DEF ShownUnder
 <2>6. CASE k # 1
  <3>1. k > 1 /\ k \in Nat BY <1>2, <2>6
  <3>2. way(k - 1) # <<>> BY <2>1, <2>2, <2>3, <3>1 DEF WayTo
  <3>3. Selects(at, m) \/ Key(m) \in Range(at.parents)
   <4>1. CASE k = l BY <2>1, <4>1
   <4>2. CASE k # l
    <5>1. k \in 1 .. l - 1 BY <1>2, <4>2
    <5>2. Front(n.path)[k] = n.path[k] /\ k \in DOMAIN Front(n.path)
     <6>1. IsPath(Front(n.path)) /\ Len(Front(n.path)) = l - 1 /\ (\A i \in 1 .. l - 1 : Front(n.path)[i] = n.path[i])
       BY <1>2, PathParts
     <6>2. DOMAIN Front(n.path) = 1..Len(Front(n.path)) BY <6>1, PathParts
     <6> QED BY <5>1, <6>1, <6>2
    <5> QED BY <2>3, <5>2 DEF Range
   <4> QED BY <4>1, <4>2
  <3> DEFINE hits == {h \in Children(nodes, way(k - 1)) :
                         \/ at # NoPlace /\ Key(h) = at.key
                         \/ h.connection # None /\ h.connection = at.source
                         \/ at # NoPlace /\ Key(h) \in Range(at.parents)}
  <3>4. m \in hits BY <2>4, <3>3 DEF Selects
  <3>5. ASSUME NEW h \in hits PROVE ~Before(h.path, m.path)
   <4>1. h \in T /\ Front(h.path) = way(k - 1) /\ (Selects(at, h) \/ Key(h) \in Range(at.parents))
     BY DEF Children, Closed, Selects
   <4>2. Front(h.path) = SubSeq(n.path, 1, k - 1) BY <4>1 DEF way
   <4>3. ~Before(h.path, SubSeq(n.path, 1, k)) BY <1>1, <3>1, <4>1, <4>2, NoneLinkedBefore
   <4> QED BY <2>1, <4>3 DEF way
  <3>6. Linked(p, nodes, way(k - 1)) = {h \in hits : \A o \in hits : ~Before(o.path, h.path)}
    BY DEF Linked
  <3> HIDE DEF hits
  <3>7. m \in Linked(p, nodes, way(k - 1)) BY <3>4, <3>5, <3>6
  <3> QED BY <2>1, <3>2, <3>7 DEF ShownUnder
 <2> QED BY <2>5, <2>6
<1>4. \A k \in 1..l : k < l => k \in 1 .. l - 1 BY <1>2
<1> QED BY <1>3, <1>4 DEF OnScreen

----------------------------------------------------------------------------
(* A link ends on the screen. *)

(* Where nothing is disabled, nothing is left out for it. *)
LEMMA SourcesAlike ==
    ASSUME NEW d, ListSound(d), \A r \in Range(d.rows) : ~r.disabled
    PROVE  Sources(d, FALSE) = Sources(d, TRUE)
<1> DEFINE source(s) == LET rows == Aliases(d, s)
                        IN  d.rows[IF s \in rows THEN s ELSE First(rows)]
           ids == Range(d.canonical)
           kept(all) == {s \in ids : all \/ ~source(s).disabled}
<1>1. \A all : Sources(d, all) = [s \in kept(all) |-> source(s)] BY DEF Sources
<1>2. ASSUME NEW s \in ids PROVE ~source(s).disabled
 <2>1. s \in DOMAIN d.rows /\ d.canonical[s] = s
  <3>1. DOMAIN d.canonical = DOMAIN d.rows BY DEF ListSound
  <3>2. PICK r \in DOMAIN d.rows : s = d.canonical[r] BY <3>1 DEF Range
  <3> QED BY <3>2, CanonicalSource
 <2>2. s \in Aliases(d, s) BY <2>1 DEF Aliases
 <2>3. source(s) = d.rows[s] BY <2>2
 <2> QED BY <2>1, <2>3 DEF Range
<1>3. kept(FALSE) = kept(TRUE) BY <1>2
<1> HIDE DEF kept, source
<1> QED BY <1>1, <1>3

(* The tree the page shows, where its link leads in it, and what is left of it. *)
TreeShown(p, c, T, at) ==
    /\ TreeSound(c, T) /\ Orderly(T)
    /\ \A excluded : Closed(T, PageNodes(p, Data, excluded))
    /\ at # NoPlace => \E f \in T : AtNode(at, f)

(* The page shows a sound tree, and finds its selection at one of its nodes. *)
LEMMA PageShowsTree ==
    ASSUME DataFits, NEW p, p.grouping \in Groupings, p.showDisabled \in BOOLEAN,
           topology.response \in Responses
    PROVE  \E c, T : TreeShown(p, c, T, Place(catalog, p, topology, p.showDisabled, p.selection))
<1> DEFINE i == catalog.inventory
           d == Lists[i]
           g == p.grouping
           t == topology.response
           all == p.showDisabled
           k == <<i, g, t, all>>
           c == Sources(d, all)
           T == Tree(d, g, t, all)
           at == Place(catalog, p, topology, all, p.selection)
<1>1. i \in DOMAIN Inventories BY DEF DataFits
<1>2. Trees[k] = T /\ Places[k] = PlacesIn(d, T) /\ Shows[<<i, all>>] = c BY <1>1, CachesAreBuilt
<1>3. ListSound(d) BY <1>1, ListsAreSound
<1>4. t \in Seq(Range(t)) BY ResponsesAssumption
<1>5. TreeSound(c, T) BY <1>3, <1>4, TreeIsSound
<1>6. Orderly(T) BY <1>3, <1>4, TreeShape
<1>7. TreeOf(catalog, p, topology, all) = T BY <1>2 DEF TreeOf
<1>8. at # NoPlace => at = Find(d, T, p.selection)
 <2> DEFINE names == {SourceKey(r) : r \in DOMAIN d.rows} \cup {Key(n) : n \in T}
            places == PlacesIn(d, T)
 <2>1. places = [name \in names |-> Find(d, T, name)] BY DEF PlacesIn
 <2>2. at = IF p.selection \in DOMAIN places THEN places[p.selection] ELSE NoPlace BY <1>2 DEF Place
 <2> HIDE DEF places, names, d, T, at
 <2> QED BY <2>1, <2>2
<1> HIDE DEF d, g, t, T, c, at
<1>9. at # NoPlace => \E f \in T : AtNode(at, f) BY <1>5, <1>8, FoundAtNode
<1>10. Paths(T) BY <1>5 DEF TreeSound, NodeSound, Paths
<1>11. ASSUME NEW excluded PROVE Closed(T, PageNodes(p, Data, excluded))
 <2>1. PageNodes(p, Data, excluded) =
          Filtered(Data, T, Shows[<<i, all>>], FilterNow(p, Data, excluded))
   BY <1>7 DEF PageNodes
 <2> QED BY <1>10, <2>1, FilteredClosed
<1>12. TreeShown(p, c, T, at) BY <1>5, <1>6, <1>9, <1>11 DEF TreeShown
<1> QED BY <1>12 DEF at

(* What the caches hold. *)
LEMMA CachesHold ==
    ASSUME NEW i \in DOMAIN Inventories, NEW g \in Groupings, NEW t \in Responses, NEW s \in BOOLEAN
    PROVE  Places[<<i, g, t, s>>] = PlacesIn(Lists[i], Tree(Lists[i], g, t, s))
<1> DEFINE k == <<i, g, t, s>>
<1>1. Trees[k] = Tree(Lists[i], g, t, s) /\ Places[k] = PlacesIn(Lists[i], Trees[k])
  BY CachesAreBuilt, Zenon
<1> QED BY <1>1

(* Where nothing is hidden, a link is looked for where it is shown. *)
LEMMA PlacesAlike ==
    ASSUME DataFits, PageFits, NothingHidden, NEW selection
    PROVE  Place(catalog, page, topology, page.showDisabled, selection) =
               Place(catalog, page, topology, TRUE, selection)
<1> DEFINE i == catalog.inventory
           d == Lists[i]
           g == page.grouping
           t == topology.response
           all == page.showDisabled
           k == <<i, g, t, all>>
           T == Tree(d, g, t, all)
           l == <<i, g, t, TRUE>>
           whole == Tree(d, g, t, TRUE)
<1>1. i \in DOMAIN Inventories /\ g \in Groupings /\ t \in Responses /\ all \in BOOLEAN
  BY DEF DataFits, PageFits, PageShape
<1>2. Places[k] = PlacesIn(d, T) /\ Places[l] = PlacesIn(d, whole) BY <1>1, CachesHold
<1>3. ListSound(d) BY <1>1, ListsAreSound
<1>4. Sources(d, all) = Sources(d, TRUE)
 <2>1. CASE all = TRUE BY <2>1
 <2>2. CASE all = FALSE BY <1>3, <2>2, SourcesAlike DEF Rows, NothingHidden
 <2> QED BY <1>1, <2>1, <2>2
<1> HIDE DEF d, g, t, i, all
<1>5. T = whole BY <1>4 DEF Tree
<1>6. Places[k] = Places[l] BY <1>2, <1>5
<1> QED BY <1>6 DEF Place, i, g, t, all

(* After a link the groups above what it leads to are open. *)
LEMMA LinkOpens ==
    ASSUME DataFits, PageFits, NEW s, SourceLink(s), NothingHidden
    PROVE  LET at == Place(catalog, page', topology, page'.showDisabled, page'.selection)
           IN  /\ page'.grouping \in Groupings /\ page'.showDisabled \in BOOLEAN
               /\ \A k \in DOMAIN at.parents : Last(SubSeq(at.parents, 1, k)) \in page'.expanded
<1> DEFINE q == [page EXCEPT !.selection = SourceKey(s)]
           At(key) == Place(catalog, q, topology, TRUE, key)
           opened(key) == {Last(SubSeq(At(key).parents, 1, k)) : k \in DOMAIN At(key).parents}
           at == Place(catalog, page', topology, page'.showDisabled, page'.selection)
<1>1. catalog.loaded /\ page' = Reveal(q, catalog, topology) BY DEF SourceLink, Browse, Page
<1>2. /\ q.grouping = page.grouping /\ q.showDisabled = page.showDisabled
      /\ q = [grouping |-> q.grouping, selection |-> q.selection, expanded |-> q.expanded,
              limits |-> q.limits, showDisabled |-> q.showDisabled, filter |-> q.filter]
  BY DEF PageFits, PageShape
<1> HIDE DEF q
<1>3. PICK key : page' = [q EXCEPT !.selection = key, !.expanded = @ \cup opened(key)]
  BY <1>1 DEF Reveal
<1> HIDE DEF opened
<1>4. /\ page'.selection = key /\ opened(key) \subseteq page'.expanded
      /\ page'.grouping = page.grouping /\ page'.showDisabled = page.showDisabled
  BY <1>2, <1>3
<1>5. page.grouping \in Groupings /\ page.showDisabled \in BOOLEAN BY DEF PageFits, PageShape
<1>6. at = Place(catalog, page, topology, page.showDisabled, key) BY <1>4 DEF Place
<1>7. At(key) = Place(catalog, page, topology, TRUE, key) BY <1>2 DEF Place
<1>8. at = At(key) BY <1>6, <1>7, PlacesAlike
<1> HIDE DEF at, At
<1>9. \A k \in DOMAIN at.parents : Last(SubSeq(at.parents, 1, k)) \in page'.expanded
  BY <1>4, <1>8 DEF opened
<1> QED BY <1>4, <1>5, <1>9 DEF at

(* A link ends on the screen. *)
LEMMA LinkIsShown ==
    ASSUME DataFits, PageFits, NEW s, SourceLink(s), NothingHidden
    PROVE  SelectedOnScreen(page')
<1> DEFINE p == page'
           nodes == PageNodes(p, Data, UNION Range(config.excluded))
           at == Place(catalog, p, topology, p.showDisabled, p.selection)
<1>1. /\ p.grouping \in Groupings /\ p.showDisabled \in BOOLEAN
      /\ \A k \in DOMAIN at.parents : Last(SubSeq(at.parents, 1, k)) \in p.expanded
  BY LinkOpens
<1>2. topology.response \in Responses BY DEF PageFits
<1> HIDE DEF p
<1>3. PICK c, T : TreeShown(p, c, T, at) BY <1>1, <1>2, PageShowsTree
<1>4. TreeSound(c, T) /\ Orderly(T) /\ Closed(T, nodes) BY <1>3 DEF TreeShown
<1>5. ASSUME at # NoPlace, NEW n \in nodes, Front(n.path) = at.parents, Selects(at, n)
      PROVE  OnScreen(p, nodes, n)
 <2>1. PICK f \in T : AtNode(at, f) BY <1>3, <1>5 DEF TreeShown
 <2>2. IsPath(n.path) /\ n.path # <<>> BY <1>4 DEF Closed, TreeSound, NodeSound
 <2>3. ASSUME NEW k \in 1 .. Len(n.path) - 1 PROVE Opened(p, n.path[k])
  <3> DEFINE front == Front(n.path)
  <3>1. IsPath(front) /\ Len(front) = Len(n.path) - 1 /\ front[k] = n.path[k] BY <2>2, PathParts
  <3>2. front # <<>> /\ k \in 1..Len(front)
   <4>1. Len(front) \in Nat /\ (front = <<>> <=> Len(front) = 0) /\ Len(n.path) \in Nat
     BY <2>2, <3>1, PathParts
   <4> QED BY <3>1, <4>1
  <3>3. DOMAIN front = 1..Len(front) BY <3>1, PathParts
  <3> HIDE DEF front
  <3>4. WayTo(front, k, SubSeq(front, 1, k)) BY <3>1, <3>2, PartOfWay
  <3>5. Last(SubSeq(front, 1, k)) = n.path[k] BY <3>1, <3>4 DEF WayTo
  <3>6. at.parents = front BY <1>5 DEF front
  <3> HIDE DEF at
  <3> QED BY <1>1, <3>2, <3>3, <3>5, <3>6 DEF Opened
 <2> HIDE DEF nodes
 <2>4. at = Place(catalog, p, topology, p.showDisabled, p.selection) OBVIOUS
 <2> HIDE DEF at
 <2> QED BY <1>4, <1>5, <2>1, <2>3, <2>4, OpenedIsOnScreen
<1> QED BY <1>5 DEF SelectedOnScreen, Selects, p

(* A link to a source leaves the row it leads to on the screen. *)
THEOREM LinksAreShown == Spec => LinkShown
<1>1. DataFits /\ PageFits =>
          ((\E s \in DOMAIN Rows : FollowLink(s)) /\ NothingHidden => SelectedOnScreen(page'))
  BY LinkIsShown DEF FollowLink
<1>2. DataFits /\ PageFits => [(\E s \in DOMAIN Rows : FollowLink(s)) /\ NothingHidden => SelectedOnScreen(page')]_vars
  BY <1>1
<1> QED BY <1>2, ShownSafety, PTL DEF LinkShown
============================================================================
