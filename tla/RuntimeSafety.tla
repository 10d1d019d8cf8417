--------------------------- MODULE RuntimeSafety ---------------------------
(***************************************************************************)
(* Why the save and publish boundary of runtime.py is safe, for every      *)
(* number of channels, observations, changes, faults and restarts.  Each   *)
(* part of RuntimeInvariant is kept by every step, given the parts before  *)
(* it; the safety properties of Runtime follow from them, and so does that *)
(* it implements DurablePublication.                                       *)
(***************************************************************************)
EXTENDS RuntimeInvariant, TLAPS

----------------------------------------------------------------------------
(* Type correctness.  The types of the groups of variables stay folded: a  *)
(* step proves those of the groups it changes, and TypeFrame carries the   *)
(* others.                                                                 *)

(* Why a new delivery id stays in Ids: a request takes a stamp of its own. *)
Bounded ==
  /\ mem.sequence <= stamps
  /\ disk.sequence <= stamps

TypeInv == TypeOK /\ Bounded

(* Decides makes a ledger, and numbers that fit.                           *)
LEMMA DecidesType ==
  ASSUME NEW base \in Ledger, base.sequence <= stamps, stamps \in 0..MaxStamps,
         NEW changed \in BOOLEAN, NEW asked \in BOOLEAN, NEW taken,
         Decides(base, changed, asked, taken)
  PROVE  /\ mem' \in Ledger /\ stamps' \in 0..MaxStamps
         /\ mem'.sequence <= stamps' /\ stamps <= stamps'
         /\ changed => stamps + 1 \in Stamps
  <1>. USE BoundsAssumption DEF Ledger, Request, Stamps, Ids, Decides
  <1>1. stamps' \in 0..MaxStamps /\ stamps <= stamps' OBVIOUS
  <1>2. changed => stamps + 1 \in Stamps OBVIOUS
  <1>3. mem'.sequence <= stamps' /\ mem'.sequence \in 0..MaxStamps OBVIOUS
  <1>4. mem'.changes \in SUBSET Stamps OBVIOUS
  <1>5. mem'.outbox \in SUBSET Request OBVIOUS
  <1>6. mem' \in Ledger BY <1>3, <1>4, <1>5
  <1>. QED  BY <1>1, <1>2, <1>3, <1>6


(* What is taken out of an outbox is a set of requests.                    *)
LEMMA TakenType ==
  ASSUME TypeWithdrawn, NEW base \in Ledger, NEW taken \in SUBSET base.outbox,
         withdrawn' = withdrawn \cup taken
  PROVE  TypeWithdrawn'
  BY DEF TypeWithdrawn, Ledger

(* The initial state has the types.                                        *)
LEMMA TypeInit == Init => TypeInv
  <1>. SUFFICES ASSUME Init PROVE TypeInv OBVIOUS
  <1>. USE BoundsAssumption DEF Init
  <1>1. TypeLedgers /\ Bounded BY DEF TypeLedgers, Bounded, Ledger, EmptyLedger
  <1>2. TypeArrivals BY DEF TypeArrivals
  <1>3. TypeRefresh /\ TypeDeferred /\ TypeStatus BY DEF TypeRefresh, TypeDeferred, TypeStatus
  <1>7. TypeNews
   <2>1. facts \in SUBSET Stamps /\ saveRequired \in BOOLEAN OBVIOUS
   <2>2. stamps \in 0..MaxStamps OBVIOUS
   <2>. QED BY <2>1, <2>2 DEF TypeNews
  <1>8. TypeBudget BY DEF TypeBudget
  <1>4. TypeSection BY DEF TypeSection, NoBatch
  <1>5. TypeSender
   <2>1. DOMAIN sender = {} /\ sender = [f \in {} |-> FALSE] OBVIOUS
   <2>2. sender \in [{} -> Sender] BY <2>1
   <2>. QED BY <2>1, <2>2 DEF TypeSender
  <1>6. TypeHistory BY DEF TypeHistory
  <1>. QED
    BY <1>1, <1>2, <1>3, <1>4, <1>5, <1>6, <1>7, <1>8
    DEF TypeInv, TypeOK, TypeWithdrawn

(* A group of variables that does not change keeps its type.               *)
LEMMA TypeFrame ==
  /\ TypeLedgers /\ UNCHANGED ledgers => TypeLedgers'
  /\ TypeArrivals /\ UNCHANGED arrivals => TypeArrivals'
  /\ TypeRefresh /\ UNCHANGED refresh => TypeRefresh'
  /\ TypeDeferred /\ UNCHANGED deferred => TypeDeferred'
  /\ TypeSection /\ UNCHANGED section => TypeSection'
  /\ TypeStatus /\ UNCHANGED status => TypeStatus'
  /\ TypeNews /\ UNCHANGED news => TypeNews'
  /\ TypeSender /\ UNCHANGED sender => TypeSender'
  /\ TypeHistory /\ UNCHANGED history => TypeHistory'
  /\ TypeBudget /\ UNCHANGED budget => TypeBudget'
  /\ TypeWithdrawn /\ UNCHANGED withdrawn => TypeWithdrawn'
  /\ Bounded /\ UNCHANGED ledgers /\ UNCHANGED news => Bounded'
  BY DEF TypeLedgers, TypeArrivals, TypeRefresh, TypeDeferred, TypeSection,
         TypeStatus, TypeNews, TypeSender, TypeHistory, TypeBudget, TypeWithdrawn, Bounded,
         ledgers, arrivals, refresh, deferred, section, status, news, history, budget

(* Callbacks leave the ledgers alone and change only their own groups.     *)
LEMMA TypeCallbacks == TypeInv /\ Callbacks => TypeInv'
  <1>. SUFFICES ASSUME TypeInv, Callbacks PROVE TypeInv' OBVIOUS
  <1>. USE BoundsAssumption, TypeFrame DEF TypeInv, TypeOK
  <1>1. CASE Capture BY <1>1 DEF Capture, RequestRefresh, TypeArrivals, TypeRefresh
  <1>2. CASE Sweep BY <1>2 DEF Sweep, RequestRefresh, TypeRefresh
  <1>3. CASE HoldOver BY <1>3 DEF HoldOver, RequestRefresh, TypeRefresh, TypeStatus, refresh
  <1>4. CASE TimerFires BY <1>4 DEF TimerFires, TypeDeferred
  <1>5. CASE Stop BY <1>5 DEF Stop, TypeDeferred, TypeStatus
  <1>. QED BY <1>1, <1>2, <1>3, <1>4, <1>5 DEF Callbacks

(* Starting, and taking the lock.                                          *)
LEMMA TypeRefreshing == TypeInv /\ Refreshing => TypeInv'
  <1>. SUFFICES ASSUME TypeInv, Refreshing PROVE TypeInv' OBVIOUS
  <1>. USE BoundsAssumption, TypeFrame DEF TypeInv, TypeOK
  <1>1. CASE Start BY <1>1 DEF Start, Take, TypeSection, TypeStatus, TypeNews, Bounded, ledgers
  <1>2. CASE RefreshLoop BY <1>2 DEF RefreshLoop, TypeRefresh
  <1>3. CASE EnterRefresh BY <1>3 DEF EnterRefresh, Take, TypeRefresh, TypeSection
  <1>4. CASE EnterControl BY <1>4 DEF EnterControl, Take, TypeSection
  <1>. QED BY <1>1, <1>2, <1>3, <1>4 DEF Refreshing

(* What Release and Abandon do to the groups they touch.                   *)
LEMMA ReleaseType ==
  ASSUME TypeRefresh, TypeSection, Release, requested' = requested
  PROVE  TypeRefresh' /\ TypeSection'
  BY BoundsAssumption DEF TypeRefresh, TypeSection, Release, NoBatch

(* A ledger that took in an observation is a ledger.                       *)
LEMMA EvidenceType ==
  ASSUME TypeLedgers, NEW x \in 0..MaxObs
  PROVE  [mem EXCEPT !.evidence = x] \in Ledger
  BY DEF TypeLedgers, Ledger

(* _failed gives up the facts and releases the lock.                       *)
LEMMA AbandonType ==
  ASSUME TypeRefresh, TypeSection, TypeStatus, TypeHistory,
         NEW unpublished \in SUBSET Stamps, Abandon(unpublished),
         requested' = requested, indexed' \in BOOLEAN
  PROVE  TypeRefresh' /\ TypeSection' /\ TypeStatus' /\ TypeHistory' /\ facts' = {}
  <1>1. TypeRefresh' /\ TypeSection' BY ReleaseType DEF Abandon
  <1>2. TypeStatus' BY DEF Abandon, TypeStatus
  <1>3. TypeHistory' /\ facts' = {} BY DEF Abandon, TypeHistory
  <1>. QED BY <1>1, <1>2, <1>3

(* A failed final save ends the stop.                                      *)
LEMMA AbandonStopType ==
  ASSUME TypeRefresh, TypeSection, TypeStatus, TypeHistory,
         NEW unpublished \in SUBSET Stamps, AbandonStop(unpublished),
         requested' = requested
  PROVE  TypeRefresh' /\ TypeSection' /\ TypeStatus' /\ TypeHistory'
         /\ facts' = unpublished
  <1>1. TypeRefresh' /\ TypeSection' BY ReleaseType DEF AbandonStop
  <1>2. TypeStatus' BY DEF AbandonStop, TypeStatus
  <1>3. TypeHistory' /\ facts' = unpublished BY TypeFrame DEF AbandonStop
  <1>. QED BY <1>1, <1>2, <1>3

(* The budget of faults is not exceeded.                                   *)
LEMMA FaultType ==
  ASSUME TypeBudget, Fault PROVE TypeBudget'
  BY BoundsAssumption DEF TypeBudget, Fault

(* What the first evaluation starts from is a ledger.                      *)
LEMMA BaseType ==
  ASSUME TypeLedgers, Bounded PROVE Base \in Ledger /\ Base.sequence <= stamps
  BY DEF TypeLedgers, Bounded, Base, Ledger

(* Draining and evaluating.                                                *)
LEMMA TypeWorking == TypeInv /\ Working => TypeInv'
  <1>. SUFFICES ASSUME TypeInv, Working PROVE TypeInv' OBVIOUS
  <1>. USE BoundsAssumption DEF TypeInv, TypeOK
  <1>1. CASE DrainOne
   <2>1. PICK changed \in BOOLEAN, asked \in BOOLEAN, taken \in SUBSET mem.outbox :
           /\ Decides([mem EXCEPT !.evidence = Head(pending)], changed, asked, taken)
           /\ facts' = Noted(changed)
           /\ saveRequired' \in {saveRequired \/ changed, TRUE}
     BY <1>1 DEF DrainOne
   <2>2. Head(pending) \in 0..MaxObs /\ Tail(pending) \in Seq(1..MaxObs)
     BY <1>1 DEF DrainOne, TypeArrivals
   <2>3. [mem EXCEPT !.evidence = Head(pending)] \in Ledger BY <2>2, EvidenceType
   <2>4. [mem EXCEPT !.evidence = Head(pending)].sequence <= stamps
     BY DEF Bounded, TypeLedgers, Ledger
   <2>5. /\ mem' \in Ledger /\ stamps' \in 0..MaxStamps /\ mem'.sequence <= stamps'
         /\ stamps <= stamps' /\ (changed => stamps + 1 \in Stamps)
     BY <2>1, <2>3, <2>4, DecidesType DEF TypeNews
   <2>6. TypeLedgers' /\ Bounded' BY <1>1, <2>5 DEF DrainOne, TypeLedgers, Bounded, TypeNews, Ledger
   <2>7. TypeNews' BY <1>1, <2>1, <2>5 DEF TypeNews, Noted
   <2>8. TypeArrivals' BY <1>1, <2>2 DEF DrainOne, TypeArrivals
   <2>9. TypeWithdrawn' BY <2>1, TakenType DEF Decides, TypeLedgers
   <2>. QED BY <1>1, <2>6, <2>7, <2>8, <2>9, TypeFrame DEF DrainOne
  <1>2. CASE DrainFails
   <2>1. PICK changed \in BOOLEAN, asked \in BOOLEAN, taken \in SUBSET mem.outbox :
           /\ Decides(mem, changed, asked, taken)
           /\ saveRequired' \in {saveRequired \/ changed, TRUE}
           /\ IF lock = "stop" THEN AbandonStop(Noted(changed))
              ELSE Abandon(Noted(changed)) /\ UNCHANGED indexed
     BY <1>2 DEF DrainFails
   <2>2. Tail(pending) \in Seq(1..MaxObs) BY <1>2 DEF DrainFails, TypeArrivals
   <2>3. /\ mem' \in Ledger /\ stamps' \in 0..MaxStamps /\ mem'.sequence <= stamps'
         /\ stamps <= stamps' /\ (changed => stamps + 1 \in Stamps)
     BY <2>1, DecidesType DEF TypeNews, Bounded, TypeLedgers
   <2>4. TypeLedgers' /\ Bounded'
     BY <1>2, <2>3 DEF DrainFails, TypeLedgers, Bounded, TypeNews, Ledger
   <2>5. Noted(changed) \in SUBSET Stamps BY <2>3 DEF Noted, TypeNews
   <2>6. TypeRefresh' /\ TypeSection' /\ TypeStatus' /\ TypeHistory'
         /\ facts' \in SUBSET Stamps
    <3>1. CASE lock = "stop" BY <1>2, <2>1, <2>5, <3>1, AbandonStopType DEF DrainFails
    <3>2. CASE lock # "stop" BY <1>2, <2>1, <2>5, <3>2, AbandonType DEF DrainFails, TypeStatus
    <3>. QED BY <3>1, <3>2
   <2>7. TypeNews' BY <2>1, <2>3, <2>6 DEF TypeNews
   <2>8. TypeArrivals' BY <1>2, <2>2 DEF DrainFails, TypeArrivals
   <2>9. TypeBudget' BY <1>2, FaultType DEF DrainFails
   <2>10. TypeWithdrawn' BY <2>1, TakenType DEF Decides, TypeLedgers
   <2>. QED BY <1>2, <2>4, <2>6, <2>7, <2>8, <2>9, <2>10, TypeFrame DEF DrainFails
  <1>3. CASE DrainDone
    BY <1>3, TypeFrame
    DEF DrainDone, BeginSave, TypeSection, TypeDeferred, TypeNews, Bounded, ledgers
  <1>4. CASE Evaluate
   <2>1. PICK changed \in BOOLEAN, asked \in BOOLEAN, required \in BOOLEAN,
              taken \in SUBSET Base.outbox :
           /\ Decides(Base, changed, asked, taken)
           /\ facts' = Noted(changed)
           /\ IF MustSave \/ required \/ mem'.outbox # {} \/ facts' # {}
                THEN /\ BeginSave("complete")
                     /\ control' = IF lock = "control" /\ changed
                                     THEN stamps + 1 ELSE 0
                     /\ UNCHANGED <<lock, batch, task, error, deadline>>
                ELSE /\ DeferSave /\ saveRequired' = FALSE
                     /\ error' = FALSE
                     /\ Schedule
                     /\ Release
     BY <1>4 DEF Evaluate
   <2>2. /\ mem' \in Ledger /\ stamps' \in 0..MaxStamps /\ mem'.sequence <= stamps'
         /\ stamps <= stamps' /\ (changed => stamps + 1 \in Stamps)
     BY <2>1, BaseType, DecidesType DEF TypeNews
   <2>3. TypeLedgers' /\ Bounded' BY <1>4, <2>2 DEF Evaluate, TypeLedgers, Bounded, TypeNews, Ledger
   <2>4. Noted(changed) \in SUBSET Stamps BY <2>2 DEF Noted, TypeNews
   <2>5. TypeNews' BY <2>1, <2>2, <2>4 DEF TypeNews, BeginSave
   <2>6. TypeSection' /\ TypeRefresh' /\ TypeDeferred'
    <3>1. CASE MustSave \/ required \/ mem'.outbox # {} \/ facts' # {}
     <4>1. TypeSection' BY <1>4, <2>1, <2>2, <3>1 DEF Evaluate, BeginSave, TypeSection, Stamps
     <4>2. TypeRefresh' /\ TypeDeferred'
       BY <1>4, <2>1, <3>1 DEF Evaluate, BeginSave, TypeRefresh, TypeDeferred
     <4>. QED BY <4>1, <4>2
    <3>2. CASE ~(MustSave \/ required \/ mem'.outbox # {} \/ facts' # {})
     <4>1. TypeSection' /\ TypeRefresh' BY <1>4, <2>1, <3>2, ReleaseType DEF Evaluate
     <4>2. TypeDeferred' BY <1>4, <2>1, <3>2 DEF Evaluate, DeferSave, TypeDeferred
     <4>. QED BY <4>1, <4>2
    <3>. QED BY <3>1, <3>2
   <2>7. TypeStatus' BY <1>4, <2>1 DEF Evaluate, EndQuiet, Schedule, TypeStatus
   <2>8. TypeWithdrawn' BY <2>1, BaseType, TakenType DEF Decides
   <2>. QED BY <1>4, <2>3, <2>5, <2>6, <2>7, <2>8, TypeFrame DEF Evaluate
  <1>5. CASE EvaluateFails
   <2>1. PICK changed \in BOOLEAN, asked \in BOOLEAN, taken \in SUBSET Base.outbox :
           /\ Decides(Base, changed, asked, taken)
           /\ saveRequired' \in {saveRequired \/ changed, TRUE}
           /\ Abandon(Noted(changed))
     BY <1>5 DEF EvaluateFails
   <2>2. /\ mem' \in Ledger /\ stamps' \in 0..MaxStamps /\ mem'.sequence <= stamps'
         /\ stamps <= stamps' /\ (changed => stamps + 1 \in Stamps)
     BY <2>1, BaseType, DecidesType DEF TypeNews
   <2>3. TypeLedgers' /\ Bounded'
     BY <1>5, <2>2 DEF EvaluateFails, TypeLedgers, Bounded, TypeNews, Ledger
   <2>4. Noted(changed) \in SUBSET Stamps BY <2>2 DEF Noted, TypeNews
   <2>5. indexed' \in BOOLEAN BY <1>5 DEF EvaluateFails, TypeStatus
   <2>6. TypeRefresh' /\ TypeSection' /\ TypeStatus' /\ TypeHistory' /\ facts' = {}
     BY <1>5, <2>1, <2>4, <2>5, AbandonType DEF EvaluateFails
   <2>7. TypeNews' BY <2>1, <2>2, <2>6 DEF TypeNews
   <2>8. TypeBudget' BY <1>5, FaultType DEF EvaluateFails
   <2>9. TypeWithdrawn' BY <2>1, BaseType, TakenType DEF Decides
   <2>. QED BY <1>5, <2>3, <2>6, <2>7, <2>8, <2>9, TypeFrame DEF EvaluateFails
  <1>. QED BY <1>1, <1>2, <1>3, <1>4, <1>5 DEF Working

(* Writing and reading back.                                               *)
LEMMA TypeSaving == TypeInv /\ Saving => TypeInv'
  <1>. SUFFICES ASSUME TypeInv, Saving PROVE TypeInv' OBVIOUS
  <1>. USE TypeFrame DEF TypeInv, TypeOK
  <1>1. CASE SkipWrite BY <1>1 DEF SkipWrite, TypeSection
  <1>2. CASE Write BY <1>2 DEF Write, TypeSection, TypeLedgers, TypeWithdrawn, Bounded, news
  <1>3. CASE WriteFails BY <1>3, FaultType DEF WriteFails, TypeSection, TypeLedgers, Bounded, news
  <1>4. CASE Verify BY <1>4 DEF Verify, TypeSection, TypeLedgers, Bounded, news
  <1>5. CASE VerifyFails BY <1>5, FaultType DEF VerifyFails, TypeSection
  <1>. QED BY <1>1, <1>2, <1>3, <1>4, <1>5 DEF Saving

(* A ledger with one field replaced is a ledger.                           *)
LEMMA LedgerUpdateType ==
  ASSUME NEW ledger \in Ledger
  PROVE  /\ [ledger EXCEPT !.outbox = {}] \in Ledger
         /\ \A out \in SUBSET Request : [ledger EXCEPT !.outbox = out] \in Ledger
         /\ \A rep \in SUBSET Stamps : [ledger EXCEPT !.reports = rep] \in Ledger
         /\ \A att \in SUBSET Pairs : [ledger EXCEPT !.attempted = att] \in Ledger
  BY DEF Ledger

(* Publishing makes sending tasks and empties the outbox.                  *)
LEMMA PublishType ==
  ASSUME TypeSection, TypeDeferred, TypeSender, flushes \in Nat,
         facts' \in SUBSET Stamps, stamps \in 0..MaxStamps, stamps' = stamps,
         NEW ledger \in Ledger, Publish(ledger), timerDue' = timerDue,
         batch' \in [requests : SUBSET Request, reports : SUBSET Stamps],
         control' \in 0..MaxStamps
  PROVE  /\ TypeSection' /\ TypeDeferred' /\ TypeSender' /\ TypeNews'
         /\ mem' \in Ledger /\ mem'.sequence = ledger.sequence
         /\ flushes' \in Nat
  <1>1. TypeSection' /\ TypeDeferred' BY DEF Publish, BeginSave, TypeSection, TypeDeferred
  <1>2. mem' \in Ledger /\ mem'.sequence = ledger.sequence /\ flushes' \in Nat
   <2>1. mem' \in Ledger BY LedgerUpdateType DEF Publish
   <2>2. mem'.sequence = ledger.sequence BY DEF Publish, Ledger
   <2>3. flushes' \in Nat BY DEF Publish
   <2>. QED BY <2>1, <2>2, <2>3
  <1>3. TypeNews' BY DEF Publish, BeginSave, TypeNews
  <1>4. TypeSender'
   <2>. DEFINE fired == {[flush |-> flushes + 1, id |-> r.id, body |-> r.body] : r \in ledger.outbox}
   <2>1. fired \in SUBSET Fired BY DEF Ledger, Request, Fired
   <2>2. (CHOOSE c \in Channels : TRUE) \in Channels BY ChannelsAssumption
   <2>3. DOMAIN sender' = DOMAIN sender \cup fired BY DEF Publish
   <2>4. \A f \in DOMAIN sender' : sender'[f] \in Sender BY <2>2 DEF Publish, Sender, TypeSender
   <2>5. sender' = [f \in DOMAIN sender' |-> sender'[f]] BY DEF Publish
   <2>. QED BY <2>1, <2>3, <2>4, <2>5 DEF TypeSender
  <1>. QED BY <1>1, <1>2, <1>3, <1>4

(* Finishing clears the error and reports the control.                     *)
LEMMA FinishType ==
  ASSUME TypeSection, TypeRefresh, TypeDeferred, Finish, control \in Stamps \cup {0},
         confirmed \in SUBSET Stamps, requested' = requested, timerDue' = timerDue
  PROVE  /\ TypeSection' /\ TypeRefresh' /\ TypeDeferred'
         /\ error' \in BOOLEAN /\ deadline' \in BOOLEAN
         /\ confirmed' \in SUBSET Stamps /\ saveRequired' = saveRequired
  <1>1. TypeSection' /\ TypeRefresh' BY ReleaseType DEF Finish
  <1>2. TypeDeferred' /\ saveRequired' = saveRequired BY DEF Finish, TypeDeferred
  <1>3. error' \in BOOLEAN /\ deadline' \in BOOLEAN BY DEF Finish
  <1>4. confirmed' \in SUBSET Stamps BY DEF Finish
  <1>. QED BY <1>1, <1>2, <1>3, <1>4

(* Publishing facts counts them.                                           *)
LEMMA ToldType ==
  ASSUME told \in [Stamps -> Nat], facts \in SUBSET Stamps,
         PublishFacts \/ UNCHANGED <<told, facts>>
  PROVE  told' \in [Stamps -> Nat] /\ facts' \in SUBSET Stamps
  BY DEF PublishFacts

(* What follows a verified save.                                           *)
LEMMA TypeSaved == TypeInv /\ Saved => TypeInv'
  <1>. SUFFICES ASSUME TypeInv, Saved PROVE TypeInv' OBVIOUS
  <1>. USE DEF TypeInv, TypeOK
  <1>1. CASE AfterComplete
   <2>1. told' \in [Stamps -> Nat] /\ facts' \in SUBSET Stamps
     BY <1>1, ToldType DEF AfterComplete, TellFacts, TypeHistory, TypeNews
   <2>2. WithReports \in Ledger /\ WithReports.sequence = mem.sequence
    <3>1. mem.reports \cup NewReports \in SUBSET Stamps
      BY DEF NewReports, TypeLedgers, Ledger, Request
    <3>. QED BY <3>1 DEF WithReports, TypeLedgers, Ledger
   <2>3. control \in Stamps \cup {0} BY BoundsAssumption DEF TypeSection, Stamps
   <2>4. CASE running /\ ~startup_quiet /\ mem.outbox # {} /\ NewReports # {}
    <3>1. batch' \in [requests : SUBSET Request, reports : SUBSET Stamps]
      BY <1>1, <2>4 DEF AfterComplete, TypeLedgers, Ledger
    <3>2. TypeLedgers' /\ Bounded' BY <1>1, <2>2, <2>4 DEF AfterComplete, TypeLedgers, Bounded
    <3>3. TypeSection' /\ TypeDeferred'
      BY <1>1, <2>4, <3>1
      DEF AfterComplete, BeginSave, TypeSection, TypeDeferred
    <3>4. TypeRefresh' /\ TypeStatus' /\ TypeSender'
      BY <1>1, <2>4, TypeFrame
      DEF AfterComplete, TypeRefresh, TypeStatus
    <3>5. TypeNews' /\ TypeHistory'
      BY <1>1, <2>1, <2>4 DEF AfterComplete, BeginSave, TypeNews, TypeHistory
    <3>. QED BY <1>1, <3>2, <3>3, <3>4, <3>5, TypeFrame DEF AfterComplete
   <2>5. CASE running /\ ~startup_quiet /\ mem.outbox # {} /\ NewReports = {}
    <3>1. /\ batch' \in [requests : SUBSET Request, reports : SUBSET Stamps]
          /\ Publish(mem) /\ control' = control
      BY <1>1, <2>5 DEF AfterComplete, TypeLedgers, Ledger
    <3>2. /\ TypeSection' /\ TypeDeferred' /\ TypeSender' /\ TypeNews'
          /\ mem' \in Ledger /\ mem'.sequence = mem.sequence /\ flushes' \in Nat
      BY <1>1, <2>1, <3>1, PublishType
      DEF AfterComplete, TypeSection, TypeHistory, TypeNews, TypeLedgers
    <3>3. TypeLedgers' /\ Bounded' BY <1>1, <3>2 DEF AfterComplete, TypeLedgers, Bounded
    <3>4. TypeRefresh' /\ TypeStatus'
      BY <1>1, <3>1 DEF AfterComplete, Publish, TypeRefresh, TypeStatus
    <3>5. TypeHistory' BY <1>1, <2>1, <3>1, <3>2 DEF AfterComplete, Publish, TypeHistory
    <3>. QED BY <1>1, <3>2, <3>3, <3>4, <3>5, TypeFrame DEF AfterComplete
   <2>6. CASE ~(running /\ ~startup_quiet /\ mem.outbox # {})
    <3>1. Finish /\ UNCHANGED <<mem, sender, flushes>> BY <1>1, <2>6 DEF AfterComplete
    <3>2. /\ TypeSection' /\ TypeRefresh' /\ TypeDeferred'
          /\ error' \in BOOLEAN /\ deadline' \in BOOLEAN
          /\ confirmed' \in SUBSET Stamps /\ saveRequired' = saveRequired
      BY <1>1, <2>3, <3>1, FinishType DEF AfterComplete, TypeHistory
    <3>3. TypeStatus' BY <1>1, <3>2 DEF AfterComplete, TypeStatus
    <3>4. TypeNews' /\ TypeHistory'
      BY <1>1, <2>1, <3>1, <3>2 DEF AfterComplete, TypeNews, TypeHistory
    <3>5. TypeLedgers' /\ Bounded' BY <1>1, <3>1 DEF AfterComplete, TypeLedgers, Bounded
    <3>. QED BY <1>1, <3>1, <3>2, <3>3, <3>4, <3>5, TypeFrame DEF AfterComplete
   <2>. QED BY <2>4, <2>5, <2>6
  <1>2. CASE AfterScopes
   <2>1. /\ TypeSection' /\ TypeDeferred' /\ TypeSender' /\ TypeNews'
         /\ mem' \in Ledger /\ mem'.sequence = mem.sequence /\ flushes' \in Nat
     BY <1>2, PublishType
     DEF AfterScopes, TypeSection, TypeHistory, TypeNews, TypeLedgers
   <2>2. TypeLedgers' /\ Bounded' BY <1>2, <2>1 DEF AfterScopes, TypeLedgers, Bounded
   <2>3. TypeRefresh' /\ TypeStatus' BY <1>2 DEF AfterScopes, Publish, TypeRefresh, TypeStatus
   <2>4. TypeHistory' BY <1>2, <2>1 DEF AfterScopes, Publish, TypeHistory
   <2>. QED BY <1>2, <2>1, <2>2, <2>3, <2>4, TypeFrame DEF AfterScopes
  <1>3. CASE AfterClear
   <2>1. control \in Stamps \cup {0} BY BoundsAssumption DEF TypeSection, Stamps
   <2>2. /\ TypeSection' /\ TypeRefresh' /\ TypeDeferred'
         /\ error' \in BOOLEAN /\ deadline' \in BOOLEAN
         /\ confirmed' \in SUBSET Stamps /\ saveRequired' = saveRequired
     BY <1>3, <2>1, FinishType DEF AfterClear, TypeHistory
   <2>3. TypeStatus' /\ TypeNews' BY <1>3, <2>2 DEF AfterClear, TypeStatus, TypeNews
   <2>4. TypeHistory' BY <1>3, <2>2 DEF AfterClear, TypeHistory
   <2>5. Bounded' BY <1>3 DEF AfterClear, Bounded, ledgers
   <2>. QED BY <1>3, <2>2, <2>3, <2>4, <2>5, TypeFrame DEF AfterClear
  <1>4. CASE AfterTimer BY <1>4, ReleaseType, TypeFrame DEF AfterTimer
  <1>5. CASE AfterAttempt
   <2>1. TypeSender' BY <1>5 DEF AfterAttempt, TypeSender, Sender
   <2>. QED BY <1>5, <2>1, ReleaseType, TypeFrame DEF AfterAttempt
  <1>6. CASE AfterFinal
   <2>1. told' \in [Stamps -> Nat] /\ facts' \in SUBSET Stamps
     BY <1>6, ToldType DEF AfterFinal, TypeHistory, TypeNews
   <2>2. TypeNews' /\ TypeHistory' BY <1>6, <2>1 DEF AfterFinal, TypeNews, TypeHistory
   <2>3. TypeStatus' /\ Bounded' BY <1>6 DEF AfterFinal, TypeStatus, Bounded, ledgers
   <2>. QED BY <1>6, <2>2, <2>3, ReleaseType, TypeFrame DEF AfterFinal
  <1>. QED BY <1>1, <1>2, <1>3, <1>4, <1>5, <1>6 DEF Saved

(* What follows a failed save.                                             *)
LEMMA TypeSaveFailed == TypeInv /\ SaveFailed => TypeInv'
  <1>. SUFFICES ASSUME TypeInv, SaveFailed PROVE TypeInv' OBVIOUS
  <1>. USE DEF TypeInv, TypeOK
  <1>1. facts \in SUBSET Stamps BY DEF TypeNews
  <1>2. CASE SectionFails
   <2>1. mem' \in Ledger /\ mem'.sequence = mem.sequence
    <3>1. CASE purpose = "complete" BY <1>2, <3>1 DEF SectionFails, TypeLedgers
    <3>2. CASE purpose = "scopes"
     <4>1. batch.reports \in SUBSET Stamps BY DEF TypeSection
     <4>. QED BY <1>2, <3>2, <4>1 DEF SectionFails, TypeLedgers, Ledger
    <3>3. CASE purpose = "clear"
     <4>1. batch.requests \cup mem.outbox \in SUBSET Request BY DEF TypeSection, TypeLedgers, Ledger
     <4>. QED BY <1>2, <3>3, <4>1 DEF SectionFails, TypeLedgers, Ledger
    <3>. QED BY <1>2, <3>1, <3>2, <3>3 DEF SectionFails
   <2>2. TypeLedgers' /\ Bounded' BY <1>2, <2>1 DEF SectionFails, TypeLedgers, Bounded
   <2>3. TypeRefresh' /\ TypeSection' /\ TypeStatus' /\ TypeHistory' /\ facts' = {}
     BY <1>1, <1>2, AbandonType DEF SectionFails, TypeStatus
   <2>4. TypeNews' BY <1>2, <2>3 DEF SectionFails, TypeNews
   <2>. QED BY <1>2, <2>2, <2>3, <2>4, TypeFrame DEF SectionFails
  <1>3. CASE TimerFails
   <2>1. TypeRefresh' /\ TypeSection' /\ TypeStatus' /\ TypeHistory' /\ facts' = {}
     BY <1>1, <1>3, AbandonType DEF TimerFails, TypeStatus
   <2>2. TypeNews' /\ Bounded' BY <1>3, <2>1 DEF TimerFails, TypeNews, Bounded, ledgers
   <2>. QED BY <1>3, <2>1, <2>2, TypeFrame DEF TimerFails
  <1>4. CASE AttemptFails
   <2>1. PICK f \in DOMAIN sender :
           /\ sender[f].at = "save"
           /\ mem' = [mem EXCEPT !.attempted = @ \ {<<f.id, sender[f].channel>>}]
           /\ sender' = [sender EXCEPT ![f].at = "done"]
     BY <1>4 DEF AttemptFails
   <2>2. mem.attempted \ {<<f.id, sender[f].channel>>} \in SUBSET Pairs BY DEF TypeLedgers, Ledger
   <2>3. mem' \in Ledger /\ mem'.sequence = mem.sequence BY <2>1, <2>2 DEF TypeLedgers, Ledger
   <2>4. TypeLedgers' /\ Bounded' BY <1>4, <2>3 DEF AttemptFails, TypeLedgers, Bounded, news
   <2>5. TypeSender' BY <2>1 DEF TypeSender, Sender
   <2>. QED BY <1>4, <2>4, <2>5, ReleaseType, TypeFrame DEF AttemptFails
  <1>5. CASE FinalFails
   <2>1. TypeRefresh' /\ TypeSection' /\ TypeStatus' /\ TypeHistory' /\ facts' = facts
     BY <1>1, <1>5, AbandonStopType DEF FinalFails
   <2>2. TypeNews' /\ Bounded' BY <1>5, <2>1 DEF FinalFails, TypeNews, Bounded, ledgers
   <2>. QED BY <1>5, <2>1, <2>2, TypeFrame DEF FinalFails
  <1>. QED BY <1>2, <1>3, <1>4, <1>5 DEF SaveFailed

(* The sending tasks.                                                      *)
LEMMA TypeSending == TypeInv /\ Sending => TypeInv'
  <1>. SUFFICES ASSUME TypeInv,
                       NEW f \in DOMAIN sender,
                       Transport(f) \/ \E c \in Channels : EnterSend(f, c) \/ SkipSend(f, c)
                PROVE  TypeInv'
    BY DEF Sending
  <1>. USE DEF TypeInv, TypeOK
  <1>1. f \in Fired /\ sender[f] \in Sender BY DEF TypeSender
  <1>2. CASE Transport(f)
   <2>1. TypeSender' BY <1>2, <1>1 DEF Transport, TypeSender, Sender
   <2>2. sent' \in [Pairs -> Nat]
    <3>1. <<f.id, sender[f].channel>> \in Pairs BY <1>1 DEF Fired, Sender, Pairs
    <3>. QED BY <1>2, <3>1 DEF Transport, TypeHistory
   <2>3. TypeHistory' BY <1>2, <2>2 DEF Transport, TypeHistory
   <2>. QED BY <1>2, <2>1, <2>3, TypeFrame DEF Transport
  <1>3. ASSUME NEW c \in Channels, EnterSend(f, c) PROVE TypeInv'
   <2>1. mem.attempted \cup {<<f.id, c>>} \in SUBSET Pairs
     BY <1>1 DEF TypeLedgers, Ledger, Fired, Pairs
   <2>2. mem' \in Ledger /\ mem'.sequence = mem.sequence
     BY <1>3, <2>1 DEF EnterSend, TypeLedgers, Ledger
   <2>3. TypeLedgers' /\ Bounded' BY <1>3, <2>2 DEF EnterSend, TypeLedgers, Bounded
   <2>4. [at |-> "save", channel |-> c, todo |-> sender[f].todo \ {c}] \in Sender BY <1>1 DEF Sender
   <2>5. sender' = [sender EXCEPT ![f] =
                      [at |-> "save", channel |-> c, todo |-> sender[f].todo \ {c}]]
     BY <1>3 DEF EnterSend
   <2>6. TypeSender' BY <2>4, <2>5 DEF TypeSender
   <2>7. TypeSection' /\ TypeDeferred' /\ TypeNews'
     BY <1>3 DEF EnterSend, BeginSave, TypeSection, TypeDeferred, TypeNews
   <2>. QED BY <1>3, <2>3, <2>6, <2>7, TypeFrame DEF EnterSend
  <1>4. ASSUME NEW c \in Channels, SkipSend(f, c) PROVE TypeInv'
   <2>1. TypeSender' BY <1>4, <1>1 DEF SkipSend, TypeSender, Sender
   <2>. QED BY <1>4, <2>1, TypeFrame DEF SkipSend
  <1>. QED BY <1>2, <1>3, <1>4

(* Every step keeps the types and the bound on delivery ids.               *)
LEMMA TypeStep == TypeInv /\ [Next]_vars => TypeInv'
  <1>. SUFFICES ASSUME TypeInv, [Next]_vars PROVE TypeInv' OBVIOUS
  <1>1. CASE EnterTimer
    BY <1>1, TypeFrame
    DEF EnterTimer, BeginSave, TypeInv, TypeOK, TypeSection, TypeDeferred, TypeNews,
        Bounded, ledgers
  <1>2. CASE EnterStop
    BY <1>2, TypeFrame
    DEF EnterStop, Take, TypeInv, TypeOK, TypeSection, TypeStatus
  <1>3. CASE Restart
   <2>. USE DEF TypeInv, TypeOK
   <2>1. TypeLedgers' /\ Bounded' BY <1>3 DEF Restart, TypeLedgers, Bounded
   <2>2. TypeArrivals' BY <1>3 DEF Restart, TypeArrivals
   <2>3. TypeRefresh' /\ TypeDeferred' /\ TypeStatus'
     BY <1>3 DEF Restart, TypeRefresh, TypeDeferred, TypeStatus
   <2>4. TypeSection' BY <1>3, BoundsAssumption DEF Restart, TypeSection, NoBatch
   <2>5. TypeNews' BY <1>3 DEF Restart, TypeNews
   <2>6. TypeSender' BY <1>3 DEF Restart, TypeSender, Sender
   <2>7. TypeHistory' BY <1>3 DEF Restart, TypeHistory, TypeNews
   <2>8. TypeBudget' BY <1>3, BoundsAssumption DEF Restart, TypeBudget
   <2>9. TypeWithdrawn' BY <1>3 DEF Restart, TypeWithdrawn
   <2>. QED BY <2>1, <2>2, <2>3, <2>4, <2>5, <2>6, <2>7, <2>8, <2>9
  <1>4. CASE UNCHANGED vars BY <1>4, TypeFrame DEF vars, TypeInv, TypeOK
  <1>. QED
    BY <1>1, <1>2, <1>3, <1>4, TypeCallbacks, TypeRefreshing, TypeWorking,
       TypeSaving, TypeSaved, TypeSaveFailed, TypeSending
    DEF Next

(* Every reachable state of the runtime has its types (TypeOK), for every  *)
(* value of the constants.                                                 *)
THEOREM TypeCorrect == Spec => []TypeOK
  <1>1. Spec => []TypeInv BY TypeInit, TypeStep, PTL DEF Spec
  <1>2. TypeInv => TypeOK BY DEF TypeInv
  <1>. QED BY <1>1, <1>2, PTL

----------------------------------------------------------------------------
(* The parts of the invariant.                                             *)

(* What an evaluation or a drained observation does to the ledger, field   *)
(* by field.                                                               *)
Decided(changed, asked, taken) ==
  /\ mem'.changes = Base.changes \cup IF changed THEN {stamps + 1} ELSE {}
  /\ mem'.sequence = IF asked THEN mem.sequence + 1 ELSE mem.sequence
  /\ mem'.outbox = (mem.outbox \ taken) \cup
       IF asked THEN {[id |-> mem.sequence + 1, body |-> stamps + 1]} ELSE {}
  /\ mem'.reports = mem.reports /\ mem'.attempted = mem.attempted
  /\ stamps' = IF changed \/ asked THEN stamps + 1 ELSE stamps
  /\ changed \/ asked => stamps + 1 \in Stamps
  /\ withdrawn' = withdrawn \cup taken
  /\ UNCHANGED <<disk, verified, sender, told, confirmed, sent>>

Deciding == DrainOne \/ DrainFails \/ Evaluate \/ EvaluateFails

(* AllSent speaks about the sending tasks only.                            *)
LEMMA SentFrame ==
  AllSent /\ sender' = sender => AllSent'
  BY DEF AllSent

(* Every step keeps the discipline of _lock: which holder may be at which  *)
(* point, and what is over once the runtime is stopped or not yet started. *)
LEMMA LockStep ==
  ASSUME TypeInv, LockInv, [Next]_vars PROVE LockInv'
  <1>. USE SentFrame DEF TypeInv, TypeOK, LockInv, Saves
  <1>1. ASSUME Callbacks PROVE LockInv'
   <2>1. CASE Capture BY <2>1 DEF Capture, RequestRefresh, section, status, news, running
   <2>2. CASE Sweep BY <2>2 DEF Sweep, RequestRefresh, section, status, news, arrivals, running
   <2>3. CASE HoldOver
     BY <2>3 DEF HoldOver, RequestRefresh, section, news, arrivals, running, refresh
   <2>4. CASE TimerFires BY <2>4 DEF TimerFires, section, status, news, arrivals, refresh
   <2>5. CASE Stop BY <2>5 DEF Stop, section, news, arrivals, refresh, running
   <2>. QED BY <1>1, <2>1, <2>2, <2>3, <2>4, <2>5 DEF Callbacks
  <1>2. ASSUME Refreshing PROVE LockInv'
   <2>1. CASE Start BY <2>1 DEF Start, Take, arrivals, refresh
   <2>2. CASE RefreshLoop BY <2>2 DEF RefreshLoop, section, status, news, arrivals
   <2>3. CASE EnterRefresh BY <2>3 DEF EnterRefresh, Take, status, news, arrivals, running
   <2>4. CASE EnterControl
     BY <2>4 DEF EnterControl, Take, status, news, arrivals, refresh, available, running
   <2>. QED BY <1>2, <2>1, <2>2, <2>3, <2>4 DEF Refreshing
  <1>3. ASSUME Working PROVE LockInv'
   <2>1. CASE DrainOne BY <2>1 DEF DrainOne, section, status, refresh
   <2>2. CASE DrainFails BY <2>2 DEF DrainFails, Abandon, AbandonStop, Release, NoBatch
   <2>3. CASE DrainDone BY <2>3 DEF DrainDone, BeginSave, status, refresh, arrivals
   <2>4. CASE Evaluate
     BY <2>4 DEF Evaluate, Drained, BeginSave, DeferSave, Schedule, Release, NoBatch, arrivals
   <2>5. CASE EvaluateFails BY <2>5 DEF EvaluateFails, Drained, Abandon, Release, NoBatch, arrivals
   <2>. QED BY <1>3, <2>1, <2>2, <2>3, <2>4, <2>5 DEF Working
  <1>4. ASSUME Saving PROVE LockInv'
    BY <1>4 DEF Saving, SkipWrite, Write, WriteFails, Verify, VerifyFails, status, arrivals,
                refresh, news
  <1>5. ASSUME Saved PROVE LockInv'
   <2>1. CASE AfterComplete
     BY <2>1 DEF AfterComplete, TellFacts, PublishFacts, BeginSave, Publish, Finish, Release,
                 NoBatch, arrivals, running
   <2>2. CASE AfterScopes BY <2>2 DEF AfterScopes, Publish, BeginSave, arrivals
   <2>3. CASE AfterClear BY <2>3 DEF AfterClear, Finish, Release, NoBatch, arrivals
   <2>4. CASE AfterTimer BY <2>4 DEF AfterTimer, Release, NoBatch, arrivals, status, news
   <2>5. CASE AfterAttempt BY <2>5 DEF AfterAttempt, Release, NoBatch, arrivals, status, news
   <2>6. CASE AfterFinal BY <2>6 DEF AfterFinal, PublishFacts, Release, NoBatch, arrivals
   <2>. QED BY <1>5, <2>1, <2>2, <2>3, <2>4, <2>5, <2>6 DEF Saved
  <1>6. ASSUME SaveFailed PROVE LockInv'
    BY <1>6 DEF SaveFailed, SectionFails, TimerFails, AttemptFails, FinalFails, Abandon,
                AbandonStop, Release, NoBatch, arrivals, status, news
  <1>7. ASSUME Sending PROVE LockInv'
   <2>1. PICK f \in DOMAIN sender :
           Transport(f) \/ \E c \in Channels : EnterSend(f, c) \/ SkipSend(f, c)
     BY <1>7 DEF Sending
   <2>2. life' = life /\ life # "loaded" BY <2>1 DEF AllSent, Transport, EnterSend, SkipSend, status
   <2>3. CASE Transport(f) BY <2>2, <2>3 DEF Transport, arrivals, status, news, refresh, section
   <2>4. ASSUME NEW c \in Channels, EnterSend(f, c) PROVE LockInv'
     BY <2>2, <2>4 DEF EnterSend, BeginSave, arrivals, status, refresh
   <2>5. ASSUME NEW c \in Channels, SkipSend(f, c) PROVE LockInv'
     BY <2>2, <2>5 DEF SkipSend, arrivals, status, news, refresh, section
   <2>. QED BY <2>1, <2>3, <2>4, <2>5
  <1>8. ASSUME EnterTimer PROVE LockInv'
    BY <1>8 DEF EnterTimer, BeginSave, arrivals, status, refresh, running
  <1>9. ASSUME EnterStop PROVE LockInv' BY <1>9 DEF EnterStop, Take, arrivals, refresh, news
  <1>10. ASSUME Restart PROVE LockInv'
   <2>1. AllSent' BY <1>10 DEF Restart, AllSent, TypeSender, Sender
   <2>. QED BY <1>10, <2>1 DEF Restart
  <1>11. ASSUME UNCHANGED vars PROVE LockInv'
   <2>1. AllSent => AllSent' BY <1>11 DEF vars
   <2>. QED BY <1>11, <2>1 DEF vars, arrivals, refresh, section, status, news
  <1>. QED BY <1>1, <1>2, <1>3, <1>4, <1>5, <1>6, <1>7, <1>8, <1>9, <1>10, <1>11 DEF Next

(* What Decides does to each field of the ledger.                          *)
LEMMA DecidesFields ==
  ASSUME NEW base \in Ledger, stamps \in 0..MaxStamps,
         NEW changed \in BOOLEAN, NEW asked \in BOOLEAN, NEW taken,
         Decides(base, changed, asked, taken)
  PROVE  /\ mem'.changes = base.changes \cup IF changed THEN {stamps + 1} ELSE {}
         /\ mem'.sequence = IF asked THEN base.sequence + 1 ELSE base.sequence
         /\ mem'.outbox = (base.outbox \ taken) \cup
              IF asked THEN {[id |-> base.sequence + 1, body |-> stamps + 1]} ELSE {}
         /\ mem'.reports = base.reports /\ mem'.attempted = base.attempted
         /\ stamps' = IF changed \/ asked THEN stamps + 1 ELSE stamps
         /\ changed \/ asked => stamps + 1 \in Stamps
         /\ withdrawn' = withdrawn \cup taken
  <1>1. mem'.changes = base.changes \cup IF changed THEN {stamps + 1} ELSE {} BY DEF Decides, Ledger
  <1>2. mem'.sequence = IF asked THEN base.sequence + 1 ELSE base.sequence BY DEF Decides, Ledger
  <1>3. mem'.outbox = (base.outbox \ taken) \cup
          IF asked THEN {[id |-> base.sequence + 1, body |-> stamps + 1]} ELSE {}
    BY DEF Decides, Ledger
  <1>4. mem'.reports = base.reports /\ mem'.attempted = base.attempted BY DEF Decides, Ledger
  <1>5. /\ stamps' = IF changed \/ asked THEN stamps + 1 ELSE stamps
        /\ changed \/ asked => stamps + 1 \in Stamps
        /\ withdrawn' = withdrawn \cup taken
    BY BoundsAssumption DEF Decides, Stamps
  <1>. QED BY <1>1, <1>2, <1>3, <1>4, <1>5

(* Draining and evaluating decide something and touch neither the disk nor *)
(* the sending tasks; a failure drops the new fact with the others.        *)
LEMMA DecidedEffect ==
  ASSUME TypeInv, LockInv, Deciding
  PROVE  \E changed, asked \in BOOLEAN : \E taken :
           /\ Decided(changed, asked, taken)
           /\ \/ facts' = Noted(changed) /\ dropped' = dropped
              \/ facts' = {} /\ dropped' = dropped \cup Noted(changed)
           /\ engine' \/ (~engine /\ facts' = {})
           /\ control' = 0 \/ (changed /\ control' = stamps + 1)
           /\ pc' # "saved"
  <1>. USE DEF TypeInv, TypeOK
  <1>1. CASE DrainOne
   <2>1. PICK changed \in BOOLEAN, asked \in BOOLEAN, taken \in SUBSET mem.outbox :
           /\ Decides([mem EXCEPT !.evidence = Head(pending)], changed, asked, taken)
           /\ facts' = Noted(changed)
     BY <1>1 DEF DrainOne
   <2>2. Head(pending) \in 0..MaxObs BY <1>1, BoundsAssumption DEF DrainOne, TypeArrivals
   <2>3. [mem EXCEPT !.evidence = Head(pending)] \in Ledger BY <2>2, EvidenceType
   <2>4. engine /\ Base = mem BY <1>1 DEF DrainOne, LockInv, Base
   <2>5. Decided(changed, asked, taken)
    <3>. DEFINE base == [mem EXCEPT !.evidence = Head(pending)]
    <3>1. /\ base.changes = mem.changes /\ base.sequence = mem.sequence
          /\ base.outbox = mem.outbox /\ base.reports = mem.reports
          /\ base.attempted = mem.attempted
      BY DEF TypeLedgers, Ledger
    <3>2. UNCHANGED <<disk, verified, sender, told, confirmed, sent>> BY <1>1 DEF DrainOne, history
    <3>3. base \in Ledger /\ Decides(base, changed, asked, taken) BY <2>1, <2>3
    <3>. HIDE DEF base
    <3>. QED BY <2>4, <3>1, <3>2, <3>3, DecidesFields DEF Decided, TypeNews
   <2>6. dropped' = dropped /\ pc' # "saved" /\ control' = 0 /\ engine' = engine
     BY <1>1 DEF DrainOne, LockInv, Saves, history, section, status
   <2>. QED BY <2>1, <2>4, <2>5, <2>6
  <1>2. CASE DrainFails
   <2>1. PICK changed \in BOOLEAN, asked \in BOOLEAN, taken \in SUBSET mem.outbox :
           /\ Decides(mem, changed, asked, taken)
           /\ IF lock = "stop" THEN AbandonStop(Noted(changed))
              ELSE Abandon(Noted(changed)) /\ UNCHANGED indexed
     BY <1>2 DEF DrainFails
   <2>2. engine /\ Base = mem BY <1>2 DEF DrainFails, LockInv, Base
   <2>3. UNCHANGED <<disk, verified, sender, told, confirmed, sent>>
     BY <1>2, <2>1 DEF DrainFails, Abandon, AbandonStop, history
   <2>4. Decided(changed, asked, taken)
     BY <2>1, <2>2, <2>3, DecidesFields DEF Decided, TypeNews, TypeLedgers
   <2>5. \/ facts' = Noted(changed) /\ dropped' = dropped
         \/ facts' = {} /\ dropped' = dropped \cup Noted(changed)
     BY <2>1 DEF Abandon, AbandonStop, history
   <2>6. control' = 0 /\ pc' # "saved" /\ engine' = engine BY <2>1 DEF Abandon, AbandonStop, Release
   <2>. QED BY <2>2, <2>4, <2>5, <2>6
  <1>3. CASE Evaluate
   <2>1. PICK changed \in BOOLEAN, asked \in BOOLEAN, required \in BOOLEAN,
              taken \in SUBSET Base.outbox :
           /\ Decides(Base, changed, asked, taken)
           /\ facts' = Noted(changed)
           /\ IF MustSave \/ required \/ mem'.outbox # {} \/ facts' # {}
                THEN /\ BeginSave("complete")
                     /\ control' = IF lock = "control" /\ changed
                                     THEN stamps + 1 ELSE 0
                     /\ UNCHANGED <<lock, batch, task, error, deadline>>
                ELSE /\ DeferSave /\ saveRequired' = FALSE
                     /\ error' = FALSE
                     /\ Schedule
                     /\ Release
     BY <1>3 DEF Evaluate
   <2>2. UNCHANGED <<disk, verified, sender, told, confirmed, sent>> /\ dropped' = dropped
     BY <1>3 DEF Evaluate, history
   <2>3. /\ Base \in Ledger /\ Base.sequence = mem.sequence /\ Base.outbox = mem.outbox
         /\ Base.reports = mem.reports /\ Base.attempted = mem.attempted
     BY DEF Base, TypeLedgers, Ledger
   <2>4. Decided(changed, asked, taken) BY <2>1, <2>2, <2>3, DecidesFields DEF Decided, TypeNews
   <2>5. engine' = TRUE BY <1>3 DEF Evaluate
   <2>6. (control' = 0 \/ (changed /\ control' = stamps + 1)) /\ pc' # "saved"
     BY <2>1 DEF BeginSave, Release
   <2>. QED BY <1>3, <2>1, <2>2, <2>4, <2>5, <2>6
  <1>4. CASE EvaluateFails
   <2>1. PICK changed \in BOOLEAN, asked \in BOOLEAN, taken \in SUBSET Base.outbox :
           /\ Decides(Base, changed, asked, taken)
           /\ Abandon(Noted(changed))
     BY <1>4 DEF EvaluateFails
   <2>2. UNCHANGED <<disk, verified, sender, told, confirmed, sent>>
     BY <1>4, <2>1 DEF EvaluateFails, Abandon
   <2>3. /\ Base \in Ledger /\ Base.sequence = mem.sequence /\ Base.outbox = mem.outbox
         /\ Base.reports = mem.reports /\ Base.attempted = mem.attempted
     BY DEF Base, TypeLedgers, Ledger
   <2>4. Decided(changed, asked, taken) BY <2>1, <2>2, <2>3, DecidesFields DEF Decided, TypeNews
   <2>5. /\ facts' = {} /\ dropped' = dropped \cup Noted(changed) /\ engine' = engine
         /\ control' = 0 /\ pc' # "saved"
     BY <2>1 DEF Abandon, Release
   <2>. QED BY <2>4, <2>5
  <1>. QED BY <1>1, <1>2, <1>3, <1>4 DEF Deciding

(* The part of the state DurableInv speaks about.                          *)
LedgerSame ==
  /\ mem'.changes = mem.changes /\ UNCHANGED <<disk, verified, facts, told, stamps>>
  /\ UNCHANGED confirmed
  /\ pc' = "saved" => disk' = mem'
  /\ control' \in {0, control}
  /\ engine' = engine

(* A step that leaves that part alone keeps DurableInv.                    *)
LEMMA DurableFrame ==
  ASSUME DurableInv, LedgerSame PROVE DurableInv'
  BY DEF DurableInv, LedgerSame

(* Every step keeps memory ahead of the disk and the disk ahead of what    *)
(* was told: facts wait in `facts` until pc = "saved", when disk and       *)
(* memory agree.                                                           *)
LEMMA DurableStep ==
  ASSUME TypeInv, LockInv, DurableInv, [Next]_vars PROVE DurableInv'
  <1>. USE DEF TypeInv, TypeOK
  <1>1. ASSUME Callbacks PROVE DurableInv'
   <2>1. LedgerSame
     BY <1>1 DEF Callbacks, Capture, Sweep, HoldOver, TimerFires, Stop, LedgerSame,
                 DurableInv, ledgers, section, status, news, history
   <2>. QED BY <2>1, DurableFrame
  <1>2. ASSUME Refreshing PROVE DurableInv'
   <2>1. LedgerSame
     BY <1>2 DEF Refreshing, Start, RefreshLoop, EnterRefresh, EnterControl, Take,
                 LedgerSame, DurableInv, ledgers, section, status, news, history
   <2>. QED BY <2>1, DurableFrame
  <1>3. ASSUME Deciding PROVE DurableInv'
   <2>1. PICK changed \in BOOLEAN, asked \in BOOLEAN :
           \E taken :
             /\ Decided(changed, asked, taken)
             /\ \/ facts' = Noted(changed) /\ dropped' = dropped
                \/ facts' = {} /\ dropped' = dropped \cup Noted(changed)
             /\ engine' \/ (~engine /\ facts' = {})
             /\ control' = 0 \/ (changed /\ control' = stamps + 1)
             /\ pc' # "saved"
     BY <1>3, DecidedEffect
   <2>2. /\ mem'.changes = Base.changes \cup IF changed THEN {stamps + 1} ELSE {}
         /\ stamps' = IF changed \/ asked THEN stamps + 1 ELSE stamps
         /\ changed => stamps + 1 \in Stamps
         /\ UNCHANGED <<disk, verified, told, confirmed>>
     BY <2>1 DEF Decided
   <2>3. /\ disk.changes \subseteq Base.changes /\ facts \subseteq Base.changes
         /\ \A s \in Base.changes : s <= stamps
         /\ Base.changes \subseteq Stamps
     BY DEF DurableInv, Base, TypeLedgers, Ledger
   <2>4. facts' \subseteq facts \cup IF changed THEN {stamps + 1} ELSE {} BY <2>1 DEF Noted
   <2>5. stamps \in Nat BY BoundsAssumption DEF TypeNews
   <2>6. \A s \in mem'.changes : s <= stamps' BY <2>2, <2>3, <2>5 DEF Stamps
   <2>7. \A s \in Stamps : told'[s] > 0 => s \in disk'.changes /\ s \notin facts'
    <3>1. \A s \in disk.changes : s # stamps + 1 BY <2>3, <2>5 DEF Stamps
    <3>. QED BY <2>2, <2>4, <3>1 DEF DurableInv
   <2>8. ~engine' => facts' = {} BY <1>3, <2>1, DecidedEffect DEF DurableInv, Noted
   <2>. QED BY <2>1, <2>2, <2>3, <2>4, <2>6, <2>7, <2>8 DEF DurableInv
  <1>4. CASE DrainDone
   <2>1. LedgerSame
     BY <1>4 DEF DrainDone, BeginSave, LedgerSame, DurableInv, ledgers, status, history
   <2>. QED BY <2>1, DurableFrame
  <1>5. ASSUME Saving PROVE DurableInv'
   <2>1. CASE SkipWrite BY <2>1 DEF SkipWrite, DurableInv, ledgers, status, news, history
   <2>2. CASE Write BY <2>2 DEF Write, DurableInv, status, news, history
   <2>3. CASE WriteFails BY <2>3 DEF WriteFails, DurableInv, status, news, history
   <2>4. CASE Verify BY <2>4 DEF Verify, DurableInv, status, news, history
   <2>5. CASE VerifyFails BY <2>5 DEF VerifyFails, DurableInv, ledgers, status, news, history
   <2>. QED BY <1>5, <2>1, <2>2, <2>3, <2>4, <2>5 DEF Saving
  <1>6. ASSUME Saved PROVE DurableInv'
   <2>1. pc = "saved"
     BY <1>6 DEF Saved, AfterComplete, AfterScopes, AfterClear, AfterTimer,
                 AfterAttempt, AfterFinal
   <2>2. disk = mem BY <2>1 DEF DurableInv
   <2>3. disk' = disk /\ mem'.changes = mem.changes /\ verified' = verified /\ stamps' = stamps
         /\ engine' = engine /\ pc' # "saved"
     BY <1>6 DEF Saved, AfterComplete, AfterScopes, AfterClear, AfterTimer,
                 AfterAttempt, AfterFinal, WithReports, Publish, Finish, Release, BeginSave,
                 ledgers, news, status, TypeLedgers, Ledger
   <2>4. control' \in {0, control} /\ confirmed' \in {confirmed, confirmed \cup ({control} \ {0})}
     BY <1>6 DEF Saved, AfterComplete, AfterScopes, AfterClear, AfterTimer,
                 AfterAttempt, AfterFinal, Publish, Finish, Release, history
   <2>5. UNCHANGED <<told, facts>> \/ PublishFacts
     BY <1>6 DEF Saved, AfterComplete, AfterScopes, AfterClear, AfterTimer,
                 AfterAttempt, AfterFinal, TellFacts, Publish, Finish, history, news
   <2>6. /\ facts' \subseteq mem'.changes /\ (~engine' => facts' = {})
         /\ \A s \in Stamps : told'[s] > 0 => s \in disk'.changes /\ s \notin facts'
         /\ \A s \in Stamps : told'[s] <= 1
     BY <2>2, <2>3, <2>5 DEF PublishFacts, DurableInv, TypeHistory
   <2>. QED BY <2>2, <2>3, <2>4, <2>6 DEF DurableInv
  <1>7. ASSUME SaveFailed PROVE DurableInv'
   <2>1. /\ mem'.changes = mem.changes /\ facts' \subseteq facts
         /\ UNCHANGED <<disk, verified, told, stamps, confirmed, engine>>
         /\ pc' = "idle" /\ control' = 0
     BY <1>7 DEF SaveFailed, SectionFails, TimerFails, AttemptFails, FinalFails, Abandon,
                 AbandonStop, Release, ledgers, news, status, history, TypeLedgers, Ledger
   <2>. QED BY <2>1 DEF DurableInv
  <1>8. ASSUME Sending PROVE DurableInv'
   <2>1. PICK f \in DOMAIN sender :
           Transport(f) \/ \E c \in Channels : EnterSend(f, c) \/ SkipSend(f, c)
     BY <1>8 DEF Sending
   <2>2. LedgerSame
     BY <2>1 DEF Transport, EnterSend, SkipSend, BeginSave, LedgerSame, DurableInv,
                 ledgers, section, status, news, history, TypeLedgers, Ledger
   <2>. QED BY <2>2, DurableFrame
  <1>9. CASE EnterTimer \/ EnterStop \/ UNCHANGED vars
   <2>1. LedgerSame
     BY <1>9 DEF EnterTimer, EnterStop, BeginSave, Take, LedgerSame, DurableInv, vars,
                 ledgers, section, status, news, history
   <2>. QED BY <2>1, DurableFrame
  <1>10. CASE Restart BY <1>10 DEF Restart, DurableInv, TypeLedgers, Ledger
  <1>. QED
    BY <1>1, <1>2, <1>3, <1>4, <1>5, <1>6, <1>7, <1>8, <1>9, <1>10
    DEF Next, Working, Deciding

-----------------------------------------------------------------------------
(* The part of the state SendInv speaks about.                             *)
SendingSame ==
  /\ sender' = sender /\ sent' = sent
  /\ mem'.attempted = mem.attempted
  /\ disk'.attempted \in {disk.attempted, mem.attempted}
  /\ purpose = "attempt" => purpose' = "attempt"

(* A step that leaves that part alone keeps SendInv.                       *)
LEMMA SendFrame ==
  ASSUME SendInv, SendingSame PROVE SendInv'
  BY DEF SendInv, SendingSame, Attempting, Attempt

(* Tasks that wait or are done hold no attempt: new tasks are harmless.    *)
LEMMA SendFewer ==
  ASSUME SendInv,
         \A f \in DOMAIN sender : f \in DOMAIN sender' /\ sender'[f] = sender[f],
         \A f \in DOMAIN sender' \ DOMAIN sender : sender'[f].at = "lock",
         sent' = sent,
         mem'.attempted = mem.attempted, disk'.attempted = disk.attempted,
         \A f \in DOMAIN sender : sender[f].at # "save"
  PROVE  SendInv'
  BY DEF SendInv, Attempting, Attempt

(* Every step keeps the order attempt in memory, attempt on disk,          *)
(* transport call, and leaves an attempt to one task at a time.            *)
LEMMA SendStep ==
  ASSUME TypeInv, LockInv, DurableInv, SendInv, [Next]_vars PROVE SendInv'
  <1>. USE DEF TypeInv, TypeOK
  <1>1. ASSUME Callbacks \/ Refreshing \/ EnterTimer \/ EnterStop \/ UNCHANGED vars
        PROVE  SendInv'
   <2>1. SendingSame
     BY <1>1
     DEF Callbacks, Capture, Sweep, HoldOver, TimerFires, Stop, Refreshing, Start,
         RefreshLoop, EnterRefresh, EnterControl, EnterTimer, EnterStop, Take, BeginSave,
         LockInv, SendingSame, vars, ledgers, section, history
   <2>. QED BY <2>1, SendFrame
  <1>2. ASSUME Working PROVE SendInv'
   <2>1. purpose = "none"
     BY <1>2 DEF Working, DrainOne, DrainFails, DrainDone, Evaluate, EvaluateFails,
                 Drained, LockInv
   <2>2. CASE Deciding
    <3>1. mem'.attempted = mem.attempted /\ UNCHANGED <<disk, sender, sent>>
      BY <2>2, DecidedEffect DEF Decided
    <3>. QED BY <2>1, <3>1, SendFrame DEF SendingSame
   <2>3. CASE DrainDone BY <2>1, <2>3, SendFrame DEF DrainDone, SendingSame, ledgers, history
   <2>. QED BY <1>2, <2>2, <2>3 DEF Working, Deciding
  <1>3. ASSUME Saving PROVE SendInv'
   <2>1. SendingSame
     BY <1>3 DEF Saving, SkipWrite, Write, WriteFails, Verify, VerifyFails, SendingSame,
                 ledgers, history
   <2>. QED BY <2>1, SendFrame
  <1>4. ASSUME AfterComplete \/ AfterScopes PROVE SendInv'
   <2>1. /\ UNCHANGED <<sent, disk>> /\ mem'.attempted = mem.attempted
         /\ purpose # "attempt"
     BY <1>4 DEF AfterComplete, AfterScopes, WithReports, Publish, TypeLedgers, Ledger
   <2>2. sender' = sender \/ Publish(mem) BY <1>4 DEF AfterComplete, AfterScopes
   <2>3. CASE sender' = sender BY <2>1, <2>3, SendFrame DEF SendingSame
   <2>4. CASE Publish(mem)
    <3>1. /\ \A f \in DOMAIN sender : f \in DOMAIN sender' /\ sender'[f] = sender[f]
          /\ \A f \in DOMAIN sender' \ DOMAIN sender : sender'[f].at = "lock"
      BY <2>4 DEF Publish
    <3>. QED BY <2>1, <3>1, SendFewer DEF SendInv
   <2>. QED BY <2>2, <2>3, <2>4
  <1>5. ASSUME AfterClear \/ AfterTimer \/ AfterFinal PROVE SendInv'
    BY <1>5, SendFrame DEF AfterClear, AfterTimer, AfterFinal, SendingSame, ledgers, history
  <1>6. CASE AfterAttempt
   <2>1. disk = mem BY <1>6 DEF AfterAttempt, DurableInv
   <2>2. /\ DOMAIN sender' = DOMAIN sender
         /\ UNCHANGED <<mem, disk, sent>>
     BY <1>6 DEF AfterAttempt, ledgers, history
   <2>3. \A f \in DOMAIN sender :
           /\ sender'[f].channel = sender[f].channel
           /\ sender'[f].at = IF sender[f].at = "save" THEN "transport" ELSE sender[f].at
     BY <1>6 DEF AfterAttempt, TypeSender, Sender
   <2>. QED BY <2>1, <2>2, <2>3 DEF SendInv, Attempting, Attempt
  <1>7. ASSUME SectionFails \/ TimerFails \/ FinalFails PROVE SendInv'
   <2>1. UNCHANGED <<sender, sent, disk>> /\ mem'.attempted = mem.attempted /\ purpose # "attempt"
     BY <1>7 DEF SectionFails, TimerFails, FinalFails, Abandon, AbandonStop, ledgers, history,
                 TypeLedgers, Ledger
   <2>. QED BY <2>1, SendFrame DEF SendingSame
  <1>8. CASE AttemptFails
   <2>1. PICK f \in DOMAIN sender :
           /\ sender[f].at = "save"
           /\ mem' = [mem EXCEPT !.attempted = @ \ {<<f.id, sender[f].channel>>}]
           /\ sender' = [sender EXCEPT ![f].at = "done"]
     BY <1>8 DEF AttemptFails
   <2>2. /\ DOMAIN sender' = DOMAIN sender /\ UNCHANGED <<disk, sent>>
         /\ mem'.attempted = mem.attempted \ {Attempt(f)}
     BY <1>8, <2>1 DEF AttemptFails, history, Attempt, TypeLedgers, Ledger
   <2>3. /\ sender'[f].at = "done"
         /\ \A g \in DOMAIN sender \ {f} : sender'[g] = sender[g]
     BY <2>1 DEF TypeSender, Sender
   <2>. QED BY <2>1, <2>2, <2>3 DEF SendInv, Attempting, Attempt
  <1>9. ASSUME Sending PROVE SendInv'
   <2>1. PICK f \in DOMAIN sender :
           Transport(f) \/ \E c \in Channels : EnterSend(f, c) \/ SkipSend(f, c)
     BY <1>9 DEF Sending
   <2>2. f \in Fired /\ sender[f] \in Sender BY DEF TypeSender
   <2>3. CASE Transport(f)
    <3>1. /\ DOMAIN sender' = DOMAIN sender /\ UNCHANGED <<mem, disk, purpose>>
          /\ sender[f].at = "transport" /\ sender'[f].at = "lock"
          /\ \A g \in DOMAIN sender \ {f} : sender'[g] = sender[g]
      BY <2>2, <2>3 DEF Transport, ledgers, section, Sender
    <3>2. Attempt(f) \in Pairs BY <2>2 DEF Attempt, Fired, Sender, Pairs
    <3>3. /\ sent'[Attempt(f)] = sent[Attempt(f)] + 1
          /\ \A p \in Pairs \ {Attempt(f)} : sent'[p] = sent[p]
      BY <2>3, <3>2 DEF Transport, Attempt, TypeHistory
    <3>4. Attempting(f) /\ sent[Attempt(f)] = 0 /\ Attempt(f) \in mem.attempted
          /\ Attempt(f) \in disk.attempted
      BY <3>1 DEF SendInv, Attempting
    <3>5. ~Attempting(f)' /\ \A g \in DOMAIN sender \ {f} :
            /\ Attempt(g)' = Attempt(g)
            /\ Attempting(g)' <=> Attempting(g)
            /\ Attempting(g) => Attempt(g) # Attempt(f) /\ Attempt(g) \in Pairs
      BY <3>1, <3>4 DEF SendInv, Attempting, Attempt, TypeSender, Fired, Sender, Pairs
    <3>6. /\ \A p \in Pairs :
               sent'[p] > 0 => p \in mem'.attempted /\ p \in disk'.attempted
          /\ \A p \in Pairs : sent'[p] <= 1
      BY <3>1, <3>3, <3>4 DEF SendInv
    <3>7. \A g \in DOMAIN sender' :
            Attempting(g)' => Attempt(g)' \in mem'.attempted /\ sent'[Attempt(g)'] = 0
     <4>. SUFFICES ASSUME NEW g \in DOMAIN sender, Attempting(g)'
                   PROVE  Attempt(g)' \in mem'.attempted /\ sent'[Attempt(g)'] = 0
       BY <3>1
     <4>1. g # f /\ Attempting(g) /\ Attempt(g)' = Attempt(g) BY <3>5
     <4>2. Attempt(g) \in mem.attempted /\ sent[Attempt(g)] = 0 BY <4>1 DEF SendInv
     <4>3. sent'[Attempt(g)] = sent[Attempt(g)] BY <3>3, <3>5, <4>1
     <4>. QED BY <3>1, <4>1, <4>2, <4>3
    <3>8. /\ \A g, h \in DOMAIN sender' :
               Attempting(g)' /\ Attempting(h)' /\ Attempt(g)' = Attempt(h)' => g = h
          /\ \A g \in DOMAIN sender' :
               sender'[g].at = "transport" => Attempt(g)' \in disk'.attempted
      BY <3>1, <3>5 DEF SendInv, Attempting
    <3>. QED BY <3>1, <3>6, <3>7, <3>8 DEF SendInv
   <2>4. ASSUME NEW c \in Channels, EnterSend(f, c) PROVE SendInv'
    <3>1. /\ DOMAIN sender' = DOMAIN sender /\ UNCHANGED <<disk, sent>>
          /\ sender'[f].at = "save" /\ sender'[f].channel = c /\ purpose' = "attempt"
          /\ \A g \in DOMAIN sender \ {f} : sender'[g] = sender[g]
      BY <2>4 DEF EnterSend, BeginSave, history
    <3>2. <<f.id, c>> \notin mem.attempted /\ mem'.attempted = mem.attempted \cup {<<f.id, c>>}
      BY <2>4 DEF EnterSend, TypeLedgers, Ledger
    <3>3. \A g \in DOMAIN sender : sender[g].at # "save" BY <2>4 DEF EnterSend, LockInv, SendInv
    <3>4. <<f.id, c>> \in Pairs BY <2>2 DEF Pairs, Fired
    <3>5. sent \in [Pairs -> Nat] BY DEF TypeHistory
    <3>6. ~Attempting(f) /\ sent[<<f.id, c>>] = 0
     <4>1. \A p \in Pairs : p \notin mem.attempted => sent[p] = 0 BY <3>5 DEF SendInv
     <4>. QED BY <2>4, <3>2, <3>4, <4>1 DEF EnterSend, Attempting
    <3>7. Attempt(f)' = <<f.id, c>> /\ \A g \in DOMAIN sender \ {f} : Attempt(g)' = Attempt(g)
      BY <3>1 DEF Attempt
    <3>8. \A g \in DOMAIN sender \ {f} : Attempting(g) => Attempt(g) # <<f.id, c>>
      BY <3>2 DEF SendInv
    <3>9. \A g \in DOMAIN sender \ {f} : Attempting(g)' <=> Attempting(g) BY <3>1 DEF Attempting
    <3>10. \A g, h \in DOMAIN sender' :
             Attempting(g)' /\ Attempting(h)' /\ Attempt(g)' = Attempt(h)' => g = h
      BY <3>1, <3>7, <3>8, <3>9 DEF SendInv
    <3>11. \A g \in DOMAIN sender' :
             Attempting(g)' => Attempt(g)' \in mem'.attempted /\ sent'[Attempt(g)'] = 0
      BY <3>1, <3>2, <3>6, <3>7, <3>9 DEF SendInv
    <3>12. \A g \in DOMAIN sender' :
             sender'[g].at = "transport" => Attempt(g)' \in disk'.attempted
      BY <3>1, <3>7 DEF SendInv
    <3>13. /\ \A g \in DOMAIN sender' : sender'[g].at = "save" => purpose' = "attempt"
           /\ \A g, h \in DOMAIN sender' :
                sender'[g].at = "save" /\ sender'[h].at = "save" => g = h
      BY <3>1, <3>3
    <3>14. /\ \A p \in Pairs :
                sent'[p] > 0 => p \in mem'.attempted /\ p \in disk'.attempted
           /\ \A p \in Pairs : sent'[p] <= 1
      BY <3>1, <3>2 DEF SendInv
    <3>. QED BY <3>10, <3>11, <3>12, <3>13, <3>14 DEF SendInv
   <2>5. ASSUME NEW c \in Channels, SkipSend(f, c) PROVE SendInv'
    <3>1. /\ DOMAIN sender' = DOMAIN sender /\ UNCHANGED <<mem, disk, sent, purpose>>
          /\ sender'[f].at = sender[f].at /\ sender'[f].channel = sender[f].channel
          /\ \A g \in DOMAIN sender \ {f} : sender'[g] = sender[g]
      BY <2>2, <2>5 DEF SkipSend, ledgers, section, history, Sender
    <3>. QED BY <3>1 DEF SendInv, Attempting, Attempt
   <2>. QED BY <2>1, <2>3, <2>4, <2>5
  <1>10. CASE Restart
   <2>1. /\ DOMAIN sender' = DOMAIN sender /\ mem' = disk /\ disk' = disk /\ sent' = sent
         /\ \A f \in DOMAIN sender : sender'[f].at = "done"
     BY <1>10 DEF Restart, TypeSender, Sender
   <2>. QED BY <2>1 DEF SendInv, Attempting, Attempt
  <1>. QED
    BY <1>1, <1>2, <1>3, <1>4, <1>5, <1>6, <1>7, <1>8, <1>9, <1>10
    DEF Next, Saved, SaveFailed

-----------------------------------------------------------------------------
(* No step but the making of a request brings a request to memory or disk. *)
RequestsMove ==
  /\ disk'.sequence \in {disk.sequence, mem.sequence}
  /\ mem'.sequence \in {disk.sequence, mem.sequence}
  /\ disk.sequence <= disk'.sequence /\ disk'.sequence <= mem'.sequence
  /\ \A r \in Durable' :
       r \in Durable \/ (r \in mem.outbox /\ disk'.sequence = mem.sequence)
  /\ \A r \in mem'.outbox :
       r \in Durable \/ (r \in mem.outbox /\ mem'.sequence = mem.sequence)

(* Steps that only move requests keep IdInv.                               *)
LEMMA IdFrame ==
  ASSUME TypeInv, IdInv, RequestsMove PROVE IdInv'
  <1>. USE DEF TypeInv, TypeOK
  <1>1. /\ disk.sequence \in Nat /\ mem.sequence \in Nat
        /\ \A r \in Durable \cup mem.outbox : r.id \in Nat
    BY BoundsAssumption DEF TypeLedgers, TypeSection, TypeSender, Ledger, Request, Ids,
       Durable, Asked, AsRequest, Fired
  <1>2. \A r \in Durable' : r.id <= disk'.sequence BY <1>1 DEF IdInv, RequestsMove
  <1>3. \A r \in mem'.outbox : r.id <= mem'.sequence BY <1>1 DEF IdInv, RequestsMove
  <1>4. Durable' \cup mem'.outbox \subseteq Durable \cup mem.outbox BY DEF RequestsMove
  <1>5. disk'.sequence <= mem'.sequence BY DEF RequestsMove
  <1>. QED BY <1>2, <1>3, <1>4, <1>5 DEF IdInv

(* The requests of the tasks change only when new ones are fired.          *)
LEMMA AskedFrame ==
  ASSUME DOMAIN sender' = DOMAIN sender PROVE Asked' = Asked
  BY DEF Asked, AsRequest

(* Publishing adds exactly the requests of the outbox.                     *)
LEMMA AskedPublish ==
  ASSUME TypeInv, Publish(mem)
  PROVE  Asked' = Asked \cup mem.outbox
  <1>. DEFINE fired == {[flush |-> flushes + 1, id |-> r.id, body |-> r.body] : r \in mem.outbox}
  <1>1. DOMAIN sender' = DOMAIN sender \cup fired BY DEF Publish
  <1>2. {AsRequest(f) : f \in fired} = mem.outbox
   <2>. DEFINE event(r) == [flush |-> flushes + 1, id |-> r.id, body |-> r.body]
   <2>1. \A r \in mem.outbox : AsRequest(event(r)) = r
     BY DEF TypeInv, TypeOK, TypeLedgers, Ledger, Request, AsRequest
   <2>2. fired = {event(r) : r \in mem.outbox} OBVIOUS
   <2>. HIDE DEF event, fired
   <2>. QED BY <2>1, <2>2
  <1>. QED BY <1>1, <1>2 DEF Asked

(* Every step keeps the numbers of saved and fired requests below the      *)
(* saved sequence, so a request made after a restart gets a number nobody  *)
(* has seen.                                                               *)
LEMMA IdStep ==
  ASSUME TypeInv, LockInv, DurableInv, IdInv, [Next]_vars PROVE IdInv'
  <1>. USE DEF TypeInv, TypeOK
  <1>0. disk.sequence \in Nat /\ mem.sequence \in Nat /\ disk.sequence <= mem.sequence
    BY BoundsAssumption DEF TypeLedgers, Ledger, IdInv
  <1>1. ASSUME Callbacks \/ Refreshing \/ DrainDone \/ EnterTimer \/ EnterStop \/ UNCHANGED vars
        PROVE  IdInv'
   <2>1. UNCHANGED <<mem, disk, batch, sender>>
     BY <1>1
     DEF Callbacks, Capture, Sweep, HoldOver, TimerFires, Stop, Refreshing, Start,
         RefreshLoop, EnterRefresh, EnterControl, DrainDone, EnterTimer, EnterStop,
         vars, ledgers, section
   <2>2. RequestsMove BY <1>0, <2>1 DEF RequestsMove, Durable, Asked, AsRequest
   <2>. QED BY <2>2, IdFrame
  <1>2. ASSUME Deciding PROVE IdInv'
   <2>1. PICK changed \in BOOLEAN, asked \in BOOLEAN :
           \E taken : Decided(changed, asked, taken)
     BY <1>2, DecidedEffect
   <2>2. PICK taken : Decided(changed, asked, taken) BY <2>1
   <2>3. batch' \in {batch, NoBatch}
     BY <1>2 DEF Deciding, DrainOne, DrainFails, Evaluate, EvaluateFails, Abandon,
                 AbandonStop, Release, section
   <2>4. Durable' \subseteq Durable BY <2>2, <2>3 DEF Decided, Durable, Asked, AsRequest, NoBatch
   <2>. DEFINE new == [id |-> mem.sequence + 1, body |-> stamps + 1]
   <2>5. mem'.outbox \subseteq mem.outbox \cup (IF asked THEN {new} ELSE {}) BY <2>2 DEF Decided
   <2>6. /\ disk' = disk
         /\ mem'.sequence = IF asked THEN mem.sequence + 1 ELSE mem.sequence
     BY <2>2 DEF Decided
   <2>7. \A r \in Durable \cup mem.outbox : r.id \in Nat /\ r.id <= mem.sequence
     BY <1>0, BoundsAssumption DEF IdInv, TypeLedgers, TypeSection, TypeSender, Ledger,
        Request, Ids, Durable, Asked, AsRequest, Fired
   <2>8. \A r \in mem'.outbox : r.id <= mem'.sequence BY <1>0, <2>5, <2>6, <2>7
   <2>9. \A r, q \in Durable' \cup mem'.outbox : r.id = q.id => r = q
    <3>1. \A r \in Durable' \cup mem'.outbox : r \in Durable \cup mem.outbox \/ r = new
      BY <2>4, <2>5
    <3>2. new.id = mem.sequence + 1 OBVIOUS
    <3>. HIDE DEF new
    <3>. QED BY <1>0, <2>7, <3>1, <3>2 DEF IdInv
   <2>. QED BY <1>0, <2>4, <2>6, <2>8, <2>9 DEF IdInv
  <1>3. ASSUME Saving PROVE IdInv'
   <2>1. UNCHANGED <<mem, batch, sender>> /\ disk' \in {disk, mem}
     BY <1>3 DEF Saving, SkipWrite, Write, WriteFails, Verify, VerifyFails, ledgers
   <2>2. RequestsMove BY <1>0, <2>1 DEF RequestsMove, Durable, Asked, AsRequest
   <2>. QED BY <2>2, IdFrame
  <1>4. ASSUME Saved PROVE IdInv'
   <2>1. disk = mem /\ disk' = disk
     BY <1>4 DEF Saved, AfterComplete, AfterScopes, AfterClear, AfterTimer, AfterAttempt,
                 AfterFinal, DurableInv, ledgers
   <2>2. mem'.outbox \subseteq mem.outbox /\ mem'.sequence = mem.sequence
     BY <1>4 DEF Saved, AfterComplete, AfterScopes, AfterClear, AfterTimer, AfterAttempt,
                 AfterFinal, WithReports, Publish, ledgers, TypeLedgers, Ledger
   <2>3. batch'.requests \subseteq batch.requests \cup mem.outbox
     BY <1>4 DEF Saved, AfterComplete, AfterScopes, AfterClear, AfterTimer, AfterAttempt,
                 AfterFinal, Finish, Release, NoBatch
   <2>4. Asked' \subseteq Asked \cup mem.outbox
    <3>1. Publish(mem) \/ DOMAIN sender' = DOMAIN sender
      BY <1>4 DEF Saved, AfterComplete, AfterScopes, AfterClear, AfterTimer, AfterAttempt,
                  AfterFinal
    <3>. QED BY <3>1, AskedPublish, AskedFrame
   <2>5. RequestsMove BY <1>0, <2>1, <2>2, <2>3, <2>4 DEF RequestsMove, Durable
   <2>. QED BY <2>5, IdFrame
  <1>5. ASSUME SaveFailed PROVE IdInv'
   <2>1. /\ disk' = disk /\ mem'.sequence = mem.sequence /\ batch' = NoBatch
         /\ mem'.outbox \subseteq mem.outbox \cup batch.requests
     BY <1>5 DEF SaveFailed, SectionFails, TimerFails, AttemptFails, FinalFails, Abandon,
                 AbandonStop, Release, ledgers, TypeLedgers, Ledger
   <2>2. DOMAIN sender' = DOMAIN sender
     BY <1>5 DEF SaveFailed, SectionFails, TimerFails, AttemptFails, FinalFails
   <2>3. RequestsMove BY <1>0, <2>1, <2>2, AskedFrame DEF RequestsMove, Durable, NoBatch
   <2>. QED BY <2>3, IdFrame
  <1>6. ASSUME Sending \/ Restart PROVE IdInv'
   <2>1. DOMAIN sender' = DOMAIN sender BY <1>6 DEF Sending, Transport, EnterSend, SkipSend, Restart
   <2>2. /\ disk' = disk /\ batch' \in {batch, NoBatch}
         /\ \/ mem' = disk
            \/ mem'.outbox = mem.outbox /\ mem'.sequence = mem.sequence
     BY <1>6 DEF Sending, Transport, EnterSend, SkipSend, Restart, ledgers, section,
                 TypeLedgers, Ledger
   <2>3. RequestsMove BY <1>0, <2>1, <2>2, AskedFrame DEF RequestsMove, Durable, NoBatch
   <2>. QED BY <2>3, IdFrame
  <1>. QED BY <1>1, <1>2, <1>3, <1>4, <1>5, <1>6 DEF Next, Working, Deciding

-----------------------------------------------------------------------------
(* Every step keeps track of where a request is: a request leaves the      *)
(* saved outbox only when it was fired or withdrawn since the last write.  *)
LEMMA OutboxStep ==
  ASSUME TypeInv, LockInv, DurableInv, IdInv, OutboxInv, [Next]_vars
  PROVE  OutboxInv'
  <1>. USE DEF TypeInv, TypeOK
  <1>0. disk.sequence \in Nat /\ mem.sequence \in Nat /\ disk.sequence <= mem.sequence
    BY BoundsAssumption DEF TypeLedgers, Ledger, IdInv
  <1>1. ASSUME Callbacks \/ Refreshing \/ DrainDone \/ EnterTimer \/ EnterStop \/ UNCHANGED vars
        PROVE  OutboxInv'
   <2>1. /\ UNCHANGED <<mem, disk, batch, sender, withdrawn>>
         /\ purpose' \in {purpose, "timer", "final"}
     BY <1>1
     DEF Callbacks, Capture, Sweep, HoldOver, TimerFires, Stop, Refreshing, Start,
         RefreshLoop, EnterRefresh, EnterControl, DrainDone, EnterTimer, EnterStop,
         BeginSave, Take, vars, ledgers, section, status
   <2>. QED BY <2>1 DEF OutboxInv, Asked, AsRequest, NewReports
  <1>2. ASSUME Deciding PROVE OutboxInv'
   <2>1. PICK changed \in BOOLEAN, asked \in BOOLEAN :
           \E taken : Decided(changed, asked, taken)
     BY <1>2, DecidedEffect
   <2>2. PICK taken : Decided(changed, asked, taken) BY <2>1
   <2>. DEFINE new == [id |-> mem.sequence + 1, body |-> stamps + 1]
   <2>3. /\ UNCHANGED <<disk, sender>> /\ withdrawn' = withdrawn \cup taken
         /\ mem'.outbox = (mem.outbox \ taken) \cup IF asked THEN {new} ELSE {}
     BY <2>2 DEF Decided
   <2>4. purpose' \notin {"scopes", "clear"}
     BY <1>2 DEF Deciding, DrainOne, DrainFails, Evaluate, EvaluateFails, Drained, Abandon,
                 AbandonStop, Release, BeginSave, section, LockInv
   <2>5. \A r \in mem'.outbox : r \in disk'.outbox \cup Asked' \/ disk'.sequence < r.id
    <3>1. new.id = mem.sequence + 1 OBVIOUS
    <3>. HIDE DEF new
    <3>. QED BY <1>0, <2>3, <3>1 DEF OutboxInv, Asked, AsRequest
   <2>6. \A r \in disk'.outbox \ mem'.outbox : r \in Asked' \cup withdrawn'
     BY <2>3 DEF OutboxInv, Asked, AsRequest
   <2>. QED BY <2>4, <2>5, <2>6 DEF OutboxInv
  <1>3. ASSUME Saving PROVE OutboxInv'
   <2>1. /\ UNCHANGED <<mem, batch, sender, purpose>>
         /\ disk' = mem \/ UNCHANGED <<disk, withdrawn>>
     BY <1>3 DEF Saving, SkipWrite, Write, WriteFails, Verify, VerifyFails, ledgers
   <2>. QED BY <2>1 DEF OutboxInv, Asked, AsRequest, NewReports
  <1>4. ASSUME AfterComplete \/ AfterScopes PROVE OutboxInv'
   <2>1. disk = mem /\ disk' = disk /\ withdrawn' = withdrawn
     BY <1>4 DEF AfterComplete, AfterScopes, DurableInv
   <2>2. CASE Publish(mem) /\ batch'.requests \subseteq mem.outbox
    <3>1. Asked' = Asked \cup mem.outbox BY <2>2, AskedPublish
    <3>2. mem'.outbox = {} /\ purpose' = "clear" BY <2>2 DEF Publish, BeginSave, TypeLedgers, Ledger
    <3>. QED BY <2>1, <2>2, <3>1, <3>2 DEF OutboxInv
   <2>3. CASE mem' = WithReports /\ BeginSave("scopes") /\ sender' = sender
              /\ batch'.requests = mem.outbox
    <3>1. /\ mem'.outbox = mem.outbox /\ mem'.changes = mem.changes
          /\ mem'.reports = mem.reports \cup NewReports
      BY <2>3 DEF WithReports, TypeLedgers, Ledger
    <3>2. NewReports' = {} BY <3>1 DEF NewReports
    <3>3. purpose' = "scopes" BY <2>3 DEF BeginSave
    <3>. QED BY <2>1, <2>3, <3>1, <3>2, <3>3 DEF OutboxInv
   <2>4. CASE Finish /\ UNCHANGED <<mem, sender>> BY <2>1, <2>4 DEF OutboxInv, Finish, Release
   <2>. QED BY <1>4, <2>2, <2>3, <2>4 DEF AfterComplete, AfterScopes, OutboxInv
  <1>5. ASSUME AfterClear \/ AfterTimer \/ AfterAttempt \/ AfterFinal PROVE OutboxInv'
   <2>1. UNCHANGED <<mem, disk, withdrawn>> /\ purpose' = "none" /\ DOMAIN sender' = DOMAIN sender
     BY <1>5 DEF AfterClear, AfterTimer, AfterAttempt, AfterFinal, Finish, Release, ledgers,
                 status
   <2>. QED BY <2>1, AskedFrame DEF OutboxInv
  <1>6. ASSUME SaveFailed PROVE OutboxInv'
   <2>1. /\ disk' = disk /\ withdrawn' = withdrawn
         /\ purpose' = "none" /\ DOMAIN sender' = DOMAIN sender
         /\ mem'.outbox = mem.outbox
              \/ (purpose = "clear" /\ mem'.outbox = batch.requests \cup mem.outbox)
     BY <1>6 DEF SaveFailed, SectionFails, TimerFails, AttemptFails, FinalFails, Abandon,
                 AbandonStop, Release, ledgers, status, TypeLedgers, Ledger
   <2>. QED BY <2>1, AskedFrame DEF OutboxInv
  <1>7. ASSUME Sending PROVE OutboxInv'
   <2>1. PICK f \in DOMAIN sender :
           Transport(f) \/ \E c \in Channels : EnterSend(f, c) \/ SkipSend(f, c)
     BY <1>7 DEF Sending
   <2>2. /\ UNCHANGED <<disk, withdrawn, batch>> /\ DOMAIN sender' = DOMAIN sender
         /\ purpose' \in {purpose, "attempt"}
         /\ mem'.outbox = mem.outbox /\ mem'.reports = mem.reports
     BY <2>1 DEF Transport, EnterSend, SkipSend, BeginSave, ledgers, section, status,
                 TypeLedgers, Ledger
   <2>. QED BY <2>2, AskedFrame DEF OutboxInv, NewReports
  <1>8. CASE Restart
   <2>1. mem' = disk /\ disk' = disk /\ purpose' = "none" BY <1>8 DEF Restart
   <2>. QED BY <2>1 DEF OutboxInv
  <1>. QED
    BY <1>1, <1>2, <1>3, <1>4, <1>5, <1>6, <1>7, <1>8
    DEF Next, Working, Deciding, Saved

(* Every step accounts for the fact of every change: waiting, told or      *)
(* given up, and never waiting while the request of the change is out.     *)
LEMMA FactStep ==
  ASSUME TypeInv, LockInv, DurableInv, OutboxInv, FactInv, [Next]_vars
  PROVE  FactInv'
  <1>. USE DEF TypeInv, TypeOK
  <1>0. stamps \in Nat BY BoundsAssumption DEF TypeNews
  <1>1. ASSUME Callbacks \/ Refreshing \/ DrainDone \/ EnterTimer \/ EnterStop \/ UNCHANGED vars
        PROVE  FactInv'
   <2>1. /\ UNCHANGED <<mem, disk, facts, stamps, told, dropped, sender>>
         /\ purpose' \in {purpose, "timer", "final"}
     BY <1>1
     DEF Callbacks, Capture, Sweep, HoldOver, TimerFires, Stop, Refreshing, Start,
         RefreshLoop, EnterRefresh, EnterControl, DrainDone, EnterTimer, EnterStop,
         BeginSave, Take, vars, ledgers, section, status, news, history
   <2>. QED BY <2>1 DEF FactInv
  <1>2. ASSUME Deciding PROVE FactInv'
   <2>1. PICK changed \in BOOLEAN, asked \in BOOLEAN :
           \E taken :
             /\ Decided(changed, asked, taken)
             /\ \/ facts' = Noted(changed) /\ dropped' = dropped
                \/ facts' = {} /\ dropped' = dropped \cup Noted(changed)
     BY <1>2, DecidedEffect
   <2>2. PICK taken :
             /\ Decided(changed, asked, taken)
             /\ \/ facts' = Noted(changed) /\ dropped' = dropped
                \/ facts' = {} /\ dropped' = dropped \cup Noted(changed)
     BY <2>1
   <2>. DEFINE new == [id |-> mem.sequence + 1, body |-> stamps + 1]
   <2>3. /\ UNCHANGED <<disk, sender, told>>
         /\ mem'.changes = Base.changes \cup IF changed THEN {stamps + 1} ELSE {}
         /\ mem'.outbox = (mem.outbox \ taken) \cup IF asked THEN {new} ELSE {}
         /\ stamps' = IF changed \/ asked THEN stamps + 1 ELSE stamps
     BY <2>2 DEF Decided
   <2>4. Base.changes \subseteq mem.changes BY DEF Base, DurableInv, TypeLedgers, Ledger
   <2>5. purpose' \notin {"scopes", "clear"}
     BY <1>2 DEF Deciding, DrainOne, DrainFails, Evaluate, EvaluateFails, Drained, Abandon,
                 AbandonStop, Release, BeginSave, section, LockInv
   <2>6. /\ facts \cup dropped \subseteq facts' \cup dropped'
         /\ changed => stamps + 1 \in facts' \cup dropped'
         /\ dropped \subseteq dropped'
     BY <2>2 DEF Noted
   <2>7. \A s \in mem'.changes : s \in facts' \/ s \in dropped' \/ told'[s] > 0
     BY <2>3, <2>4, <2>6 DEF FactInv
   <2>8. \A r \in mem'.outbox \cup disk'.outbox : r.body <= stamps'
    <3>1. \A r \in mem'.outbox \cup disk'.outbox :
            r \in mem.outbox \cup disk.outbox \/ (asked /\ r = new)
      BY <2>3
    <3>2. new.body = stamps + 1 OBVIOUS
    <3>3. \A r \in mem.outbox \cup disk.outbox : r.body \in Nat
      BY BoundsAssumption DEF TypeLedgers, Ledger, Request, Stamps
    <3>. HIDE DEF new
    <3>. QED BY <1>0, <2>3, <3>1, <3>2, <3>3 DEF FactInv
   <2>9. \A f \in DOMAIN sender' :
           /\ f.body <= stamps'
           /\ f.body \in mem'.changes => f.body \in dropped' \/ told'[f.body] > 0
    <3>1. \A f \in DOMAIN sender : f.body \in Nat BY BoundsAssumption DEF TypeSender, Fired, Stamps
    <3>. QED BY <1>0, <2>3, <2>4, <2>6, <3>1 DEF FactInv
   <2>. QED BY <2>5, <2>7, <2>8, <2>9 DEF FactInv
  <1>3. ASSUME Saving PROVE FactInv'
   <2>1. UNCHANGED <<mem, facts, stamps, told, dropped, sender, purpose>> /\ disk' \in {disk, mem}
     BY <1>3 DEF Saving, SkipWrite, Write, WriteFails, Verify, VerifyFails, ledgers, news,
                 history
   <2>. QED BY <2>1 DEF FactInv
  <1>4. ASSUME Saved PROVE FactInv'
   <2>1. disk' = disk /\ mem'.changes = mem.changes /\ mem'.outbox \subseteq mem.outbox
         /\ stamps' = stamps /\ dropped' = dropped
     BY <1>4 DEF Saved, AfterComplete, AfterScopes, AfterClear, AfterTimer, AfterAttempt,
                 AfterFinal, WithReports, Publish, Finish, ledgers, news, history,
                 TypeLedgers, Ledger
   <2>2. PublishFacts \/ UNCHANGED <<told, facts>>
     BY <1>4 DEF Saved, AfterComplete, AfterScopes, AfterClear, AfterTimer, AfterAttempt,
                 AfterFinal, TellFacts, Publish, Finish, news, history
   <2>3. \A s \in mem'.changes : s \in facts' \/ s \in dropped' \/ told'[s] > 0
     BY <2>1, <2>2 DEF PublishFacts, FactInv, TypeHistory, TypeNews, TypeLedgers, Ledger
   <2>4. \A s \in Stamps : told[s] > 0 => told'[s] > 0 BY <2>2 DEF PublishFacts, TypeHistory
   <2>5. /\ purpose' \in {"scopes", "clear"} => facts' = {}
         /\ Publish(mem) => facts' = {}
     BY <1>4 DEF Saved, AfterComplete, AfterScopes, AfterClear, AfterTimer, AfterAttempt,
                 AfterFinal, TellFacts, PublishFacts, Publish, BeginSave, Finish, Release,
                 FactInv
   <2>6. \A f \in DOMAIN sender' : f \in DOMAIN sender \/
           (Publish(mem) /\ \E r \in mem.outbox : f.body = r.body)
     BY <1>4 DEF Saved, AfterComplete, AfterScopes, AfterClear, AfterTimer, AfterAttempt,
                 AfterFinal, Publish
   <2>7. \A f \in DOMAIN sender' :
           /\ f.body <= stamps'
           /\ f.body \in mem'.changes => f.body \in dropped' \/ told'[f.body] > 0
    <3>. SUFFICES ASSUME NEW f \in DOMAIN sender'
                  PROVE  /\ f.body <= stamps'
                         /\ f.body \in mem'.changes =>
                              f.body \in dropped' \/ told'[f.body] > 0
      OBVIOUS
    <3>1. CASE f \in DOMAIN sender BY <2>1, <2>4, <3>1 DEF FactInv, TypeSender, Fired
    <3>2. CASE Publish(mem) /\ \E r \in mem.outbox : f.body = r.body
      BY <2>1, <2>3, <2>5, <3>2 DEF FactInv
    <3>. QED BY <2>6, <3>1, <3>2
   <2>. QED BY <2>1, <2>3, <2>5, <2>7 DEF FactInv
  <1>5. ASSUME SaveFailed PROVE FactInv'
   <2>1. /\ disk' = disk /\ mem'.changes = mem.changes /\ UNCHANGED <<stamps, told>>
         /\ purpose' = "none" /\ DOMAIN sender' = DOMAIN sender
         /\ facts \cup dropped \subseteq facts' \cup dropped' /\ dropped \subseteq dropped'
         /\ mem'.outbox = mem.outbox
              \/ (purpose = "clear" /\ mem'.outbox = batch.requests \cup mem.outbox)
     BY <1>5 DEF SaveFailed, SectionFails, TimerFails, AttemptFails, FinalFails, Abandon,
                 AbandonStop, Release, ledgers, news, history, TypeLedgers, Ledger
   <2>2. \A r \in Asked : r.body <= stamps BY DEF FactInv, Asked, AsRequest
   <2>. QED BY <2>1, <2>2 DEF FactInv, OutboxInv
  <1>6. ASSUME Sending PROVE FactInv'
   <2>1. PICK f \in DOMAIN sender :
           Transport(f) \/ \E c \in Channels : EnterSend(f, c) \/ SkipSend(f, c)
     BY <1>6 DEF Sending
   <2>2. /\ UNCHANGED <<disk, facts, stamps, told, dropped>> /\ DOMAIN sender' = DOMAIN sender
         /\ purpose' \in {purpose, "attempt"}
         /\ mem'.outbox = mem.outbox /\ mem'.changes = mem.changes
     BY <2>1 DEF Transport, EnterSend, SkipSend, BeginSave, ledgers, section, news, history,
                 TypeLedgers, Ledger
   <2>. QED BY <2>2 DEF FactInv
  <1>7. CASE Restart
   <2>1. mem' = disk /\ disk' = disk /\ purpose' = "none" /\ DOMAIN sender' = DOMAIN sender
         /\ UNCHANGED <<stamps, told>> /\ dropped' = dropped \cup facts
     BY <1>7 DEF Restart
   <2>. QED BY <2>1 DEF FactInv, DurableInv
  <1>. QED BY <1>1, <1>2, <1>3, <1>4, <1>5, <1>6, <1>7 DEF Next, Working, Deciding

-----------------------------------------------------------------------------
StoppedWell == life = "stopped" /\ engine /\ ~error

(* After a stop without error only sending tasks still change the ledger.  *)
LEMMA StopStep ==
  ASSUME TypeInv, LockInv, DurableInv, SendInv, StopInv, [Next]_vars
  PROVE  StopInv'
  <1>. USE DEF TypeInv, TypeOK
  <1>1. ASSUME ~StoppedWell' PROVE StopInv' BY <1>1 DEF StoppedWell, StopInv, FinalSaveComplete
  <1>2. ASSUME StoppedWell',
               \/ Callbacks \/ Refreshing \/ Working \/ AfterComplete \/ AfterScopes
               \/ AfterClear \/ AfterTimer \/ SectionFails \/ TimerFails \/ FinalFails
               \/ EnterTimer \/ EnterStop \/ UNCHANGED vars
        PROVE  StopInv'
   <2>1. UNCHANGED <<life, engine, error>>
     BY <1>2 DEF StoppedWell, LockInv, Saves, Callbacks, Capture, Sweep, HoldOver,
        TimerFires, Stop, Refreshing, Start, RefreshLoop, EnterRefresh, EnterControl,
        Working, DrainOne, DrainFails, DrainDone, Evaluate, EvaluateFails, Drained, Take,
        AfterComplete, AfterScopes, AfterClear, AfterTimer, SectionFails, TimerFails,
        FinalFails, Abandon, AbandonStop, EnterTimer, EnterStop, vars, status
   <2>2. StoppedWell /\ lock \in {"free", "send"} /\ purpose \in {"none", "attempt"}
     BY <1>2, <2>1 DEF StoppedWell, LockInv, StopInv
   <2>3. UNCHANGED <<facts, pending, disk, mem, purpose>>
     BY <1>2, <2>2 DEF StoppedWell, LockInv, Saves, Callbacks, Capture, Sweep, HoldOver,
        TimerFires, Stop, Refreshing, Start, RefreshLoop, EnterRefresh, EnterControl, available,
        running, Working, DrainOne, DrainFails, DrainDone, Evaluate, EvaluateFails, Drained,
        Take, AfterComplete, AfterScopes, AfterClear, AfterTimer, SectionFails, TimerFails,
        FinalFails, EnterTimer, EnterStop, vars, ledgers, arrivals, news, section
   <2>. QED BY <2>1, <2>3 DEF StopInv, FinalSaveComplete
  <1>3. CASE Saving
   <2>1. /\ UNCHANGED <<life, engine, error, facts, pending, mem, purpose>>
         /\ disk' \in {disk, mem}
     BY <1>3 DEF Saving, SkipWrite, Write, WriteFails, Verify, VerifyFails, ledgers, arrivals,
                 news, status
   <2>2. mem = [mem EXCEPT !.attempted = mem.attempted] BY DEF TypeLedgers, Ledger
   <2>. QED BY <2>1, <2>2 DEF StopInv, FinalSaveComplete
  <1>4. CASE AfterAttempt
    BY <1>4 DEF AfterAttempt, Release, StopInv, FinalSaveComplete, ledgers, arrivals, status, news
  <1>5. CASE AfterFinal
   <2>1. disk = mem /\ pending = <<>> /\ UNCHANGED <<mem, disk, pending>> /\ facts' = {}
         /\ purpose' = "none"
     BY <1>5 DEF AfterFinal, PublishFacts, DurableInv, LockInv, Release, ledgers, arrivals
   <2>2. mem = [mem EXCEPT !.attempted = mem.attempted] BY DEF TypeLedgers, Ledger
   <2>. QED BY <2>1, <2>2 DEF StopInv, FinalSaveComplete
  <1>6. ASSUME AttemptFails \/ Sending PROVE StopInv'
   <2>1. UNCHANGED <<life, engine, error, facts, pending, disk>>
     BY <1>6 DEF AttemptFails, Sending, Transport, EnterSend, SkipSend, BeginSave, Release,
                 ledgers, arrivals, status, news
   <2>2. purpose' \in {purpose, "none", "attempt"}
     BY <1>6 DEF AttemptFails, Sending, Transport, EnterSend, SkipSend, BeginSave, Release,
                 section
   <2>3. PICK attempts : mem' = [mem EXCEPT !.attempted = attempts]
    <3>1. mem = [mem EXCEPT !.attempted = mem.attempted] BY DEF TypeLedgers, Ledger
    <3>. QED BY <1>6, <3>1 DEF AttemptFails, Sending, Transport, EnterSend, SkipSend, ledgers
   <2>4. [mem' EXCEPT !.attempted = disk.attempted] = [mem EXCEPT !.attempted = disk.attempted]
     BY <2>3 DEF TypeLedgers, Ledger
   <2>. QED BY <2>1, <2>2, <2>4 DEF StopInv, FinalSaveComplete
  <1>7. CASE Restart BY <1>7 DEF Restart, StopInv, FinalSaveComplete
  <1>. QED BY <1>1, <1>2, <1>3, <1>4, <1>5, <1>6, <1>7 DEF Next, Saved, SaveFailed

(* Every step keeps an owner for the captured observations: a wakeup asked *)
(* for, a worker on its way to the lock, or a drain under way.             *)
LEMMA WakeStep ==
  ASSUME TypeInv, LockInv, WakeInv, [Next]_vars PROVE WakeInv'
  <1>. USE DEF TypeInv, TypeOK, Owned, Saves, running
  <1>0. captured \in Nat /\ early \in Nat BY BoundsAssumption DEF TypeArrivals
  <1>1. ASSUME Callbacks PROVE WakeInv'
   <2>1. CASE Capture
     BY <1>0, <2>1 DEF Capture, RequestRefresh, WakeInv, TypeRefresh, section, status
   <2>2. CASE Sweep
     BY <2>2 DEF Sweep, RequestRefresh, WakeInv, TypeRefresh, section, status, arrivals
   <2>3. CASE HoldOver
     BY <2>3 DEF HoldOver, RequestRefresh, WakeInv, TypeRefresh, section, refresh, arrivals
   <2>4. CASE TimerFires BY <2>4 DEF TimerFires, WakeInv, section, refresh, status, arrivals
   <2>5. CASE Stop BY <2>5 DEF Stop, WakeInv, section, refresh, arrivals
   <2>. QED BY <1>1, <2>1, <2>2, <2>3, <2>4, <2>5 DEF Callbacks
  <1>2. ASSUME Refreshing PROVE WakeInv'
   <2>1. CASE Start BY <2>1 DEF Start, Take, WakeInv, LockInv, refresh, arrivals
   <2>2. CASE RefreshLoop BY <2>2 DEF RefreshLoop, WakeInv, section, status, arrivals
   <2>3. CASE EnterRefresh BY <2>3 DEF EnterRefresh, Take, WakeInv, status, arrivals
   <2>4. CASE EnterControl BY <2>4 DEF EnterControl, Take, WakeInv, status, arrivals, refresh
   <2>. QED BY <1>2, <2>1, <2>2, <2>3, <2>4 DEF Refreshing
  <1>3. ASSUME Working PROVE WakeInv'
   <2>1. CASE DrainOne BY <2>1 DEF DrainOne, WakeInv, LockInv, section, status, refresh
   <2>2. CASE DrainFails BY <2>2 DEF DrainFails, Abandon, AbandonStop, Release, WakeInv, LockInv
   <2>3. CASE DrainDone BY <2>3 DEF DrainDone, BeginSave, WakeInv, status, refresh, arrivals
   <2>4. CASE Evaluate
    <3>1. /\ UNCHANGED <<pending, captured, early, requested, life>> /\ engine'
          /\ pc' # "drain" /\ pc' # "evaluate"
          /\ task' \in {task, IF task = "inside" THEN "ready" ELSE task}
      BY <2>4 DEF Evaluate, BeginSave, Release, arrivals
    <3>2. pending = <<>> \/ pc = "evaluate" BY <2>4 DEF Evaluate, Drained
    <3>3. life # "loaded" BY <2>4 DEF Evaluate, Drained, LockInv
    <3>. QED BY <3>1, <3>2, <3>3 DEF WakeInv
   <2>5. CASE EvaluateFails
     BY <2>5 DEF EvaluateFails, Drained, Abandon, Release, WakeInv, LockInv, arrivals
   <2>. QED BY <1>3, <2>1, <2>2, <2>3, <2>4, <2>5 DEF Working
  <1>4. ASSUME Saving PROVE WakeInv'
    BY <1>4 DEF Saving, SkipWrite, Write, WriteFails, Verify, VerifyFails, WakeInv, LockInv,
                arrivals, refresh, status
  <1>5. ASSUME Saved PROVE WakeInv'
   <2>1. CASE AfterComplete \/ AfterScopes \/ AfterClear
    <3>1. /\ UNCHANGED <<pending, captured, early, requested, life, engine>>
          /\ pc' # "drain" /\ pc' # "evaluate" /\ purpose \in Saves /\ pc = "saved"
          /\ task' \in {task, IF task = "inside" THEN "ready" ELSE task}
      BY <2>1 DEF AfterComplete, AfterScopes, AfterClear, Publish, BeginSave, Finish, Release,
                  arrivals
    <3>. QED BY <3>1 DEF WakeInv, LockInv
   <2>2. CASE AfterTimer \/ AfterAttempt \/ AfterFinal
     BY <2>2 DEF AfterTimer, AfterAttempt, AfterFinal, Release, WakeInv, LockInv, arrivals,
                 status
   <2>. QED BY <1>5, <2>1, <2>2 DEF Saved
  <1>6. ASSUME SaveFailed PROVE WakeInv'
    BY <1>6 DEF SaveFailed, SectionFails, TimerFails, AttemptFails, FinalFails, Abandon,
                AbandonStop, Release, WakeInv, LockInv, arrivals, status
  <1>7. ASSUME Sending PROVE WakeInv'
   <2>1. /\ UNCHANGED <<pending, captured, early, requested, task, life, engine, error>>
         /\ \/ pc' = pc /\ purpose' = purpose
            \/ pc = "idle" /\ pc' = "write" /\ purpose' = "attempt"
     BY <1>7 DEF Sending, Transport, EnterSend, SkipSend, BeginSave, LockInv, arrivals,
                 refresh, section, status
   <2>. QED BY <2>1 DEF WakeInv, LockInv
  <1>8. ASSUME EnterTimer \/ EnterStop PROVE WakeInv'
    BY <1>8 DEF EnterTimer, EnterStop, BeginSave, Take, WakeInv, LockInv, arrivals, refresh,
                status
  <1>9. CASE Restart BY <1>0, <1>9 DEF Restart, WakeInv
  <1>10. CASE UNCHANGED vars BY <1>10 DEF vars, WakeInv, arrivals, refresh, section, status
  <1>. QED BY <1>1, <1>2, <1>3, <1>4, <1>5, <1>6, <1>7, <1>8, <1>9, <1>10 DEF Next

-----------------------------------------------------------------------------
(* The inductive invariant holds when an installation is loaded.           *)
LEMMA IInvInit == Init => IInv
  <1>. SUFFICES ASSUME Init PROVE IInv OBVIOUS
  <1>. USE DEF Init
  <1>1. LockInv BY DEF LockInv, Saves, AllSent
  <1>2. DurableInv BY DEF DurableInv, EmptyLedger
  <1>3. SendInv BY DEF SendInv, EmptyLedger
  <1>4. Asked = {} /\ Durable = {} BY DEF Durable, Asked, EmptyLedger, NoBatch
  <1>5. IdInv /\ OutboxInv BY <1>4 DEF IdInv, OutboxInv, EmptyLedger
  <1>6. FactInv /\ StopInv BY DEF FactInv, StopInv, FinalSaveComplete, EmptyLedger
  <1>7. WakeInv BY DEF WakeInv, Saves, running
  <1>. QED BY <1>1, <1>2, <1>3, <1>5, <1>6, <1>7 DEF IInv

(* The inductive invariant, of which every part needs the ones before it:  *)
(* the lock discipline, then what is durable, then attempts, ids and       *)
(* requests, then facts, the final save and wakeups.                       *)
THEOREM Invariance == Spec => []IInv
  <1>1. Init => TypeInv /\ IInv BY TypeInit, IInvInit
  <1>2. TypeInv /\ IInv /\ [Next]_vars => (TypeInv /\ IInv)'
    BY TypeStep, LockStep, DurableStep, SendStep, IdStep, OutboxStep, FactStep, StopStep,
       WakeStep
    DEF IInv
  <1>. QED BY <1>1, <1>2, PTL DEF Spec

(* A fact is published only when its change is in the Store file; a        *)
(* confirmed operator control stays in the Store file (_complete,          *)
(* async_control).                                                         *)
THEOREM FactsAreDurable == Spec => [](OnlyDurableFacts /\ ConfirmedDurable)
  <1>1. IInv => OnlyDurableFacts /\ ConfirmedDurable
    BY DEF IInv, DurableInv, OnlyDurableFacts, ConfirmedDurable
  <1>. QED BY <1>1, Invariance, PTL

(* The fact of a change is published once, whichever saves fail before or  *)
(* after it: facts that wait are dropped with the save that fails          *)
(* (_complete).                                                            *)
THEOREM FactsAreNotRepeated == Spec => []FactsAtMostOnce
  <1>1. IInv => FactsAtMostOnce BY DEF IInv, DurableInv, FactsAtMostOnce
  <1>. QED BY <1>1, Invariance, PTL

(* The fact of a durable change is published, or given up, before a        *)
(* request of the same evaluation is fired (_complete, _flush_events).     *)
THEOREM FactsComeFirst == Spec => []FactBeforeRequest
  <1>1. IInv => FactBeforeRequest BY DEF IInv, DurableInv, FactInv, FactBeforeRequest, Publications
  <1>. QED BY <1>1, Invariance, PTL

(* A delivery id names one request for ever, across failed saves, replays  *)
(* and restarts (DeliveryState).                                           *)
THEOREM IdsAreUnique == Spec => []IdNamesOneRequest
  <1>1. ASSUME IInv PROVE IdNamesOneRequest
   <2>. SUFFICES ASSUME NEW f \in DOMAIN sender, NEW g \in DOMAIN sender, f.id = g.id
                 PROVE  f.body = g.body
     BY DEF IdNamesOneRequest, Publications
   <2>1. AsRequest(f) \in Durable /\ AsRequest(g) \in Durable BY DEF Durable, Asked
   <2>2. AsRequest(f).id = AsRequest(g).id BY DEF AsRequest
   <2>3. AsRequest(f) = AsRequest(g) BY <1>1, <2>1, <2>2 DEF IInv, IdInv
   <2>. QED BY <2>3 DEF AsRequest
  <1>. QED BY <1>1, Invariance, PTL

(* A transport is called at most once per delivery id and channel, and     *)
(* after its attempt was saved (async_send_notification).                  *)
THEOREM SendingIsSafe == Spec => [](AttemptSavedBeforeSent /\ SentAtMostOnce)
  <1>1. IInv => AttemptSavedBeforeSent /\ SentAtMostOnce
    BY DEF IInv, SendInv, AttemptSavedBeforeSent, SentAtMostOnce, Publications, Attempt
  <1>. QED BY <1>1, Invariance, PTL

(* A stop without error leaves nothing unsaved (async_stop).               *)
THEOREM StopIsComplete == Spec => []FinalSaveComplete
  <1>1. IInv => FinalSaveComplete BY DEF IInv, StopInv
  <1>. QED BY <1>1, Invariance, PTL

(* No wakeup is lost between callbacks and the refresh worker              *)
(* (_request_refresh, _queued_refresh).                                    *)
THEOREM WakeupsAreKept == Spec => []PendingHasOwner
  <1>1. IInv => PendingHasOwner BY DEF IInv, WakeInv, Owned, PendingHasOwner
  <1>. QED BY <1>1, Invariance, PTL

(* A request whose membership needs a stored report is fired after the     *)
(* report was saved (_flush_events).                                       *)
THEOREM ReportsComeFirst == Spec => ReportsSavedBeforeFired
  <1>1. ASSUME TypeInv, IInv, [Next]_vars
        PROVE  [\A f \in DOMAIN sender' \ DOMAIN sender :
                  f.body \in LongBodies => f.body \in disk.reports]_vars
   <2>. USE DEF IInv, TypeInv, TypeOK
   <2>. SUFFICES ASSUME Next, NEW f \in DOMAIN sender' \ DOMAIN sender,
                        f.body \in LongBodies
                 PROVE  f.body \in disk.reports
     BY <1>1
   <2>1. (AfterComplete \/ AfterScopes) /\ Publish(mem)
     BY DEF Next, Callbacks, Capture, Sweep, HoldOver, TimerFires, Stop, Refreshing, Start,
        RefreshLoop, EnterRefresh, EnterControl, Working, DrainOne, DrainFails, DrainDone,
        Evaluate, EvaluateFails, Saving, SkipWrite, Write, WriteFails, Verify, VerifyFails,
        Saved, AfterComplete, AfterScopes, AfterClear, AfterTimer, AfterAttempt, AfterFinal,
        SaveFailed, SectionFails, TimerFails, AttemptFails, FinalFails, EnterTimer, Sending,
        Transport, EnterSend, SkipSend, EnterStop, Restart
   <2>2. disk = mem BY <1>1, <2>1 DEF AfterComplete, AfterScopes, DurableInv
   <2>3. \E r \in mem.outbox : f.body = r.body BY <2>1 DEF Publish
   <2>4. NewReports = {}
     BY <1>1, <2>1 DEF AfterComplete, AfterScopes, OutboxInv, Publish, BeginSave, Finish, Release
   <2>. QED BY <2>2, <2>3, <2>4 DEF NewReports
  <1>2. Spec => []TypeInv BY TypeInit, TypeStep, PTL DEF Spec
  <1>. QED BY <1>1, <1>2, Invariance, PTL DEF Spec, ReportsSavedBeforeFired

----------------------------------------------------------------------------
(* The runtime implements DurablePublication, seen through the Store file, *)
(* the events fired on the bus and the transport calls.                    *)

(* An installation just loaded has promised nothing.                       *)
LEMMA PromiseInit == Init => Promise!InitAbs
  BY DEF Init, Promise!InitAbs, EmptyLedger, Publications

(* Store.async_save is the Save of the promise: what enters and leaves the *)
(* saved outbox is accounted for.                                          *)
LEMMA PromiseSave ==
  ASSUME TypeInv, IInv, Write PROVE Promise!Save
  <1>. USE DEF TypeInv, TypeOK, IInv
  <1>1. disk' = mem /\ withdrawn' = {} /\ UNCHANGED <<told, sent, sender>> BY DEF Write, history
  <1>2. disk.changes \subseteq disk'.changes BY <1>1 DEF DurableInv
  <1>3. disk.sequence <= disk'.sequence BY <1>1 DEF IdInv
  <1>4. \A r \in disk'.outbox :
          \/ r \in disk.outbox \cup Asked
          \/ disk.sequence < r.id /\ r.id <= disk'.sequence
    BY <1>1 DEF IdInv, OutboxInv
  <1>5. \A r, q \in disk'.outbox : r.id = q.id => r = q BY <1>1 DEF IdInv
  <1>6. \A r \in disk.outbox \ disk'.outbox :
          r \in Asked \cup withdrawn
    BY <1>1 DEF OutboxInv
  <1>7. \A a \in Pairs : sent[a] > 0 => a \in disk'.attempted BY <1>1 DEF SendInv
  <1>. QED
    BY <1>1, <1>2, <1>3, <1>4, <1>5, <1>6, <1>7
    DEF Promise!Save, Publications, Asked, AsRequest

(* What follows a verified save announces only what that save made         *)
(* durable.                                                                *)
LEMMA PromiseAnnounce ==
  ASSUME TypeInv, IInv, AfterComplete \/ AfterScopes \/ AfterFinal
  PROVE  Promise!Announce
  <1>. USE DEF TypeInv, TypeOK, IInv
  <1>1. disk = mem /\ disk' = disk /\ sent' = sent /\ withdrawn' = withdrawn
    BY DEF AfterComplete, AfterScopes, AfterFinal, DurableInv, ledgers
  <1>2. PublishFacts \/ told' = told BY DEF AfterComplete, AfterScopes, AfterFinal, TellFacts
  <1>3. told \in [Stamps -> Nat] /\ facts \in SUBSET Stamps BY DEF TypeHistory, TypeNews
  <1>4. told' \in [Stamps -> Nat] BY <1>2, <1>3 DEF PublishFacts
  <1>5. \A c \in Stamps : told'[c] # told[c] =>
          c \in disk.changes /\ told[c] = 0 /\ told'[c] = 1
   <2>1. \A c \in facts : c \in disk.changes /\ told[c] = 0 BY <1>1, <1>3 DEF DurableInv
   <2>. QED BY <1>2, <1>3, <2>1 DEF PublishFacts
  <1>6. Asked' = Asked \/ Asked' = Asked \cup disk.outbox
   <2>1. Publish(mem) \/ DOMAIN sender' = DOMAIN sender
     BY DEF AfterComplete, AfterScopes, AfterFinal
   <2>. QED BY <1>1, <2>1, AskedPublish, AskedFrame
  <1>. QED BY <1>1, <1>4, <1>5, <1>6 DEF Promise!Announce, Publications, Asked, AsRequest

(* A transport call uses a saved attempt that was never used.              *)
LEMMA PromiseCall ==
  ASSUME TypeInv, IInv, NEW f \in DOMAIN sender, Transport(f)
  PROVE  Promise!Call(Attempt(f)) /\ Attempt(f) \in Pairs
  <1>. USE DEF TypeInv, TypeOK, IInv
  <1>1. Attempt(f) \in Pairs BY DEF TypeSender, Fired, Sender, Attempt, Pairs
  <1>2. sender[f].at = "transport" BY DEF Transport
  <1>3. Attempt(f) \in disk.attempted /\ sent[Attempt(f)] = 0 BY <1>2 DEF SendInv, Attempting
  <1>4. sent' = [sent EXCEPT ![Attempt(f)] = 1]
   <2>1. sent' = [sent EXCEPT ![Attempt(f)] = sent[Attempt(f)] + 1] BY DEF Transport, Attempt
   <2>. QED BY <1>3, <2>1
  <1>5. \E r \in Asked : r.id = Attempt(f)[1]
   <2>1. AsRequest(f) \in Asked BY DEF Asked
   <2>2. AsRequest(f).id = Attempt(f)[1] BY DEF AsRequest, Attempt
   <2>. QED BY <2>1, <2>2
  <1>6. UNCHANGED <<disk, told, withdrawn>> /\ Asked' = Asked BY AskedFrame DEF Transport, ledgers
  <1>. QED BY <1>1, <1>3, <1>4, <1>5, <1>6 DEF Promise!Call, Publications, Asked, AsRequest

(* Every step is a step of the promise or leaves its state alone.          *)
LEMMA PromiseStep ==
  ASSUME TypeInv, IInv, [Next]_vars PROVE [Promise!NextAbs]_(Promise!absVars)
  <1>. DEFINE Same == UNCHANGED <<disk, told, sent>> /\ DOMAIN sender' = DOMAIN sender
  <1>0. ASSUME Same, withdrawn \subseteq withdrawn' \/ withdrawn' = {}
        PROVE  Promise!Withdraw \/ Promise!Reload
    BY <1>0 DEF Promise!Withdraw, Promise!Reload, Publications
  <1>1. ASSUME Same, withdrawn' = withdrawn PROVE UNCHANGED Promise!absVars
    BY <1>1 DEF Promise!absVars, Publications
  <1>2. CASE Callbacks \/ Refreshing \/ DrainDone \/ EnterTimer \/ EnterStop \/ UNCHANGED vars
    BY <1>1, <1>2
    DEF Callbacks, Capture, Sweep, HoldOver, TimerFires, Stop, Refreshing, Start,
        RefreshLoop, EnterRefresh, EnterControl, DrainDone, EnterTimer, EnterStop,
        vars, ledgers, history
  <1>3. CASE Deciding
   <2>1. Same /\ withdrawn \subseteq withdrawn' BY <1>3, DecidedEffect DEF Decided, IInv
   <2>. QED BY <1>0, <2>1 DEF Promise!NextAbs
  <1>4. CASE Write BY <1>4, PromiseSave DEF Promise!NextAbs
  <1>5. CASE SkipWrite \/ WriteFails \/ Verify \/ VerifyFails
    BY <1>1, <1>5 DEF SkipWrite, WriteFails, Verify, VerifyFails, ledgers, history
  <1>6. CASE AfterComplete \/ AfterScopes \/ AfterFinal BY <1>6, PromiseAnnounce DEF Promise!NextAbs
  <1>7. CASE AfterClear \/ AfterTimer \/ AfterAttempt
    BY <1>1, <1>7 DEF AfterClear, AfterTimer, AfterAttempt, ledgers, history
  <1>8. CASE SaveFailed
    BY <1>1, <1>8 DEF SaveFailed, SectionFails, TimerFails, AttemptFails, FinalFails, Abandon,
                      AbandonStop, ledgers, history
  <1>9. CASE Sending
   <2>1. PICK f \in DOMAIN sender :
           Transport(f) \/ \E c \in Channels : EnterSend(f, c) \/ SkipSend(f, c)
     BY <1>9 DEF Sending
   <2>2. CASE Transport(f) BY <2>2, PromiseCall DEF Promise!NextAbs
   <2>3. CASE \E c \in Channels : EnterSend(f, c) \/ SkipSend(f, c)
     BY <1>1, <2>3 DEF EnterSend, SkipSend, ledgers, history
   <2>. QED BY <2>1, <2>2, <2>3
  <1>10. CASE Restart BY <1>0, <1>10 DEF Restart, Promise!NextAbs
  <1>. QED
    BY <1>2, <1>3, <1>4, <1>5, <1>6, <1>7, <1>8, <1>9, <1>10
    DEF Next, Working, Deciding, Saving, Saved

(* The runtime implements DurablePublication: its write is Save, its       *)
(* publications are Announce, its transport calls are Call; what it takes  *)
(* out of its outbox is Withdraw, an exit is Reload.                       *)
THEOREM RuntimeKeepsPromise == Spec => ImplementsPromise
  <1>1. Spec => []TypeInv BY TypeInit, TypeStep, PTL DEF Spec
  <1>2. TypeInv /\ IInv /\ [Next]_vars => [Promise!NextAbs]_(Promise!absVars) BY PromiseStep
  <1>. QED BY <1>1, <1>2, Invariance, PromiseInit, PTL DEF Spec, ImplementsPromise, Promise!SpecAbs
============================================================================
