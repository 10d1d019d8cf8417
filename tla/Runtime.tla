------------------------------ MODULE Runtime ------------------------------
(***************************************************************************)
(* The save and publish boundary of custom_components/homeostatic/         *)
(* runtime.py: one Runtime object on Home Assistant's event loop.          *)
(*                                                                         *)
(* Callbacks append captured observations and ask for a refresh.  One      *)
(* asyncio lock serialises refreshes, operator controls, the deferred save *)
(* timer, every transport attempt and the final save.  Its holder works    *)
(* through drain -> evaluate -> write -> verify -> saved/failed; between   *)
(* two of those points the code awaits, so callbacks, a stop or a crash    *)
(* may come in.  What the health-tree engine and policy decide is outside  *)
(* the repository and is a free choice of new changes and requests.        *)
(***************************************************************************)
EXTENDS Naturals, Sequences, FiniteSets

CONSTANTS
  Channels,     \* delivery channels of a request
  LongBodies,   \* request contents whose membership needs a stored report
  MaxObs,       \* bound: observations captured in one behaviour
  MaxStamps,    \* bound: changes and requests made in one behaviour
  MaxFaults,    \* bound: failing evaluations, writes and read-backs
  MaxCrashes    \* bound: process exits

ASSUME ChannelsAssumption == Channels # {}
ASSUME BoundsAssumption ==
  /\ MaxObs \in Nat
  /\ MaxStamps \in Nat
  /\ MaxFaults \in Nat
  /\ MaxCrashes \in Nat

VARIABLES
  mem,          \* what snapshot() would return now
  disk,         \* what the Store file holds
  verified,     \* _stored_digest: {} or the set of the one ledger it names
  pending,      \* _pending: captured observations, oldest first
  captured,     \* how many observations were captured so far
  early,        \* history: how many of them before a first pass was accepted
  requested,    \* _refresh_requested
  task,         \* _refresh_task: none, ready, waiting for the lock, inside
  savePending,  \* _save_pending
  timer,        \* _pending_save_cancel is armed
  timerDue,     \* the timer fired and its coroutine waits for the lock
  lock,         \* who holds _lock
  pc,           \* where the holder is
  purpose,      \* which save of the holder is under way
  batch,        \* the Publication under way: its requests, the earlier reports
  control,      \* the change an operator control made, 0 if it was rejected
  life,         \* loaded, running, stopping, stopped
  engine,       \* the first pass was accepted: engine and policy exist, and
                \* saved is None; a first pass that fails discards both
  indexed,      \* _entity_sources and the entry listeners exist
  error,        \* error is not None
  hold,         \* startup hold (_quiet_since): kept, over (may end), off
  deadline,     \* _deadline_cancel is armed for the startup hold
  facts,        \* _facts: changes waiting for a save to be published
  saveRequired, \* _save_required
  sender,       \* one async_send_notification task per fired request
  withdrawn,    \* history: requests taken out of the outbox unsent since the
                \* Store file was last written or loaded
  stamps,       \* how many changes and requests were made so far
  told,         \* history: how often each change was published as a fact
  dropped,      \* history: changes whose unpublished fact was thrown away
  confirmed,    \* history: controls reported to their caller as done
  sent,         \* history: transport calls per delivery id and channel
  flushes,      \* history: publications of an outbox so far
  faults, crashes

ledgers  == <<mem, disk, verified>>
arrivals == <<pending, captured, early>>
refresh  == <<requested, task>>
deferred == <<savePending, timer, timerDue>>
section  == <<lock, pc, purpose, batch, control>>
status   == <<life, engine, indexed, error, hold, deadline>>
news     == <<facts, saveRequired, stamps>>
history  == <<told, dropped, confirmed, sent, flushes>>
budget   == <<faults, crashes>>

vars == <<ledgers, arrivals, refresh, deferred, section, status, news, sender,
          history, budget, withdrawn>>

-----------------------------------------------------------------------------
Stamps == 1..MaxStamps

(* A delivery id is the ledger's sequence number when it was assigned; the *)
(* body stands for the title, message, tag and membership of the request.  *)
Ids == 1..MaxStamps
Request == [id : Ids, body : Stamps]
Pairs == Ids \X Channels

Ledger == [evidence  : 0..MaxObs,        \* last observation taken in
           changes   : SUBSET Stamps,    \* episode and control changes
           sequence  : 0..MaxStamps,     \* delivery.sequence
           outbox    : SUBSET Request,   \* delivery.outbox, ids ascending
           reports   : SUBSET Stamps,    \* notification_reports scopes
           attempted : SUBSET Pairs]     \* delivery.attempted

NoBatch == [requests |-> {}, reports |-> {}]
EmptyLedger == [evidence |-> 0, changes |-> {}, sequence |-> 0, outbox |-> {},
                reports |-> {}, attempted |-> {}]

(* One fired homeostatic_notification event.  `flush` numbers the           *)
(* publication it belongs to, so a replay is an event of its own.          *)
Fired == [flush : Nat, id : Ids, body : Stamps]
Sender == [at : {"lock", "save", "transport", "done"},
           channel : Channels, todo : SUBSET Channels]

running == life = "running"
available == running /\ engine /\ ~error
startup_quiet == hold # "off"

TypeLedgers == mem \in Ledger /\ disk \in Ledger /\ verified \in SUBSET Ledger
TypeArrivals ==
  pending \in Seq(1..MaxObs) /\ captured \in 0..MaxObs /\ early \in 0..MaxObs
TypeRefresh ==
  requested \in BOOLEAN /\ task \in {"none", "ready", "waiting", "inside"}
TypeDeferred == savePending \in BOOLEAN /\ timer \in BOOLEAN /\ timerDue \in BOOLEAN
TypeSection ==
  /\ lock \in {"free", "refresh", "control", "timer", "send", "stop"}
  /\ pc \in {"idle", "drain", "evaluate", "write", "verify", "saved", "failed"}
  /\ purpose \in {"none", "complete", "scopes", "clear", "timer", "attempt", "final"}
  /\ batch \in [requests : SUBSET Request, reports : SUBSET Stamps]
  /\ control \in 0..MaxStamps
TypeStatus ==
  /\ life \in {"loaded", "running", "stopping", "stopped"}
  /\ engine \in BOOLEAN /\ indexed \in BOOLEAN
  /\ error \in BOOLEAN
  /\ hold \in {"kept", "over", "off"} /\ deadline \in BOOLEAN
TypeNews ==
  facts \in SUBSET Stamps /\ saveRequired \in BOOLEAN /\ stamps \in 0..MaxStamps
TypeSender == DOMAIN sender \in SUBSET Fired /\ sender \in [DOMAIN sender -> Sender]
TypeHistory ==
  /\ told \in [Stamps -> Nat] /\ dropped \in SUBSET Stamps
  /\ confirmed \in SUBSET Stamps
  /\ sent \in [Pairs -> Nat] /\ flushes \in Nat
TypeWithdrawn == withdrawn \in SUBSET Request
TypeBudget == faults \in 0..MaxFaults /\ crashes \in 0..MaxCrashes

TypeOK ==
  /\ TypeLedgers /\ TypeArrivals /\ TypeRefresh /\ TypeDeferred /\ TypeSection
  /\ TypeStatus /\ TypeNews /\ TypeSender /\ TypeHistory /\ TypeBudget
  /\ TypeWithdrawn

(* An installation whose Store file exists and holds no issue, just loaded *)
(* by async_load.                                                          *)
Init ==
  /\ mem = EmptyLedger /\ disk = EmptyLedger /\ verified = {}
  /\ pending = <<>> /\ captured = 0 /\ early = 0
  /\ requested = FALSE /\ task = "none"
  /\ savePending = FALSE /\ timer = FALSE /\ timerDue = FALSE
  /\ lock = "free" /\ pc = "idle" /\ purpose = "none"
  /\ batch = NoBatch /\ control = 0
  /\ life = "loaded" /\ engine = FALSE /\ indexed = FALSE
  /\ error = FALSE /\ hold = "off" /\ deadline = FALSE
  /\ facts = {} /\ saveRequired = FALSE /\ stamps = 0
  /\ sender = [f \in {} |-> FALSE]
  /\ told = [s \in Stamps |-> 0] /\ dropped = {} /\ confirmed = {}
  /\ sent = [p \in Pairs |-> 0] /\ flushes = 0
  /\ faults = 0 /\ crashes = 0 /\ withdrawn = {}

-----------------------------------------------------------------------------
(* Callbacks.  They never touch the ledger.                                *)

(* Mutant: a request made while the worker runs is taken for redundant.    *)
RequestRefreshIfIdle ==
  /\ requested' = (requested \/ task = "none")
  /\ task' = IF task = "none" THEN "ready" ELSE task

RequestRefresh ==
  /\ requested' = TRUE
  /\ task' = IF task = "none" THEN "ready" ELSE task

(* _state_changed and _entry_changed: the evidence is captured at once and *)
(* waits for the lock holder to ingest it.  Which entities and entries are *)
(* observed is known once an evaluation has built the index.               *)
Capture ==
  /\ running /\ indexed
  /\ captured < MaxObs
  /\ captured' = captured + 1
  /\ early' = IF engine THEN early ELSE captured + 1
  /\ pending' = Append(pending, captured + 1)
  /\ RequestRefresh
  /\ UNCHANGED <<ledgers, deferred, section, status, news, sender, history, budget,
                 withdrawn>>

(* _sweep_timer and the registry, repairs and automation callbacks.        *)
Sweep ==
  /\ running
  /\ RequestRefresh
  /\ UNCHANGED <<ledgers, arrivals, deferred, section, status, news, sender,
                 history, budget, withdrawn>>

(* The grace has passed and the watched integrations have loaded, or the   *)
(* cap is reached: _end_quiet will end the hold at the next evaluation.    *)
(* With a deadline scheduled, _timer asks for one.                         *)
HoldOver ==
  /\ running
  /\ hold = "kept" /\ hold' = "over"
  /\ IF deadline THEN RequestRefresh ELSE UNCHANGED refresh
  /\ deadline' = FALSE
  /\ UNCHANGED <<ledgers, arrivals, deferred, section, life, engine, indexed,
                 error, news, sender, history, budget, withdrawn>>

-----------------------------------------------------------------------------
(* The lock.                                                               *)

Take(who, where) == lock = "free" /\ lock' = who /\ pc' = where

Release ==
  /\ lock' = "free" /\ pc' = "idle" /\ purpose' = "none"
  /\ batch' = NoBatch /\ control' = 0
  /\ task' = IF task = "inside" THEN "ready" ELSE task

(* _save up to its first await: clear the flags, cancel the timer and take *)
(* the snapshot.  The ledger does not change until the save ends.          *)
BeginSave(why) ==
  /\ pc' = "write" /\ purpose' = why
  /\ savePending' = FALSE /\ saveRequired' = FALSE /\ timer' = FALSE

(* async_start: subscribe and run the first refresh under the free lock.   *)
Start ==
  /\ life = "loaded"
  /\ Take("refresh", "evaluate")
  /\ life' = "running"
  /\ hold' \in {"kept", "off"}
  /\ saveRequired' = TRUE
  /\ UNCHANGED <<ledgers, arrivals, refresh, deferred, purpose, batch, control,
                 engine, indexed, error, deadline, facts, stamps,
                 sender, history, budget, withdrawn>>

(* The loop test of _queued_refresh, up to waiting for the lock.           *)
RefreshLoop ==
  /\ task = "ready"
  /\ IF running /\ requested
       THEN requested' = FALSE /\ task' = "waiting"
       ELSE requested' = requested /\ task' = "none"
  /\ UNCHANGED <<ledgers, arrivals, deferred, section, status, news, sender,
                 history, budget, withdrawn>>

EnterRefresh ==
  /\ task = "waiting"
  /\ IF running
       THEN /\ Take("refresh", IF engine THEN "drain" ELSE "evaluate")
            /\ task' = "inside"
       ELSE lock = "free" /\ task' = "ready" /\ UNCHANGED <<lock, pc>>
  /\ UNCHANGED <<ledgers, arrivals, requested, deferred, purpose, batch, control,
                 status, news, sender, history, budget, withdrawn>>

EnterControl ==
  /\ available
  /\ Take("control", "drain")
  /\ control' = 0
  /\ UNCHANGED <<ledgers, arrivals, refresh, deferred, purpose, batch, status,
                 news, sender, history, budget, withdrawn>>

-----------------------------------------------------------------------------
Fault == faults < MaxFaults /\ faults' = faults + 1 /\ UNCHANGED crashes

(* Mutant: the id of a request is the ledger's number before it moves on.  *)
DecidesOffByOne(base, changed, asked, taken) ==
  /\ (changed \/ asked) => stamps < MaxStamps
  /\ mem' = [base EXCEPT
       !.changes = IF changed THEN @ \cup {stamps + 1} ELSE @,
       !.sequence = IF asked THEN @ + 1 ELSE @,
       !.outbox = (@ \ taken) \cup
         IF asked THEN {[id |-> base.sequence, body |-> stamps + 1]} ELSE {}]
  /\ stamps' = IF changed \/ asked THEN stamps + 1 ELSE stamps
  /\ withdrawn' = withdrawn \cup taken

(* Mutant: the id of a request is its place in the outbox.                 *)
DecidesByLength(base, changed, asked, taken) ==
  /\ (changed \/ asked) => stamps < MaxStamps
  /\ mem' = [base EXCEPT
       !.changes = IF changed THEN @ \cup {stamps + 1} ELSE @,
       !.outbox = (@ \ taken) \cup
         IF asked THEN {[id |-> Cardinality(base.outbox) + 1, body |-> stamps + 1]}
                  ELSE {}]
  /\ stamps' = IF changed \/ asked THEN stamps + 1 ELSE stamps
  /\ withdrawn' = withdrawn \cup taken

(* What the engine and the policy make of evidence or time: perhaps a      *)
(* change, perhaps a new request.  Requests that still wait may go: with a *)
(* change that ends what they say, because a later summary replaces them,  *)
(* or because sending was turned off or another policy activated.          *)
Decides(base, changed, asked, taken) ==
  /\ (changed \/ asked) => stamps < MaxStamps
  /\ mem' = [base EXCEPT
       !.changes = IF changed THEN @ \cup {stamps + 1} ELSE @,
       !.sequence = IF asked THEN @ + 1 ELSE @,
       !.outbox = (@ \ taken) \cup
         IF asked THEN {[id |-> base.sequence + 1, body |-> stamps + 1]} ELSE {}]
  /\ stamps' = IF changed \/ asked THEN stamps + 1 ELSE stamps
  /\ withdrawn' = withdrawn \cup taken

(* Every change is a fact that waits for its save.                         *)
Noted(changed) == IF changed THEN facts \cup {stamps + 1} ELSE facts

(* _failed drops every unpublished fact.                                   *)
Abandon(unpublished) ==
  /\ facts' = {} /\ dropped' = dropped \cup unpublished
  /\ error' = TRUE
  /\ Release
  /\ UNCHANGED <<life, engine, hold, deadline, told, confirmed, sent, flushes>>

(* async_stop catches its own failures and leaves the facts alone.         *)
AbandonStop(unpublished) ==
  /\ facts' = unpublished
  /\ life' = "stopped" /\ error' = TRUE
  /\ Release
  /\ UNCHANGED <<engine, indexed, hold, deadline, history>>

(* One turn of _drain_pending: the oldest observation is taken off the     *)
(* queue and ingested; the loop may yield after it with the lock held.     *)
DrainOne ==
  /\ pc = "drain" /\ pending # <<>>
  /\ pending' = Tail(pending)
  /\ \E changed, asked \in BOOLEAN, taken \in SUBSET mem.outbox :
       /\ Decides([mem EXCEPT !.evidence = Head(pending)], changed, asked, taken)
       /\ facts' = Noted(changed)
       /\ saveRequired' \in {saveRequired \/ changed, TRUE}
  /\ UNCHANGED <<disk, verified, captured, early, refresh, deferred, section,
                 status, sender, history, budget>>

(* The popped observation raises, perhaps half applied: it is gone, and    *)
(* the operation fails.                                                    *)
DrainFails ==
  /\ pc = "drain" /\ pending # <<>>
  /\ pending' = Tail(pending)
  /\ Fault
  /\ \E changed, asked \in BOOLEAN, taken \in SUBSET mem.outbox :
       /\ Decides(mem, changed, asked, taken)
       /\ saveRequired' \in {saveRequired \/ changed, TRUE}
       /\ IF lock = "stop" THEN AbandonStop(Noted(changed))
                          ELSE Abandon(Noted(changed)) /\ UNCHANGED indexed
  /\ UNCHANGED <<disk, verified, captured, early, requested, deferred, sender>>

(* The queue is empty: the final save begins, or a refresh goes on to read *)
(* Repairs, where it awaits.  A control goes on without awaiting.          *)
DrainDone ==
  /\ pc = "drain" /\ pending = <<>> /\ lock # "control"
  /\ IF lock = "stop"
       THEN BeginSave("final")
       ELSE pc' = "evaluate" /\ UNCHANGED <<purpose, savePending, saveRequired, timer>>
  /\ UNCHANGED <<ledgers, arrivals, refresh, timerDue, lock, batch, control,
                 status, facts, stamps, sender, history, budget, withdrawn>>

(* The first evaluation rebuilds engine and policy from the loaded         *)
(* envelope, which the file still holds; the delivery ledger stays as it   *)
(* is in memory.                                                           *)
Base == IF engine THEN mem ELSE [mem EXCEPT !.changes = disk.changes]

Drained == pc = "evaluate" \/ (lock = "control" /\ pc = "drain" /\ pending = <<>>)

EndQuiet == hold' = IF hold = "over" THEN "off" ELSE hold

(* _schedule, as far as the startup hold is concerned.                     *)
Schedule == deadline' = (hold' = "kept")

(* _complete saves at once what facts and error recovery describe, and     *)
(* what an activation, a collection or an ended control requires; evidence *)
(* alone waits for the timer.                                              *)
MustSave == lock = "control" \/ saveRequired \/ error \/ ~running

(* Mutant: the snapshot is marked pending, but no timer is armed.          *)
DeferSaveUnarmed == savePending' = TRUE /\ timer' = timer

DeferSave == savePending' = TRUE /\ timer' = TRUE

(* _evaluate, _handle, the operator action and _complete up to its first   *)
(* await: either a save begins or the save is deferred to the timer.       *)
Evaluate ==
  /\ Drained
  /\ EndQuiet
  /\ \E changed, asked, required \in BOOLEAN, taken \in SUBSET Base.outbox :
       /\ Decides(Base, changed, asked, taken)
       /\ facts' = Noted(changed)
       /\ IF MustSave \/ required \/ mem'.outbox # {} \/ facts' # {}
            THEN /\ BeginSave("complete")
                 /\ control' = IF lock = "control" /\ changed THEN stamps + 1 ELSE 0
                 /\ UNCHANGED <<lock, batch, task, error, deadline>>
            ELSE /\ DeferSave /\ saveRequired' = FALSE
                 /\ error' = FALSE
                 /\ Schedule
                 /\ Release
  /\ engine' = TRUE /\ indexed' = TRUE
  /\ UNCHANGED <<disk, verified, arrivals, requested, timerDue, life, sender,
                 history, budget>>

(* Reading Repairs, discovery, the engine or the policy raises part way:   *)
(* the ledger may already hold the change whose fact is dropped.           *)
EvaluateFails ==
  /\ Drained
  /\ Fault
  /\ indexed' \in {indexed, TRUE}
  /\ \E changed, asked \in BOOLEAN, taken \in SUBSET Base.outbox :
       /\ Decides(Base, changed, asked, taken)
       /\ saveRequired' \in {saveRequired \/ changed, TRUE}
       /\ Abandon(Noted(changed))
  /\ UNCHANGED <<disk, verified, arrivals, requested, deferred, sender>>

-----------------------------------------------------------------------------
(* _save after the snapshot was taken.                                     *)

(* The bytes equal the last verified write: nothing is written.            *)
SkipWrite ==
  /\ pc = "write" /\ verified = {mem}
  /\ pc' = "saved"
  /\ UNCHANGED <<ledgers, arrivals, refresh, deferred, lock, purpose, batch,
                 control, status, news, sender, history, budget, withdrawn>>

(* Store.async_save replaces the file atomically.                          *)
Write ==
  /\ pc = "write" /\ verified # {mem}
  /\ verified' = {} /\ disk' = mem /\ withdrawn' = {}
  /\ pc' = "verify"
  /\ UNCHANGED <<mem, arrivals, refresh, deferred, lock, purpose, batch, control,
                 status, news, sender, history, budget>>

(* Mutant: the digest is remembered before the write is verified.          *)
WriteFailsRemembered ==
  /\ pc = "write" /\ verified # {mem}
  /\ Fault
  /\ verified' = {mem}
  /\ pc' \in {"failed", "verify"}
  /\ UNCHANGED <<mem, disk, arrivals, refresh, deferred, lock, purpose, batch,
                 control, status, news, sender, history, withdrawn>>

(* Store.async_save raises, or logs the failure and returns.               *)
WriteFails ==
  /\ pc = "write" /\ verified # {mem}
  /\ Fault
  /\ verified' = {}
  /\ pc' \in {"failed", "verify"}
  /\ UNCHANGED <<mem, disk, arrivals, refresh, deferred, lock, purpose, batch,
                 control, status, news, sender, history, withdrawn>>

(* Mutant: whatever Store.async_save left in the file is trusted.          *)
VerifyTrusting ==
  /\ pc = "verify"
  /\ verified' = {mem} /\ pc' = "saved"
  /\ UNCHANGED <<mem, disk, arrivals, refresh, deferred, lock, purpose, batch,
                 control, status, news, sender, history, budget, withdrawn>>

(* The read-back decides: equal content verifies the save.                 *)
Verify ==
  /\ pc = "verify"
  /\ IF disk = mem
       THEN verified' = {mem} /\ pc' = "saved"
       ELSE verified' = verified /\ pc' = "failed"
  /\ UNCHANGED <<mem, disk, arrivals, refresh, deferred, lock, purpose, batch,
                 control, status, news, sender, history, budget, withdrawn>>

(* The file holds the snapshot, but it cannot be read back.                *)
VerifyFails ==
  /\ pc = "verify" /\ disk = mem
  /\ Fault
  /\ pc' = "failed"
  /\ UNCHANGED <<ledgers, arrivals, refresh, deferred, lock, purpose, batch,
                 control, status, news, sender, history, withdrawn>>

-----------------------------------------------------------------------------
(* What follows a verified save.  The code goes on without awaiting.       *)

Finish ==
  /\ error' = FALSE
  /\ deadline' = (running /\ hold = "kept")
  /\ confirmed' = IF lock = "control" /\ control # 0
                    THEN confirmed \cup {control} ELSE confirmed
  /\ Release
  /\ UNCHANGED <<savePending, saveRequired, timer>>

(* Notifications.publish: fire every request of the outbox, one sender     *)
(* task each, and clear the outbox; _flush_events then saves again.        *)
Publish(ledger) ==
  /\ LET fired == {[flush |-> flushes + 1, id |-> r.id, body |-> r.body] : r \in ledger.outbox}
     IN  sender' = [f \in DOMAIN sender \cup fired |->
                      IF f \in DOMAIN sender THEN sender[f]
                      ELSE [at |-> "lock", channel |-> CHOOSE c \in Channels : TRUE,
                            todo |-> Channels]]
  /\ flushes' = flushes + 1
  /\ mem' = [ledger EXCEPT !.outbox = {}]
  /\ BeginSave("clear")
  /\ UNCHANGED <<error, deadline, confirmed, lock, task>>

(* Mutant: membership reports are saved with whatever is saved next.       *)
NewReportsLater == {}

(* Report scopes that the requests of this publication still need.         *)
NewReports == ({r.body : r \in mem.outbox} \cap LongBodies) \ mem.reports

(* Mutant: the outbox is cleared in the save that adds the reports.        *)
WithReportsCleared == [mem EXCEPT !.reports = @ \cup NewReports, !.outbox = {}]

WithReports == [mem EXCEPT !.reports = @ \cup NewReports]

(* Mutant: the list of facts is not replaced by an empty one.              *)
PublishFactsKept ==
  /\ told' = [s \in Stamps |-> IF s \in facts THEN told[s] + 1 ELSE told[s]]
  /\ facts' = facts

PublishFacts ==
  /\ told' = [s \in Stamps |-> IF s \in facts THEN told[s] + 1 ELSE told[s]]
  /\ facts' = {}

(* Mutant: facts wait until the requests of the same save are out.         *)
TellFactsLate ==
  IF running /\ mem.outbox = {} THEN PublishFacts ELSE UNCHANGED <<told, facts>>

TellFacts == IF running THEN PublishFacts ELSE UNCHANGED <<told, facts>>

(* _complete after its save: _publish_facts, then _flush_events.           *)
AfterComplete ==
  /\ pc = "saved" /\ purpose = "complete"
  /\ TellFacts
  /\ IF running /\ ~startup_quiet /\ mem.outbox # {}
       THEN /\ batch' = [requests |-> mem.outbox, reports |-> mem.reports]
            /\ IF NewReports # {}
                 THEN /\ mem' = WithReports
                      /\ BeginSave("scopes")
                      /\ UNCHANGED <<sender, flushes, error, deadline, confirmed,
                                     lock, task>>
                 ELSE Publish(mem)
            /\ UNCHANGED control
       ELSE Finish /\ UNCHANGED <<mem, sender, flushes>>
  /\ UNCHANGED <<disk, verified, arrivals, requested, timerDue, life, engine,
                 indexed, hold, stamps, dropped, sent, budget, withdrawn>>

AfterScopes ==
  /\ pc = "saved" /\ purpose = "scopes"
  /\ Publish(mem)
  /\ UNCHANGED <<disk, verified, arrivals, requested, timerDue, batch, control,
                 life, engine, indexed, hold, facts, stamps, told,
                 dropped, sent, budget, withdrawn>>

AfterClear ==
  /\ pc = "saved" /\ purpose = "clear"
  /\ Finish
  /\ UNCHANGED <<ledgers, arrivals, requested, timerDue, life, engine, indexed,
                 hold, facts, stamps, sender, told, dropped, sent,
                 flushes, budget, withdrawn>>

AfterTimer ==
  /\ pc = "saved" /\ purpose = "timer"
  /\ Release
  /\ UNCHANGED <<ledgers, arrivals, requested, deferred, status,
                 news, sender, history, budget, withdrawn>>

(* The attempt is on disk: the lock is released and the transport called.  *)
AfterAttempt ==
  /\ pc = "saved" /\ purpose = "attempt"
  /\ sender' = [f \in DOMAIN sender |->
                  IF sender[f].at = "save" THEN [sender[f] EXCEPT !.at = "transport"]
                  ELSE sender[f]]
  /\ Release
  /\ UNCHANGED <<ledgers, arrivals, requested, deferred, status,
                 news, history, budget, withdrawn>>

(* async_stop publishes the facts of the final save, never the outbox.     *)
AfterFinal ==
  /\ pc = "saved" /\ purpose = "final"
  /\ PublishFacts
  /\ life' = "stopped"
  /\ Release
  /\ UNCHANGED <<ledgers, arrivals, requested, deferred, engine, indexed,
                 error, hold, deadline, saveRequired, stamps, sender,
                 dropped, confirmed, sent, flushes, budget, withdrawn>>

-----------------------------------------------------------------------------
(* What follows a failed save.                                             *)

(* The save of _complete, or one of the two saves of _flush_events: roll   *)
(* the report scopes back, or put the published requests back in front.    *)
SectionFails ==
  /\ pc = "failed" /\ purpose \in {"complete", "scopes", "clear"}
  /\ mem' = CASE purpose = "complete" -> mem
              [] purpose = "scopes" -> [mem EXCEPT !.reports = batch.reports]
              [] purpose = "clear" -> [mem EXCEPT !.outbox = batch.requests \cup @]
  /\ Abandon(facts)
  /\ UNCHANGED <<disk, verified, arrivals, requested, deferred, indexed,
                 saveRequired, stamps, sender, budget, withdrawn>>

(* _pending_save_timer calls _failed.                                      *)
TimerFails ==
  /\ pc = "failed" /\ purpose = "timer"
  /\ Abandon(facts)
  /\ UNCHANGED <<ledgers, arrivals, requested, deferred, indexed, saveRequired,
                 stamps, sender, budget, withdrawn>>

(* async_send_notification rolls the attempt back and ends; the runtime's  *)
(* error stays as it is.                                                   *)
AttemptFails ==
  /\ pc = "failed" /\ purpose = "attempt"
  /\ \E f \in DOMAIN sender :
       /\ sender[f].at = "save"
       /\ mem' = [mem EXCEPT !.attempted = @ \ {<<f.id, sender[f].channel>>}]
       /\ sender' = [sender EXCEPT ![f].at = "done"]
  /\ Release
  /\ UNCHANGED <<disk, verified, arrivals, requested, deferred, status, news,
                 history, budget, withdrawn>>

FinalFails ==
  /\ pc = "failed" /\ purpose = "final"
  /\ AbandonStop(facts)
  /\ UNCHANGED <<ledgers, arrivals, requested, deferred, saveRequired, stamps,
                 sender, budget, withdrawn>>

-----------------------------------------------------------------------------
(* The deferred save.                                                      *)

TimerFires ==
  /\ timer
  /\ timer' = FALSE /\ timerDue' = TRUE
  /\ UNCHANGED <<ledgers, arrivals, refresh, savePending, section, status, news,
                 sender, history, budget, withdrawn>>

(* _pending_save_timer under the lock.                                     *)
EnterTimer ==
  /\ timerDue /\ lock = "free"
  /\ timerDue' = FALSE
  /\ IF running /\ savePending
       THEN lock' = "timer" /\ BeginSave("timer")
       ELSE UNCHANGED <<lock, pc, purpose, savePending, saveRequired, timer>>
  /\ UNCHANGED <<ledgers, arrivals, refresh, batch, control, status, facts, stamps,
                 sender, history, budget, withdrawn>>

-----------------------------------------------------------------------------
(* async_send_notification: one task per fired request.                    *)

(* Mutant: no look at the attempts recorded before.                        *)
EnterSendAgain(f, c) ==
  /\ sender[f].at = "lock" /\ c \in sender[f].todo
  /\ lock = "free" /\ lock' = "send"
  /\ mem' = [mem EXCEPT !.attempted = @ \cup {<<f.id, c>>}]
  /\ sender' = [sender EXCEPT ![f] =
                  [at |-> "save", channel |-> c, todo |-> @.todo \ {c}]]
  /\ BeginSave("attempt")
  /\ UNCHANGED <<disk, verified, arrivals, refresh, timerDue, batch, control,
                 status, facts, stamps, history, budget, withdrawn>>

(* The next channel under the lock: stage the attempt and save it.         *)
EnterSend(f, c) ==
  /\ sender[f].at = "lock" /\ c \in sender[f].todo
  /\ <<f.id, c>> \notin mem.attempted
  /\ lock = "free" /\ lock' = "send"
  /\ mem' = [mem EXCEPT !.attempted = @ \cup {<<f.id, c>>}]
  /\ sender' = [sender EXCEPT ![f] =
                  [at |-> "save", channel |-> c, todo |-> @.todo \ {c}]]
  /\ BeginSave("attempt")
  /\ UNCHANGED <<disk, verified, arrivals, refresh, timerDue, batch, control,
                 status, facts, stamps, history, budget, withdrawn>>

(* Already attempted, or an opening whose monitoring window has ended; a   *)
(* request that is no longer authorised skips every channel.               *)
SkipSend(f, c) ==
  /\ sender[f].at = "lock" /\ c \in sender[f].todo
  /\ lock = "free"
  /\ sender' = [sender EXCEPT ![f].todo = @ \ {c}]
  /\ UNCHANGED <<ledgers, arrivals, refresh, deferred, section, status, news,
                 history, budget, withdrawn>>

(* The transport call, outside the lock; its failure is only recorded.     *)
Transport(f) ==
  /\ sender[f].at = "transport"
  /\ sender' = [sender EXCEPT ![f].at = "lock"]
  /\ sent' = [sent EXCEPT ![<<f.id, sender[f].channel>>] = @ + 1]
  /\ UNCHANGED <<ledgers, arrivals, refresh, deferred, section, status, news,
                 told, dropped, confirmed, flushes, budget, withdrawn>>

-----------------------------------------------------------------------------
(* async_stop, up to the lock and under it.                                *)

Stop ==
  /\ running
  /\ life' = "stopping" /\ timer' = FALSE /\ deadline' = FALSE
  /\ UNCHANGED <<ledgers, arrivals, refresh, savePending, timerDue, section,
                 engine, indexed, error, hold, news, sender, history,
                 budget, withdrawn>>

(* Mutant: the final save does not wait for captured observations.         *)
EnterStopUndrained ==
  /\ life = "stopping"
  /\ IF engine
       THEN lock = "free" /\ lock' = "stop" /\ BeginSave("final") /\ UNCHANGED life
       ELSE /\ lock = "free" /\ life' = "stopped"
            /\ UNCHANGED <<lock, pc, purpose, savePending, saveRequired, timer>>
  /\ UNCHANGED <<ledgers, arrivals, refresh, timerDue, batch, control, engine,
                 indexed, error, hold, deadline, facts, stamps, sender,
                 history, budget, withdrawn>>

EnterStop ==
  /\ life = "stopping"
  /\ IF engine
       THEN Take("stop", "drain") /\ UNCHANGED life
       ELSE lock = "free" /\ life' = "stopped" /\ UNCHANGED <<lock, pc>>
  /\ UNCHANGED <<ledgers, arrivals, refresh, deferred, purpose, batch, control,
                 engine, indexed, error, hold, deadline, news, sender,
                 history, budget, withdrawn>>

(* The process exits, at any point, and Home Assistant loads the           *)
(* integration again: only the Store file is left.                         *)
Restart ==
  /\ crashes < MaxCrashes /\ crashes' = crashes + 1
  /\ mem' = disk /\ verified' = {}
  /\ pending' = <<>>
  /\ requested' = FALSE /\ task' = "none"
  /\ savePending' = FALSE /\ timer' = FALSE /\ timerDue' = FALSE
  /\ lock' = "free" /\ pc' = "idle" /\ purpose' = "none"
  /\ batch' = NoBatch /\ control' = 0
  /\ life' = "loaded" /\ engine' = FALSE /\ indexed' = FALSE
  /\ error' = FALSE /\ hold' = "off" /\ deadline' = FALSE
  /\ facts' = {} /\ saveRequired' = FALSE
  /\ dropped' = dropped \cup facts /\ withdrawn' = {}
  /\ sender' = [f \in DOMAIN sender |-> [sender[f] EXCEPT !.at = "done"]]
  /\ UNCHANGED <<disk, captured, early, stamps, told, confirmed, sent, flushes, faults>>

-----------------------------------------------------------------------------
Callbacks == Capture \/ Sweep \/ HoldOver \/ TimerFires \/ Stop
Refreshing == Start \/ RefreshLoop \/ EnterRefresh \/ EnterControl
Working == DrainOne \/ DrainFails \/ DrainDone \/ Evaluate \/ EvaluateFails
Saving == SkipWrite \/ Write \/ WriteFails \/ Verify \/ VerifyFails
Saved == AfterComplete \/ AfterScopes \/ AfterClear \/ AfterTimer
           \/ AfterAttempt \/ AfterFinal
SaveFailed == SectionFails \/ TimerFails \/ AttemptFails \/ FinalFails
Sending ==
  \E f \in DOMAIN sender :
    Transport(f) \/ \E c \in Channels : EnterSend(f, c) \/ SkipSend(f, c)

Next == Callbacks \/ Refreshing \/ Working \/ Saving \/ Saved \/ SaveFailed
          \/ EnterTimer \/ Sending \/ EnterStop \/ Restart

Spec == Init /\ [][Next]_vars

(* The event loop runs every task that is ready and completes every        *)
(* executor call; time passes; asyncio.Lock serves its waiters in order,   *)
(* so one of them that waits for the lock gets it (strong fairness).       *)
(* Nothing obliges an observation, a control, a stop, a fault or a restart.*)
Fairness ==
  /\ WF_vars(Start) /\ WF_vars(RefreshLoop) /\ SF_vars(EnterRefresh)
  /\ WF_vars(Sweep) /\ WF_vars(HoldOver)
  /\ WF_vars(TimerFires) /\ SF_vars(EnterTimer) /\ SF_vars(EnterStop)
  /\ WF_vars(DrainOne) /\ WF_vars(DrainDone) /\ WF_vars(Evaluate)
  /\ WF_vars(SkipWrite \/ Write) /\ WF_vars(Verify)
  /\ WF_vars(Saved) /\ WF_vars(SaveFailed)

FairSpec == Spec /\ Fairness

-----------------------------------------------------------------------------
(* Safety.                                                                 *)

Publications == DOMAIN sender
Names(f, r) == f.id = r.id /\ f.body = r.body
IsFired(r) == \E f \in Publications : Names(f, r)

(* A fact is published only when its change is in the Store file, whatever *)
(* failed or exited in between (_complete, async_stop).                    *)
OnlyDurableFacts == \A s \in Stamps : told[s] > 0 => s \in disk.changes

(* No fact is published twice, not even when its save is repeated or the   *)
(* integration restarts (_publish_facts, _failed).                         *)
FactsAtMostOnce == \A s \in Stamps : told[s] <= 1

(* When a request is fired and its change is durable, the fact of the same *)
(* change was published before, or was given up by a failure or an exit:   *)
(* facts come before requests (_complete).                                 *)
FactBeforeRequest ==
  \A f \in Publications :
    f.body \in disk.changes => told[f.body] > 0 \/ f.body \in dropped

(* A delivery id never names two different requests, across failed saves,  *)
(* replays and restarts: consumers deduplicate by it (DeliveryState).      *)
IdNamesOneRequest ==
  \A f, g \in Publications : f.id = g.id => f.body = g.body

(* No transport is called for an attempt that the Store file does not      *)
(* hold (async_send_notification).                                         *)
AttemptSavedBeforeSent ==
  /\ \A f \in Publications :
       sender[f].at = "transport" => <<f.id, sender[f].channel>> \in disk.attempted
  /\ \A p \in Pairs : sent[p] > 0 => p \in disk.attempted

(* A message goes to a channel at most once per delivery id, although its  *)
(* event may be replayed (prepare_attempt).                                *)
SentAtMostOnce == \A p \in Pairs : sent[p] <= 1

(* An operator control whose caller was told of success is in the Store    *)
(* file and stays there (async_control).                                   *)
ConfirmedDurable == confirmed \subseteq disk.changes

(* A stop that reports no error leaves nothing behind: every captured      *)
(* observation was ingested, every fact published and the ledger saved,    *)
(* apart from attempts that sending tasks still record (async_stop).       *)
FinalSaveComplete ==
  life = "stopped" /\ engine /\ ~error =>
    /\ facts = {} /\ pending = <<>>
    /\ disk = [mem EXCEPT !.attempted = disk.attempted]

(* An observation captured by an accepted monitor never waits without a    *)
(* refresh that will take it in: no wakeup is lost (_request_refresh,      *)
(* _queued_refresh).                                                       *)
PendingHasOwner ==
  running /\ ~error /\ pending # <<>> /\ captured > early =>
    (requested /\ task # "none") \/ task = "waiting" \/ pc = "drain"

(* A request that needs a membership report is fired only after the report *)
(* was saved (_flush_events, NotificationReports).                         *)
ReportsSavedBeforeFired ==
  [][\A f \in DOMAIN sender' \ DOMAIN sender :
       f.body \in LongBodies => f.body \in disk.reports]_vars

(* The runtime implements the promise stated over the Store file alone.    *)
Promise == INSTANCE DurablePublication WITH
  Changes <- Stamps, Attempts <- Pairs, ledger <- disk, published <- told,
  asked <- {[id |-> f.id, body |-> f.body] : f \in Publications}, called <- sent

ImplementsPromise == Promise!SpecAbs

-----------------------------------------------------------------------------
(* Liveness.                                                               *)

(* What still has to end: an observation nobody took in, evidence that is  *)
(* not in the Store file, a saved request neither fired nor withdrawn, an  *)
(* unload or shutdown under way.                                           *)
Waiting ==
  \/ life = "stopping"
  \/ /\ running
     /\ \/ pending # <<>>
        \/ mem.evidence # disk.evidence
        \/ \E r \in disk.outbox \ withdrawn : ~IsFired(r)

(* What was captured, taken in, saved or begun comes to its end: whatever  *)
(* saves and passes fail and however the worker, the timer, the senders    *)
(* and a stop interleave, there is again a moment when nothing waits.  A   *)
(* behaviour makes finitely many observations and requests; the startup    *)
(* hold ends; a sweep repeats what failed (_queued_refresh, _defer_save,   *)
(* _flush_events, async_stop).                                             *)
Progress == []<>~Waiting

-----------------------------------------------------------------------------
(* What the documentation says and the code does not do.                   *)

(* docs/adr/0096: a deferred save happens at most 15 seconds later.  A     *)
(* failed save of an attempt cancels the timer and reports no error.       *)
DeferredSaveArmed ==
  running /\ engine /\ ~error /\ lock = "free" /\ mem.evidence # disk.evidence =>
    timer \/ timerDue

(* docs/spec.md: new arrivals are drained before current-state             *)
(* reconciliation.  async_refresh awaits Repairs between the two.          *)
DrainedBeforeReconciliation == [][Evaluate => pending = <<>>]_vars
=============================================================================
