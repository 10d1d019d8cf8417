# Verification of Homeostatic

Homeostatic is a Home Assistant custom integration. It takes state reports and registry events from
Home Assistant, lets the external `health_tree` library decide which issues exist and whom to tell,
keeps one ledger of all of it in a Store file, and publishes facts and notification requests as
events. A panel in the browser shows that ledger, edits the settings and acts on issues. This
directory holds TLA+ models of the parts whose correctness depends on order,
interleaving, failure and restart, the TLC configurations that check them, and proofs checked by
TLAPS.

Paths below are relative to `custom_components/homeostatic/` unless they start with `docs/`.

## 1. Inventory

| Component | State it keeps | Operations | Talks to |
|---|---|---|---|
| **Runtime boundary** (`runtime.py`) | queue of captured observations, refresh flag and task, lock, deferred-save flag and timer, digest of the verified bytes, waiting facts, error, startup hold | callbacks, `async_refresh`, operator controls, `_complete`, `_save`, `_flush_events`, `_pending_save_timer`, `async_send_notification`, `async_start`, `async_stop` | owns every other part; Store file; event bus; engine and policy of the library |
| **Requests** (`delivery.py`, `notifications.py`) | messages per recipient and issue, outbox, sequence number, attempts | `record`, `_group`, `record_group`, `record_collection`, `prepare_reports`, `deactivate`, `publish`, `requeue`, `prepare_attempt` | called by the runtime under its lock |
| **Membership reports** (`notification_reports.py`) | bounded registry of link scopes with expiry | retain, prune, restore, look up | filled by `publish`, rolled back by the runtime |
| **Phone actions** (`phone_actions.py`) | bounded registry of button tokens | create at an attempt, prune, consume | filled by `prepare_attempt`, consumed by an operator control |
| **Reload and settings** (`__init__.py`, `monitoring_runtime.py`, `config.py`) | the config entry; old and new runtime | apply in place or reload, unload, forward fired requests to sending tasks | two runtimes use one Store file |
| **Controls, history** (`controls.py`, `history.py`) | active controls with expiry, bounded history | add, remove, expire, replay | written under the lock |
| **Openings** (`left_open.py`) | countdown, qualification, monitoring window | evaluate a report, snapshot, restore | producers |
| **Producers** (`producers.py`, `evidence.py`, `host_health.py`, `temperature.py`, `ups.py`, ...) | per source: qualification, countdowns, window | ingest a report, evaluate at a time, snapshot, restore | called by drain and evaluation |
| **Repairs and automations** (`repairs.py`, `broken_automations.py`, `automation_alerts.py`) | active conditions | read (awaits), apply | read by the refresh |
| **Catalog and enrollment** (`catalog.py`, `enrollment.py`, `rules.py`, ...) | enrolled sources | discover, reconcile | rebuilt by an evaluation |
| **Facts** (`facts.py`) | none | translate a change into an event | runtime |
| **Composition and presentation** (notification texts, entities, services) | none durable | render, validate | read the runtime |
| **Dashboard queries** (`dashboard.py`) | last publication, catalog revision and delta, revision of the settings | publish to subscribers, answer a page, save settings under a revision | the panel, over websockets |
| **Panel data store** (`frontend/model.mjs`) | merged data, the baseline of the next event, catalog reads | connect, merge an event, read the catalog in pages, retry, leave | one store per connection, shared by the cards |
| **Settings editors** (`frontend/scoped-configuration.mjs`, `panel-drafts.mjs`, `reusable-editors.mjs`, `installation-settings.mjs`, ...) | saved settings, the draft, what was loaded when a scope was touched | initialise, rebase, type, save a scope, delete, discard, hand over | survive the panel element; saved by the dashboard |
| **Panel reads and actions** (`frontend/homeostatic.js`, `device-issues.mjs`, `history-controls.mjs`) | selected source, open detail, report, their reads; the action under way | read, page, invalidate; act on an issue, answer a device's issues | store, dashboard queries, operator controls |
| **Navigation** (`frontend/workspace-navigation.mjs`) | entries of views, the browser's session history | path and parse, capture, finish, restore, contextual Back | every click; Home Assistant's router |
| **Source selection** (`frontend/source-selection.mjs`, `entity-selection.mjs`) | the draft policy, the list's search and filters | list, tick, tick a branch, forget, switch the mode | catalog in the store; `rules.py` applies the result |
| **Monitoring workspace** (`frontend/sources-workspace.mjs`, `issues-workspace.mjs`, `issue-monitoring.mjs`, `source-monitoring.mjs`, ...) | grouping, selection, expanded groups, filters; reviewed plans | build and browse trees, reveal a link, group issues, stop monitoring | store, TopoMation locations, scoped saves |

What is hard, and where it comes from:

- *One lock, many awaits.* Refreshes, controls, the deferred save, every transport attempt and the
  final save take turns on one `asyncio.Lock`. Its holder awaits the executor and the Repairs read;
  callbacks, an unload or a process exit come in at each of those points.
- *A save that may not have happened.* `Store.async_save` can log a failure and return, so every
  save is read back, and a digest of the verified bytes allows the next equal save to be skipped.
- *Publication around saves.* Facts follow the first save, requests follow a second (with their
  membership reports), and a third save clears the outbox. Each may fail, and the process may exit
  between any two of them.
- *Requests that wait.* The startup hold, a failed save or a restart leaves requests in the outbox
  while issues end, move between summaries and alert again.
- *Time and late reports.* Reports are evaluated at the time of their capture, current states at the
  present time, and the two can come in either order; windows start and end meanwhile, clocks change,
  a restart forgets unfinished waits.
- *A browser that lags.* One stream of events, pages of the catalog, chains of reads and saves are
  under way together over a connection that drops; the element that asked may be gone when the
  answer comes, and other administrators save in between.
- *State in three places.* What the user sees is in the panel, in the address and in the browser's
  session history, and each of them can move alone.

What makes each part correct:

- runtime boundary: nothing is told that is not saved; nothing is told or sent twice; ids are never
  reused; no wakeup, observation or saved request is lost; a clean stop leaves nothing behind;
- requests: what waits is current; alerts are neither lost nor repeated; what a phone shows is what
  is recorded; what no longer applies is withdrawn from the phones that show it;
- registries: bounded, evicting what expires first, and never rolled back over a later change;
- reload: the file never goes back behind what a later runtime saved;
- producers: a restart, a window boundary and missing reports in any order neither raise early nor
  keep an issue too long.
- panel data store: what it shows is one publication and one catalog, it catches up, and it blames the
  connection only for faults;
- editors: unsaved work survives everything but its own discard, a save writes its scope only and a
  deletion leaves nothing the server would refuse;
- reads and actions: a late answer never lands in another view, no change is missed, a claimed action
  was done for the issue it was asked for;
- navigation: Back leads to the view that was left;
- source selection: the list shows what will be monitored, a control changes that and no more;
- monitoring workspace: every source and issue can be reached, links end at a visible row, a stop
  changes exactly what was reviewed.

The hazards, each at its line and with the properties that watch it, are listed in `PROJECT.json`.

## 2. Modules

| Module | What it is |
|---|---|
| `Runtime` | the save and publish boundary: state, actions, fairness, properties |
| `DurablePublication` | what consumers of events and notified people are promised, over the Store file alone |
| `RuntimeInvariant` | the inductive invariant `IInv` of `Runtime` |
| `RuntimeSafety` | proofs of `TypeOK`, of `IInv`, of the safety properties, and that `Runtime` implements `DurablePublication` |
| `Delivery` | how requests are composed, replaced and withdrawn |
| `DeliverySafety` | proofs of the properties of `Delivery` |
| `LeftOpen` | an opening watched by a left-open policy, from report to alert |
| `LeftOpenSafety` | proofs of the properties of `LeftOpen` |
| `DashboardStore` | the panel's copy of the monitoring state, with the publication that feeds it |
| `StoreSafety` | proofs of the safety properties of `DashboardStore` |
| `ScopedSettings` | drafts over saved settings, saved one scope at a time |
| `SettingsSafety` | what the operations on one draft keep; proofs of the safety properties of `ScopedSettings` |
| `PanelReads` | what the panel reads beside the stream: source, detail, report |
| `IssueActions` | acting on issues over those reads; extends `PanelReads` |
| `PanelInvariant` | the inductive invariants `Inv` and `ReadInv` of `IssueActions` |
| `PanelSafety` | proofs of the properties of `IssueActions` |
| `Navigation` | paths, stored views and the browser's session history |
| `SourceSelection` | choosing the sources of a policy |
| `PagesSafety` | proofs of the properties of `SourceSelection`, and of the invariant of `Navigation` |
| `SourceTrees`, `IssueViews`, `IssueRows` | the trees of the Monitoring page, the visibility and grouping of issues, and what their rows and dialogs say, as operators |
| `MonitoringPage` | browsing those trees while source lists and locations arrive |
| `Workspace` | issues, sources and Stop Monitoring together; extends `MonitoringPage` |
| `WorkspaceSafety` | proofs about what issues say, where sources and links lead, and Stop Monitoring |
| `MCRuntime`, `MCDelivery`, `MCMonitors`, `MCDashboard`, `MCSettings`, `MCPanel`, `MCNavigation`, `MCSelection`, `MCWorkspace` | what TLC runs; the cfg files give the constants |

`Runtime` and `Delivery` share the outbox. `Runtime` treats its contents as opaque (a choice of new
requests and of waiting requests that go) and looks at numbering, saving and publishing;
`LeftOpen` is one source of changes and keeps the order of the sections but not their failures;
`Delivery` looks at which requests a sequence of decisions produces and takes saving, publishing
and restarting as single steps. What `Runtime` assumes of the composition is weak: a new request
gets the next number. A waiting request may disappear in any pass, as `_group` replaces an unsent summary by a
new request and `deactivate` drops what waits, both without a change of an episode; `withdrawn` remembers such
requests until the next write, so that the promise can tell them from requests that got lost.

The panel's modules see the runtime as a server that publishes evidence and saves settings. Each
takes of the others what it needs: `PanelReads` a stream in order, which `DashboardStore` shows to
converge; `Workspace` a save of one scope, which `ScopedSettings` details; `IssueActions` an operator
control that is saved before it is answered, which `Runtime` proves (a confirmed control is in
the Store file).

### 2.1 Runtime

The holder of the lock walks through `pc`: `drain`, `evaluate`, `write`, `verify`, `saved` or
`failed`. Between two of these the code awaits or may yield; inside one it cannot be interrupted,
because asyncio switches tasks only at an await. `purpose` says which of the saves is under way.

| Code | Model |
|---|---|
| `_pending`, `_refresh_requested`, `_refresh_task` | `pending`, `requested`, `task` |
| `_lock`, and the holder's place in its coroutine | `lock`, `pc`, `purpose`, `batch`, `control` |
| `snapshot()`, the Store file, `_stored_digest` | `mem`, `disk`, `verified` |
| `_save_pending`, `_pending_save_cancel`, a fired timer whose coroutine waits | `savePending`, `timer`, `timerDue` |
| `_facts`, `_save_required`, `error` | `facts`, `saveRequired`, `error` |
| `_quiet_since`, `_deadline_cancel` | `hold`, `deadline` |
| one `async_send_notification` task per fired event | `sender` |
| `_state_changed`, `_entry_changed`; sweep, registry and Repairs callbacks | `Capture`; `Sweep` |
| `_request_refresh`, `_queued_refresh` | `RequestRefresh`, `RefreshLoop`, `EnterRefresh` |
| `async_control` and its relatives | `EnterControl`, then the shared actions |
| `_drain_pending` | `DrainOne`, `DrainFails`, `DrainDone` |
| `_evaluate`, `_handle`, `_complete` up to its save | `Evaluate`, `EvaluateFails` |
| `_save` | `BeginSave`, `SkipWrite`, `Write`, `WriteFails`, `Verify`, `VerifyFails` |
| `_complete` after the save, `_flush_events`, `publish`, `requeue`, `_failed` | `AfterComplete`, `AfterScopes`, `AfterClear`, `SectionFails` |
| `_pending_save_timer` | `TimerFires`, `EnterTimer`, `AfterTimer`, `TimerFails` |
| `async_send_notification` | `EnterSend`, `SkipSend`, `AfterAttempt`, `AttemptFails`, `Transport` |
| `async_start`, `async_stop` | `Start`; `Stop`, `EnterStop`, `AfterFinal`, `FinalFails` |
| process exit and `async_load` | `Restart` |

The ledger is reduced to what the properties tell apart: the last observation taken in, the set of
changes, the sequence number, the outbox, the report scopes and the attempts. A change or request
is a number (a *stamp*); what engine and policy decide is a free choice of whether a change or
request is made and which waiting requests go; what else asks for a save at once (an activation, a collection that
comes due, an ended control) is a free choice too. `told`, `dropped`, `confirmed`, `sent`,
`early`, `withdrawn` and `flushes` are history: no action depends on the first six; `flushes` only tells two
publications of the same request apart.

### 2.2 Delivery

One recipient and one inline route. `state` is the saved `DeliveryState` (messages per issue and the
outbox); the operators `Group`, `MoveOut`, `Notify`, `Resolve`, `PrepareReports` and `Deactivate` are its
methods as functions from state to state, and the actions are what calls them.

| Code (`delivery.py` unless stated) | Model |
|---|---|
| `_group` | `Group`, `Noisy`, `Replace` |
| `record` of a `Notification` | `GroupFor`, `MoveOut`, `Withdraw`, `Notify` |
| `record` of a `ResolutionNotice` | `Resolve` |
| `prepare_reports`, `deactivate` | `PrepareReports`, `Deactivate` |
| policy authorises an opening or reminder, a silent update, a report; an issue ends | `Alert`, `SilentUpdate`, `Report`, `End` |
| sending turned off; on, or the assignment changed (`runtime.py`, `_complete`) | `Disable`, `Activate` |
| `publish`, and `requeue` after a failed save | `Publish(TRUE)`, `Publish(FALSE)` |
| `_end_quiet`; restart of Home Assistant | `EndHold`, `Restart` |

`fixed` distinguishes a delivery method that always resolves to every phone from one that follows
presence. A route is either a scheduled report or alerts at once (`notification_definitions.py`
generates one or the other), hence `scheduled`. Turning on a scheduled route authorises nothing
until the report is due. Summaries hold only issues without a device or entity subject of their own.
Texts are not modelled, so whether a silent replacement is identical, and therefore not sent, is a
choice. The phones process events in the order of publication. `owed` and `heldReport` are history.
What recurs over the outbox (`Keep`, `Published`, the showing of a phone) is a recursive function on
positions, so that it can be reasoned about. `DeliveryNames` says that the subject of a summary is not the
name of an issue; the code composes the two differently (`delivery.py:318` and `:361`).

### 2.3 LeftOpen

One contact, optionally with an outdoor temperature, and one policy. Time is counted in ticks; `plan`
holds the wait, the hours and one clock change, and `Hours` is `monitoring_window` for every tick.

| Code | Model |
|---|---|
| `_boundary`, `monitoring_window` (`left_open.py`) | `Boundary`, `Nearby`, `Hours` |
| `LeftOpenMonitor`: `since`, `qualified`, `window_start`, `window_end` | `monitor` |
| `evaluate` | `Removed`, `Entered`, `Since`, `Qualified`, `Evaluated`, `Status`, `Deadline` |
| `_observe_left_open` (`producers.py`), and remove, register, ingest in the runtime | `Observe` |
| `_state_changed`, `capture_entity`; `_pending` | `Report`; `queue` |
| `_drain_pending`; the Repairs read; `current` | `Drain`, `DrainDone`; `pc = "read"`; `Evaluate` |
| `_complete`, `_schedule` | `Complete` |
| `_opening_request_expired`, `async_send_notification` | `Expired`, `Send` |
| process exit; `restore` | `Restart` |

Readings are reduced to outside the limits, inside, or missing. The library opens an issue at a failing
report, keeps it over an unknown one and closes it at a passing one. Requests that wait in
the outbox or for a transport are one set, and an attempt is one step, as `Runtime` has its parts. A
removed issue counts as `ended`: `window_ends` has the source from the evaluation that removes it to
a later one. `steady` (since when reports alone justify a countdown) and `cutoff` (the end of
the window an issue was opened in) are history.

`PlansAssumption` says what a clock change is: by less than a day either way, and not within the first
day of a behaviour. Summer time moves clocks by an hour, Samoa skipped a day; what the code does with two
changes between neighbouring boundaries is not described. `LeftOpenBounds` lets a behaviour last a day at least.

### 2.4 DashboardStore

| Code | Model |
|---|---|
| `Dashboard.publish`, `catalog_changes` (`dashboard.py`) | `Publish`, `PublishUnavailable`, `Publication`, `Changes` |
| `websocket_subscribe`, `websocket_catalog` | `Accept`, `Event`, `Broadcast`; `CatalogReply`, `Page` |
| `listen`, `start`, `stop`, `retry`, `disconnected`, `ready` (`model.mjs`) | `Listen`, `Unlisten`, `StopCheck`, `Started`, `Stopped`, `Retry`, `Disconnected`, `Ready` |
| `mergeDashboard`, `applyCatalogDelta`, `patchRows` | `Merged`, `Patched`, `DeltaApplies`, `PatchRows` |
| `ensureCatalog`: the workers, the check of each page, the installation, `finally` | `Ensure`, `Take`, `Complete`, `Install`, `Fail`, `Finally`, `Replace` |
| promises that have settled and whose handlers wait | `Continue` (microtasks, before the next message) |

A catalog is two sections, one of which only grows; a row is an id and a version, an event's own
evidence is one value. Messages to the panel keep their order; a lost connection rejects its requests. A
restart of Home Assistant starts the revisions again. `CatalogAssumption` says that a catalog has a row of each
id at most once in a section: `dashboard.py` keys the sections by id, and records of the history get an id each.

### 2.5 ScopedSettings

Saved settings are a function from keys (installation fields, policies, methods, notifications) to
`[version, uses, excluded]`, of which `uses` is what a definition refers to; the revision of a
settings file is the settings themselves, as the code takes their digest. `sessions` are editor states, which
`panel-drafts.mjs` keeps by connection in a `WeakMap` (`mapped`) while they hold unfinished work.

| Code | Model |
|---|---|
| `initializeScopedConfiguration`, `rebaseScopedConfiguration` | `Loaded`, `Rebase` |
| `proposal`, `rowsIn`, `removeMethod`, `removeProfile` | `ScopeProposal`, `RemovalProposal`, `ReviewProposal` |
| `saveScopedConfiguration`, `acceptSubmitted`: save, read again, answer | `Save`, `Delete`, `Toggle`, `Confirm`; `DeliverReply`, `Accepted`, `Finished` |
| `connectPanelDrafts`, `forgetIfFinished`, `disconnectPanelDrafts` | `Connected`, `Forget`, `Attach`, `Detach` |
| `_async_save_settings` (`dashboard.py`) | `Saved`, `Refusal`, `Valid` |
| another administrator; a change of the user's permission; the connection | `Other`; `Permission`; `Disconnect`, `Reconnect` |

### 2.6 PanelReads and IssueActions

| Code | Model |
|---|---|
| `loadSource`, `loadSourceMore` | `LoadSource`, `LoadSourceMore`, `SourceReply`, `MoreReply` |
| `openDetail`, `loadDetail`, `readDetail`, `readDeviceIssues` | `OpenDetail`, `LoadDetail`, `ReadDetail`, `DetailReply` |
| `loadNotificationReport`, `invalidateNotificationReport`, `clearNotificationReport` | `LoadReport`, `InvalidateReport`, `ClearReport`, `ReportReply` |
| `invalidateReads`, `release`; the handlers of clicks and links | `InvalidateReads`, `Release`; `OpenPage`, `SelectSource`, `Open`, `Close`, `OpenLink`, ... |
| `openControl`, `openImmediate`, `executeImmediate`, `execute` | `OpenTool`, `Submit`, `ToolReply` |
| `editDeviceIssues`, `applyDeviceIssueAction`, `selectedDeviceIssueIds` | `Choose`, `Acknowledge`, `Pause`, `ApplyPause`, `Apply`, `Continue`, `Selected` |

Evidence is the number of a publication, and an answer carries the number of the publication it was
answered from. Answers of different requests may overtake each other only where the code sends them
side by side (`Ready`). Single actions use a dialog of their own over the detail.

### 2.7 Navigation

A path is its segments; what has no path (search, grouping, expansion, limits, filters) is one value.
`tab` is the session history of the browser, its entries and position; two variables are history for the properties: `left` is what was really
shown at each entry when it was left, and `ignored` says whether a Back or Forward was ever ignored because the entry it led to holds the
number the panel has already (`workspace-navigation.mjs:231`).

| Code | Model |
|---|---|
| `workspacePath`, `parseWorkspacePath`, `workspaceRoute`, `workspaceContext` | `PathOf`, `Parse`, `RouteOf`, `ContextOf` |
| `capture`, `finish`, `updateReturn` | `Capture`, `Finish`, `Return` |
| `applyPath`, `restoreWorkspaceContext`, `onPop`, `set route` | `Apply`, `Enter`, `Restore`, `Popped`, `SetRoute` |
| `back`; the browser's Back, Forward and reload; Home Assistant's links | `ContextualBack`; `Back`, `Forward`, `Reload`; `NewLink`, `Relink` |
| the click handlers of `homeostatic.js` that lead elsewhere | `OpenPage`, `SelectSource`, `OpenDetail`, `Edit`, `Close`, `Escape`, ... |

Assumed of the browser: the panel's `popstate` listener runs before Home Assistant sets the route.
A link to where the panel is already, or to the path Home Assistant set last, makes the browser's entry and the
panel disagree (`navigation_link`, section 4); `NavSpec` leaves such links out and `RelinkSpec` has them.
An entry nobody clicked from has no stored view, so only its address is claimed for it. A dialog closed by Escape, by
the end of its issue or by a report that comes in is closed without a new address; when the view is captured afterwards, the entry
holds a view of another place than its address names, and is not `Stored`. The contextual Back leads through an entry that is
`Stored` to the very view it offers (`BackIsOrigin`); of one that is not, nothing is claimed. After a reload the
counter of stored views starts again, so `BackIsOrigin`, which compares their ids, is claimed until then.

### 2.8 SourceSelection

The draft policy is the code's own: a match, alternatives and exceptions, exact references,
included and excluded identities. `Monitors` is the rule `CatalogRule` of `rules.py`, against which
the list (`Selected`, `Rows`, `MissingRows`) and the controls (`Tick`, `TickBranch`, `Forget`,
`Future`, `PickGroup`) are compared. Labels are one more grouping field like areas. The checks of one
UPS share the device as their reference (`ups.py`), so they move together and `TicksAreExact` excludes
rows that share a reference. `Suits` is what the list offers for a check and `Checked` what the integration makes it of (`monitoring_runtime.py`),
which is narrower: the list offers any source with a temperature, the integration checks sensors only. Two catalogs, one without some sources and with a disabled one, and the
twelve policies of `MCPolicies` stand for what the editors create and what older versions left.
`CandidatesAssumption` says what enrollment gives: a source has a reference of its kind that no other source of that
kind has, but the checks of one UPS share its device and attributes. `PoliciesAssumption` is what `parse_policies`
accepts (`Accepted`), and that a policy limits future sources in one way at most (`OneLimit`), as the editor and the
default policies do. Settings written by hand may combine an area with exact references; switching such a policy to
exact sources adds the references that were outside the area.

### 2.9 MonitoringPage and Workspace

`SourceTrees`, `IssueViews` and `IssueRows` translate pure functions of the panel as operators over one inventory.
The code caches trees and paths by the identity of their data; `Caches <- Built` computes the same once per
inventory, so TLC need not build a tree in every state.

| Code | Model |
|---|---|
| `canonicalSources`, `monitoringTree`, `locationTree`, `topomationTree`, `sourcesTree`, `sourcePaths` | `CanonicalId`, `Grouped`, `LocationTree`, `TopologyTree`, `Tree`, `Find` |
| `visibleEpisodes`, `episodeDevice`, `issueDeviceGroups`, `issueGroups`, `issuesWorkspace` | `Visible`, `EpisodeDevice`, `Headings`, `Groups`, `Buttons`, `Dialog` |
| `issueDeviceGroups`, `issueRow`, `sharedDeviceCondition`, `integrationProblem`, `retainedProblem`; `relatedSourceEvidence`, `recordedIssueSources` | `RowUnder`, `Condition`, `SharedCondition`, `ConnectionCondition`, `OwnCondition`; `RelatedMembers`, `Explained`, `Recorded`, `DialogSources` |
| `sourcesBrowser` and its handlers; `revealSourcesSelection`, `revealSourcesSearch` | `GroupBy`, `SelectRow`, `Toggle`, `More`, `FilterBy`, `Search`; `Reveal`, `RevealSearch` |
| `connect` (a catalog arrives or changes), `loadTopomation` | `CatalogArrives`, `CatalogChanges`, `TopologyReply`, `Reconnect` |
| `prepareAvailabilityChange`, `applyAvailabilityChange`, `proposal`, `saveScopedConfiguration` | `Plan`, `Start`, `Proposed`, `Propose`, `SaveAnswered`, `SaveReloaded`, `Finish` |
| `editIssueAvailability`, `resetIssueAvailability`; `editSourceAvailability` | `Review`, `ConfirmReview`, `Reset`; `Offer`, `ChooseMembers`, `ConfirmOffer` |

A session has a budget (`left`) of browsing steps, locations, dialog actions and changes by others,
which its opening sets, so that browsing and stopping are each explored deeply with a little of the other.

## 3. What TLC checks

Twelve runs. Every property is also shown to be able to fail: `PROJECT.json` names, for each, a
plausible wrong form of a definition (operators commented *Mutant*) under which TLC finds it violated.
Several properties are conjunctions of named parts, each with its own comment in the module.

| Run | Question | Bounds |
|---|---|---|
| `boundary_faults` | Two changes or requests, one failure anywhere: is anything told that is not saved, in the wrong order or under a used id? (`TypeOK`, `OnlyDurableFacts`, `FactBeforeRequest`, `IdNamesOneRequest`, `ReportsSavedBeforeFired`) | 2 stamps, 1 fault |
| `boundary_restart` | One request over two channels, a failure and an exit: is anything told or sent twice or unsaved, and is the promise kept? (`FactsAtMostOnce`, `SentAtMostOnce`, `ImplementsPromise`, `IInv`) | 1 stamp, 2 channels, 1 fault, 1 exit |
| `liveness` | Under fairness, is there always again a moment when all evidence is taken in and saved, every saved request fired or withdrawn and no stop under way, and does a stop leave nothing behind? (`Progress`, `FinalSaveComplete`, `PendingHasOwner`) | 1 observation, 1 stamp, 1 fault |
| `delivery` | Is the composition of requests current, complete and quiet? (`OutboxCurrent`, `AlertsKept`, `PhonesShowRecord`, `NoRepeatedAlert`) | 2 issues, 2 phones, 3 alerts, 1 update, 1 restart, 4 waiting requests |
| `left_open` | Is an opening raised neither early nor late, never past its window, and never called recovered without a report? (`IssueTimely`, `NeverEarly`, `RecoveryIsReported`, `NoLateAlert`) | 4 policies, 9 ticks of which 4 are a day, 2 reports, 1 restart |
| `catalog` | Does the panel show one publication and one catalog, catch up, and blame only faults? (`CatalogSound`, `OnlyFaultsReported`, `CatalogArrives`, `PanelConverges`) | 3 catalogs of up to 3 rows in pages of 2, 2 workers, 4 disturbances of which 1 fault |
| `settings` | Does unsaved work survive, does a save write its own scope, do deletions pass and locks open? (`UnsavedWorkKept`, `SavesAreScoped`, `DeletionsValid`, `LocksReleased`) | 2 panels, 1 policy, 2 methods, 1 notification, 4 steps of which 2 edits, 2 saves, 1 save by others, 1 fault |
| `panel` | Are late answers dropped, changes read and actions claimed for the right issue? (`ShownIsWhole`, `ReadsSettle`, `ConfirmedSaved`, `NeverSubstitutes`) | 3 issues of a device, 2 sources, 1 report, 3 disturbances of which 1 fault |
| `navigation` | Do Back, Forward, the contextual Back, reloads and links lead to the view that was left, but for ignored steps? (`PlaceKept`, `ViewsRestored`) | 2 clicks, 4 moves, 2 changes without a click, 1 reload, 2 links |
| `selection` | Does the list tell what is monitored, and does a control change only that? (`ListIsTruthful`, `ChoicesExact`) | 8 sources, 12 policies, 2 catalogs; unbounded in steps |
| `workspace` | Can every source and issue be reached, do rows and dialogs say what is known of the sources they are about, do links end on the screen, and does a stop change what was reviewed? (`SourcesReachable`, `IssuesPresented`, `LinkShown`, `StopsReviewed`) | 3 inventories, 3 reports, 3 answers of TopoMation, 7 openings |
| `delivery_hold` | A documented statement the code does not keep; see section 4 (`EndedIssuesWithdrawn`) | as `delivery`, 1 phone |

All runs but `selection` say `CHECK_DEADLOCK FALSE`: a stopped runtime, and models whose budgets are
used up, may really stop.

**Are the bounds enough?** Each interesting case of `Runtime` needs at most two stamps (an earlier
request that is replayed and a later one that must not take its id, or a fact given up and another
published), one observation that arrives late, one failure, and one exit; every action and every
branch is taken in some passing run. The safety properties and the refinement are also proved for all
values of the constants, as are the properties of `delivery`, `left_open`, `catalog`, `settings`, `panel`, `navigation`, `selection`
and `workspace`, but for liveness and `ViewsRestored` (section 5);
what the instances add there is that the properties can fail. In `delivery` two issues are
the least that make a summary with partial recovery, two phones the least that presence can choose
between, and three alerts allow an opening, a reminder and an activation, or two reports; four
waiting requests are more than two issues and a summary leave unless a failed save keeps them.

A day of four ticks has room for hours and the time outside them; the four policies of `MCPlans` are no
hours with a wait of two ticks, hours within a day with a wait of one, and hours over midnight with a
skipped and with a repeated boundary. Two reports suffice for a gap (missing and back) or for a
closing and an opening, next to the free choice of the states at the start and after a restart.
All plans start at tick four, and nine ticks reach into a second window. `Tick` lets what is due wait for less than a tick: a report or a
timer is taken up within one, as long as a tick is longer than a section under the lock. How long
after its due time an issue is raised is therefore not a claim of `RaisedInTime`; that it is, is.

In `catalog` two workers and three pages give a page that is read while another waits, and the three
catalogs a delta, a delta that removes a row and a change too large for one; revision 3 is enough for a
read that is overtaken twice. In `settings` the policy uses a notification that uses a method which another
may replace, so that a deletion has to rewrite two levels. In `panel` the third issue is the one that arrives
while the other two are answered. Four moves, two changes without a click and a
reload are what an ignored step needs to show another page than the address (`navigation_views`), so the run's bounds hold the exception of
`ViewsRestored` as well as what remains true. `selection` explores every sequence of controls: the draft's states are finite. The
inventories of `workspace` have two connections of one integration, a device with a summary row, one
without, checks that share an entity, a situation, a repair and a thermostat that shares an entity's
place, so every branch of the trees is taken; the branch limit is 1 (80 in the code).

**Symmetry.** Phones are interchangeable. Issues are not declared so: the order in which `Deactivate`
appends withdrawals is picked by `CHOOSE`.

**Fairness** (`FairSpec`). Home Assistant's event loop runs a task that is ready and completes
executor calls, hence weak fairness of the lock holder's steps; timers fire and the sweep repeats every
15 minutes, hence weak fairness of `TimerFires`, `HoldOver` and `Sweep` (`_end_quiet` has a cap, so a
hold is over at the latest then). `asyncio.Lock` serves waiters in order, so a waiter is not
overtaken for ever: strong fairness of `EnterRefresh`, `EnterTimer` and `EnterStop`. Nothing
obliges an observation, a control, a sending task, a stop, a failure or a restart. Failures are
bounded: without a bound no save need ever succeed, and no code could deliver anything.
`DashboardStore` and `ScopedSettings` assume weak fairness of the steps nobody chooses (the server answers,
messages arrive, promises run, a lost connection comes back), written out as `[]<>~Busy \/ []<><<Step>>_vars`
because `Busy` is exactly their being enabled; users, publications and faults are free. The other
panel modules claim safety only: `ReadsSettle` says what holds when nothing is under way any more.

## 4. Where code and documentation disagree

`delivery_hold` is a run whose expected result is a violation; `PROJECT.json` quotes its lines. The others
are kept as configurations beside it and reproduced with `tlc -config <name>.cfg <module>`; each checks
one property and ends in a counterexample.

Runtime and requests (`MCRuntime`, `MCDelivery`, `MCMonitors`):

- `deferred_save`: `docs/adr/0096` bounds a deferred save to 15 seconds. A failed save of a transport
  attempt has already cancelled the timer, arms none and reports no error; the evidence waits for
  the next refresh.
- `drain_order`: `docs/spec.md` says arrivals are drained before current-state reconciliation. The
  refresh awaits the Repairs read between the two.
- `delivery_hold`: `docs/events.md` says the old message of an issue that moves into a summary gets a
  `resolve`, and that resolutions go out when the hold ends. When the issue ends while that `resolve`
  waits, recording the end drops it.
- `delivery_presence`: `docs/adr/0056` says earlier destinations are kept for clearing and updating. An
  activation that replaces an activation with other people at home forgets them.
- `delivery_report`: a comment says superseded unsent summaries cannot resurrect a removed member. A
  report that comes due during the startup hold leaves the earlier, unsent report in the outbox.
- `left_open_boundary`: `docs/adr/0112` says history explains that the monitoring window ended. A
  report captured just before a window starts, and drained after a refresh has evaluated inside
  it, looks like the end of the window: the issue just raised is recorded as ended with its window,
  and a second one is raised. It needs the await between drain and evaluation, as `drain_order`.

Panel:

- `settings_switch` (`MCSettings`, `SwitchConverges`): `docs/spec.md:532` has the switch reflect the confirmed
  state. A change published while the panel reads its settings is compared with the copy the
  read is about to replace (`homeostatic.js:257`); afterwards no event asks for another read.
- `settings_overwrite` (`MCSettings`, `FieldsNotOverwritten`): `docs/spec.md:524` keeps reconciliation from overwriting
  newer saved changes silently, and `:860` a concurrent edit from overwriting another save. The saved fields of
  the installation settings are one scope, whose baseline becomes what was read back after the save of any of them
  (`scoped-configuration.mjs:223`). A field that another administrator saved meanwhile, and this panel did not
  submit, then counts as edited here, and the next save writes the old value over it. `NoBlindOverwrite`
  (part of `SavesAreScoped`) therefore speaks of definitions and of reviewed changes.
- `device_response` (`MCPanel`, `ActsOnSelection`): `docs/spec.md:855` has an action operate on exactly the selected
  issues. When all but one issue of the device have ended, the last is acted on whether or not it is
  selected (`device-issues.mjs:31`), also when the dialog still shows several with none selected.
- `navigation_link` (`MCNavigation`, `LinkOpens`): `docs/spec.md:460` has a link open its page. A link to
  the path Home Assistant set last is ignored (`homeostatic.js:1018`), although the panel has moved on since.
- `navigation_views` (`MCNavigation`, `ViewsAlwaysRestored`): `docs/spec.md:460` says that "Browser Back and Forward restore
  search, grouping, expansion, selection", without exception. After a reload the panel numbers its views
  from 1 again, so an entry may hold the number the panel has reached once more; the step to it is then taken for one to where the panel is
  and ignored (`workspace-navigation.mjs:231`). The counterexample is within the bounds of `navigation`: the history page stays where a dialog was left
  (`AllPlaces`). A longer sequence without a reload (five clicks, eleven moves, three changes without a click) makes two
  entries share a number, and the search of one replaces that of the other (`AllContexts`). `ViewsRestored` therefore excepts
  from the place the ignored step itself, and only while the panel shows another place than it navigated to, and from the search
  what comes after an ignored step.
- `link_revealed` (`MCWorkspace`, `LinkRevealed`): `docs/spec.md:655` has a link reveal its source. The
  groups are opened in the tree that includes disabled sources (`homeostatic.js:515`), where the source may
  be below another group than on the page (`sources-workspace.mjs:686`). `LinkShown` therefore speaks
  of pages with nothing hidden.

Met while reading, without a documented statement against them: after a failed device read a late answer of
an action renders the dialog again over the old context; a refused deletion of a policy stays in the draft;
a device without a summary row whose entities are in two locations has one key, so selecting its second place
selects the first; a device with readings of two integrations has a row with each, and a link opens the groups above the first
only, so that under a filter that leaves just the second no row of the link's target need be on the screen.

Because of the first list `OneCurrentSummary` (part of `OutboxCurrent`) and `PhonesShowRecord` speak of the digest only in behaviours
where no report was due within a hold, and `PhonesShowRecord` of the own messages of issues that have
not ended and of fixed methods.

## 5. What is proved

The theorems hold for every value of the constants that the named assumptions allow, so for any number
of observations, changes, issues, phones, sessions, faults and exits. TLC evaluates every assumption in
the runs of its module.

| Theorem | Statement |
|---|---|
| `RuntimeSafety!TypeCorrect` | `Spec => []TypeOK` |
| `RuntimeSafety!Invariance` | `Spec => []IInv` |
| `RuntimeSafety!FactsAreDurable` | facts told and controls confirmed are in the Store file |
| `RuntimeSafety!FactsAreNotRepeated` | a fact is told at most once |
| `RuntimeSafety!FactsComeFirst` | facts come before requests |
| `RuntimeSafety!IdsAreUnique` | a delivery id never names two requests |
| `RuntimeSafety!SendingIsSafe` | at most one transport call per id and channel, only for saved attempts |
| `RuntimeSafety!StopIsComplete` | a stop without error leaves nothing behind |
| `RuntimeSafety!WakeupsAreKept` | a captured observation has a refresh that will take it in |
| `RuntimeSafety!ReportsComeFirst` | no request is fired before its membership report is saved |
| `RuntimeSafety!RuntimeKeepsPromise` | `Spec => ImplementsPromise` |
| `DeliverySafety!SummariesCurrent` | what waits is current: one request per summary with the members of now, none for an issue that ended or moved (`OutboxCurrent`) |
| `DeliverySafety!AlertsReachPhones` | an alert not yet published waits, ringing, for each phone chosen for it (`AlertsKept`) |
| `DeliverySafety!PhonesAgree` | with a fixed method and nothing waiting, phones show what is recorded (`PhonesShowRecord`) |
| `DeliverySafety!RingsOnce` | no later step rings again for an alert (`NoRepeatedAlert`) |
| `LeftOpenSafety!IssuesAreTimely` | an issue is raised and ended when it should (`IssueTimely`) |
| `LeftOpenSafety!NeverTooEarly` | none is raised before the opening stood its time (`NeverEarly`) |
| `LeftOpenSafety!RecoveryOnlyReported` | recovery is claimed only after a report (`RecoveryIsReported`) |
| `LeftOpenSafety!AlertsInTime` | no alert leaves after its window (`NoLateAlert`) |
| `StoreSafety!StoreInvariant` | `Spec => []IInv` |
| `StoreSafety!CatalogIsSound` | what is shown as current is one publication, a stale view is a whole one, nothing streams to nobody (`CatalogSound`) |
| `StoreSafety!FaultsAlone` | only faults are reported (`OnlyFaultsReported`) |
| `SettingsSafety!SettingsTypes`, `UnsavedWorkSafe` | types; unsaved work is neither altered nor lost (`UnsavedWorkKept`) |
| `SettingsSafety!DeletionsAccepted` | no removal leaves a reference the server refuses (`DeletionsValid`) |
| `SettingsSafety!SavesScoped` | a save changes what it names and nothing unseen (`SavesAreScoped`) |
| `PagesSafety!ListTellsTruth` | the list shows what will be monitored, and all that was chosen (`ListIsTruthful`) |
| `PagesSafety!ControlsAreExact` | each control changes the membership it shows, and only that (`ChoicesExact`) |
| `PagesSafety!PagesHeld` | `NavSpec => []NavInv` |
| `PagesSafety!PagesKept` | what the page offers and shows belongs to its address (`PlaceKept`) |
| `WorkspaceSafety!SourcesAreReachable` | in every grouping each source has a place, every link leads to its source (`SourcesReachable`) |
| `WorkspaceSafety!LinksAreShown` | a link leaves the row it leads to on the screen (`LinkShown`) |
| `WorkspaceSafety!IssuesArePresented` | a current failure is visible, a listed issue opens, rows and dialogs say what is known (`IssuesPresented`) |
| `WorkspaceSafety!ReviewedIsDone` | a stop does what was reviewed, in its dialog (`StopsReviewed`) |
| `WorkspaceSafety!ShownSafety` | the screen shows one list with one report; unusable locations are left |
| `PanelSafety!PanelInv` | `Spec => []Inv` |
| `PanelSafety!ShownWhole` | rows of one publication, a whole report, the dialog of the selection (`ShownIsWhole`) |
| `PanelSafety!SavedIsConfirmed` | what is reported as saved is saved (`ConfirmedSaved`) |
| `PanelSafety!NothingSubstituted` | a response acts on captured issues still open (`NeverSubstitutes`) |
| `PanelSafety!ReadsAreSettled` | reads that overlap end on the latest evidence, and are few (`ReadsSettle`) |

None of these properties is inductive alone. Each proof gives an inductive invariant `IInv`, whose parts
relate state the property does not mention; `Init => IInv` comes first, then lemmas about the operators,
then one lemma per action (or one per part with a step per action), and the theorem follows.

**Runtime** (assumptions `ChannelsAssumption`, there is a channel; `BoundsAssumption`).

- `LockInv`: who may hold the lock at which point and for which save. Without it a failed attempt
  could be rolled back in the middle of another holder's save.
- `DurableInv`: `verified \subseteq {disk}`, and `pc = "saved"` implies `disk = mem`. The first carries
  the second through the skipped write: equal bytes are on disk because the digest names what is there.
  Publication happens at `saved` only, hence `OnlyDurableFacts` and, for operator controls, `ConfirmedDurable`.
- `SendInv`: an attempt is in memory while it is saved, on disk while it is sent, and held by one task
  at a time. The last is what makes a replayed event harmless.
- `IdInv`: everything durable (file, the publication under way, fired requests) is numbered at most
  `disk.sequence`, everything in memory at most `mem.sequence`. A crash returns to
  `disk.sequence`, so a number may be assigned again, but only one nobody has seen.
- `OutboxInv`: where a request that left one place still is: one that is saved and no longer in memory was asked of the
  transport, or is in `withdrawn`: a decision took it out unfired since the last write, with or without a change
  (`delivery.py:450`, `:573`). The refinement needs it.
- `FactInv`: a change is a fact to come, was told or was given up; nothing is fired while one is to come.
- `StopInv`, `WakeInv`: what holds after a clean stop, and who owns a captured observation, also while a
  failing section is under way.

The refinement maps `disk`, `told`, `sent`, `withdrawn` and the fired requests to the variables of
`DurablePublication`; a successful `Write` is its `Save`, the steps after a verified save are
its `Announce`, `Transport` is its `Call`, a decision that takes requests out of the outbox is its `Withdraw`,
`Restart` its `Reload`, and everything else stutters.

**Delivery** (`DeliveryBounds`, `DeliveryNames`). `WellFormed` says how messages and requests fit: a message under
a summary's tag is a member of it, requests name phones, an issue without a message left nothing of its own.
`Summarised` is the property for summaries: `Group` keeps the summary it rebuilds and leaves every other alone.
`IssueTagsFit` is what keeps a request of an issue from outliving its move or end.
`Owing` strengthens `AlertsKept`: the alert waits *under the tag the issue is now presented by*. The property
alone is not inductive, because a summary takes an alert over only from the request of that tag. `Reaching`
strengthens `PhonesShowRecord` to every outbox: publishing it in order from what a phone shows now leads to
what is recorded, for each tag of which the claim is made (section 4 says why not for all).

**LeftOpen** (`TickAssumption`, `LeftOpenBounds`, `PlansAssumption`). First `Hours`: a boundary that
`NextBoundary` answers is the first at which the window changes, for every plan and every clock change the
assumption allows (`UntilBoundary`), so a timer set for it is neither late nor early.
`Story(a)` says when the present reports were last changed and that the monitor's countdown began with them to
within a tick; `Waiting` that what is queued is at most a tick old and chained to the present, and that a deadline
passes by at most a tick; `Episodes` that issue, history and file number the issues alike. With these,
whatever order drains, evaluations, restarts and clock changes come in, what is due is known at each moment, while
`IssueTimely` speaks of quiet moments only. The invariant was checked with TLC on the `left_open` instance before
it was proved. `NoLateAlert` and `RecoveryIsReported` are proved from the types and the guards of the steps that
could break them.

**ScopedSettings** (`SettingsAssumption`: the kinds of keys do not mix, and the panel opens on settings the server would
save). Its first part proves for one editor state (`Sound`) what each operator of
`scoped-configuration.mjs` keeps: drafts hold what was typed, a proposal differs from the confirmed settings
in its scope only, a removal takes every use along. The second lifts that to sessions, panels and messages
(`MailFits`: each reply answers the request its session waits for; `PagesFit`: the session kept for the connection
is the one of the latest panel; `Room`: a free session number exists when a panel needs one, by counting). The
attempt to prove `NoBlindOverwrite` for all keys failed at the fields of the installation settings, for the reason that
`settings_overwrite` shows in section 4.

**DashboardStore** (`CatalogAssumption`). The invariant relates five things, as predicates over a server, what it
published, the subscriptions, a store and a queue, so that what an operator of the store keeps is a lemma about one
store, also in the middle of a step. `ServerFits`: a revision is given to one catalog, and a delta leads from the
catalog of its first revision to that of its last. `ShownFits`: a store that is not current has no baseline.
`SubsFit`: a live subscription is the store's own or its result is on the way. `EventsFit`: events come in the order
of the revisions, and a current store either shows the server's revision or an event that tells of it is under way.
`ReadsFit` and `MailFits`: a page under way for a current read has the rows of the read's revision, *or stands behind an
event that makes the read obsolete*; this disjunct is why the invariant needs the order of the queue, and why a page of
the next revision, requested before the event was heard, is never mixed in. `Collected` says that what a read has got is
the union of the answered pages, and `PagesCover` that the pages of the section lengths cover the sections, so a
finished read is whole (`GotIsWhole`). `PatchGives` shows that a delta that keeps identities yields the next catalog.
TLC checked the invariant on the `catalog` instance before it was proved.

**SourceSelection** (`CandidatesAssumption`, `CatalogsAssumption`, `GroupsAssumption`, `PoliciesAssumption`). The
invariant is that the draft stays a policy the integration accepts, limited in one way. `SelectedIsMonitored` reads
one policy twice, as the boxes and as `CatalogRule` do; the truth of the list follows for every accepted draft.
`ChosenMoves`, `ListMoves` and `SwitchMovesNothing` compare the membership before and after a control. The last
needs `OneLimit` and that a reference names one source: an exact reference kept beside an area, or shared by two
sources of which one was ticked by an exception, would let a switch add members.

**Navigation** (`NavAssumption`: every definition has a kind and a name, and the values that stand for nothing are no names).
First what paths are: for every route the panel can make, `Parse(PathOf(r))` has the path of `r` again, names the same
notification, and opens a dialog where `r` does (`RouteTells`, one lemma per form of path). `PlaceKept` then needs more than the entry
the panel is at, because each step back makes another one the current one. `Held` says of *every* entry of the session history that a view
stored in it is of its address, unless the address is of a dialog (the entry is `Dead`, see 2.7); that entries beside each
other name different places, unless the earlier is dead (`Beside`); and that a view that has an origin has it directly behind it (`Behind`).
`Beside` is the part that is not obvious: `set route` and `onPop` do nothing when the path is the one entered last, so two
neighbours with one path would leave the panel with the number of the wrong view. `Belongs`
and `Follows` relate the card to the current entry and to the path entered last, `Counts` the numbers. Numbers count until a
reload: afterwards the panel numbers its views from 1 again over entries that hold old numbers, so `Behind` is false and
only what `ScopeKept` needs goes on. `Capture`, `Finish` and `Apply` each keep a `Good` state for any card that fits, so every click is an
instance of one lemma. The dead entries are why `BackIsOrigin` speaks of `Stored` ones.

**Workspace** (`InventoriesAssumption`: lists are finite, a check is listed with its source and is on the source's device;
`EvidenceAssumption`: what `catalog.py` and `entity_not_provided.py` let a report say; `OpeningsAssumption`;
`ResponsesAssumption`; `OrderAssumption`; `CachesAreBuilt`: the caches hold what they were built from). Two invariants.
`ReviewsFit`, `SettingsFit` and `SavingFits` are about Stop Monitoring: the card's copy is the server's settings
wherever the revisions agree, and what is being sent agrees with the copy as it is after the last refresh, which is
why `SavesReviewed` holds when another administrator saves in between.
`DataFits` and `PageFits` are about the screen; for any list and report that fit, `IssuesPresented` follows
without a look at the steps. `FaultsAreVisible` needs that a failing report never gives a healthy reason and that a missing
entity is reported by its own check alone. `RowIsOfDevice` and `OneDeviceNamed` show that what is said below a heading is
said of that device. An attempt without the exception in `CurrentFault` failed for a reason: a missing entity nobody reports
on is hidden (`entity-not-provided.mjs:17`), and the run now has such an issue.
`SourcesReachable` follows for any page that fits too. `TreeSound` says that a tree is finite and that a node with a source's key
is of that source; it is shown of every part of the three groupings and put together by unions. `TreeLists` shows
that the last section lists whatever the grouping left out, and `CanonicalSource` that the source a row is listed with is its
own source, which an assumption gives: a check of a policy is not listed with a temperature check. A link may be answered by several nodes, of
which the page takes the one it meets first: `Before` is transitive and irreflexive, so among finitely many there is
one (`MetFirst`), and any of them has the right source (`LinkLeads`).
`LinkShown` needs the shape of the trees. `Reveal` opens the groups above the place it found; beyond its limit a branch shows one
more child, the first that is the selection, has it beside it or is a group above it, and the proof must show that this is the one on the
way. A key may occur at several places, so `Orderly` says how: `Grown`, a place is below its parent, so that the whole
way is in the tree; `Levelled`, below one root no key is met at two depths, except that of a device without a summary, which may be met below a location
and again deeper, where the place of the shallow one is taken by a location; `Joined`, a connection that is shown beside a device
is beside that one only, and a row of its own is then at the top. `TreeShape` shows this of each part of each grouping
(`FamilyShape`, `PlaceShape`, `TopologyShape`: the way up from a location is the only one) and of their union, whose roots differ (`PlantedTogether`).
Then a key of the way that a wrong child has is at the same depth, or the way has a location there, which comes
before it (`NoneMetBefore`, `SelectedAlone`, `NoneLinkedBefore`). The filters leave the way to whatever they leave (`FilteredClosed`),
and with nothing hidden the tree that is searched is the one that is shown (`PlacesAlike`).
The attempt corrected both the model and the property. `Before` had ordered the locations of TopoMation by
name among the sources beside them, which the code puts last (`sources-workspace.mjs:160`). And `LinkShown` had asked for some
row with the selection's key, which a larger home refutes: a device with readings of two integrations, of whose two rows a filter leaves the
one in the group that is not open. It now speaks of the row the link leads to, of every such row, and one of the run's inventories (`lost`) has such a device.

**Panel reads and issue actions** (`PanelAssumption`: there is a source; a report has members, as `delivery.py:451` makes sure; the kinds of
values do not mix). A handler of the panel is a chain of reads, each of which may ask for the next, so first what one
read does is stated as a relation between panels: `Stays` (it opens nothing), `Opens` (it may open a dialog or a report)
and `Follow` (any of them), each transitive; every operator of `PanelReads` is shown to be one of these, from a panel that
`Fits`, also in the middle of its handler. `Fits` relates the parts of a panel: the rows of a source are of one publication, also those a
request keeps to restore; the dialog's text belongs to its selection; a report whose episode is still to be opened has no
members yet and no issue is open; a dialog of an action stands alone. `Awaits` says that a link waits only while the evidence is not
current. Neither property about actions is inductive without `Mails`: the answer on its way is a claim the
panel would make if it took the answer for its own, so the claim must hold on the server while the answer travels, also over
a lost connection, and an answer to an action carries the number of a dialog already opened, so that no later dialog takes it.
A response to a device needs `CallFits`: what is left of a request is a sequence of the captured issues, and each step of
`Continue` takes the next of them that is still open.

`ReadsSettle` is about the reads themselves: when nothing is under way, what is displayed is of the latest evidence the
panel has (`NothingLost`), and the sources were read at most twice for each publication, fault and turn of the user
(`ReadsBounded`). That nothing is under way is no hypothesis about the panel, so `ReadInv` must relate the two. It has five parts.
`Base` holds at every moment, also in the middle of a handler, for a panel and a set of requests under way: a request the panel
waits for is under way, a request of its number *is* that request (same source, same stamp, same connection), and a pane that is not
loading shows the rows its stamp names (`Honest`). `Due` holds at the end of a handler: the source, the dialog and the report each
show the latest evidence, or wait for a request that will, or remember that they must read again when the present request is over. `Queue` is
about the messages: evidence in the order of publication, the end of a connection's evidence directly followed by new evidence, and
each answer of the latest evidence delivered before it, which is why an answer of an older publication is never taken for the one
awaited. `Alone` says that no two answers of one number travel, so that the answer in hand is the last of its request; without it
`Base` is lost when an answer is taken. `Announced` and `Affords` are the bound's half: the latest publication is with the panel or on
its way, and the reads asked for, with those the panel is bound to ask for (`Weight`), are paid for by the
publication it has, or, while its evidence is not current, by the publication of the evidence on its way. A failed answer on its way is paid for in advance, as
its handler reads once more.
Each operator of `PanelReads` is shown to be a step of one of the three reads (`ForSource`, `ForDetail`, `ForReport`), which frame the other two; a
handler is a chain of such steps (`Moves`), is at its end again `Due` (`Handles`), and costs at most one read of the source.
`Queue` then moves over the few shapes of change there are: a message taken, answers appended, evidence told, a connection
lost and made again.

**Recursive functions.** What `Keep`, `Published` and the like compute is proved by induction over the
length of the outbox, and that of `Above`, the way up from a location, over its steps, from `NatLessThanWellFounded` and `WFMin` applied to the set of counterexamples, as the
induction theorems with an operator parameter cannot be instantiated.

**Only model-checked.** Liveness (`Progress`, `CatalogArrives`, `PanelConverges`, `LocksReleased`: the prover has no
fairness or ENABLED). `DurablePublication` is safety only.
`ViewsRestored` of `Navigation` is claimed within the bounds of its run and is not a theorem. The claim without its exception
is false within the same bounds (`navigation_views`, section 4): the steps that break it are the ignored ones, which `ignored`
records. With the exception it also held with three clicks on a smaller instance and in long simulated behaviours; a
proof would have to say which entries of the tab hold which number after any sequence of reloads.

## 6. What is not modelled

- The `health_tree` engine and policy: outside this repository. Their decisions are free choices, which
  includes more than they would do.
- A first installation without a Store file (`Init` starts from an empty file), and rejected files.
- Applying settings in place, unload followed by load, and two runtimes on one file: planned.
- Device messages and reusable collections (`record_group`, `record_collection`), several routes and
  recipients: planned after the proofs about inline routes.
- The other monitors (`host_health.py`, `temperature.py`, `ups.py`), Repairs, automations and enrollment:
  planned.
- The content of messages, links, facts and dashboard views: formatting. So are the panel's forms, styles
  and texts, the order of rows other than by name, focus, scrolling and reading positions.
- In the panel: the switches of a list that save a policy's enabled state or all sending without a draft
  (`scoped-configuration.mjs:188`, `:191`), the history page and its queries, the dialog of a source's policies, the filter popover,
  validation messages of the editors, the entities and services of the integration, and the
  repository's browser tests under `script/`.
- Delivery by the transport services: external. A call may fail without consequence, as in the code.
- Transport order: `Delivery` lets phones follow events in order; sending tasks of two requests may
  in fact overlap.

## 7. Plan

Done: `Runtime` with its abstraction, runs and proofs; `Delivery`, `LeftOpen` and the panel's eleven modules with
their runs. Next, in order of how much depends on it:

1. `Reload`: two runtimes that share a Store file. Properties: the file never goes back behind what the
   new runtime saved (`__init__.py:91`: sending tasks outlive their runtime); settings that failed
   to apply are not evaluated and saved by the final save before the reload (`runtime.py:975`).
   Abstract specification: one ledger with atomic updates.
2. `PhoneActions` with `NotificationReports`: bounded registries with expiry, eviction, rollback and
   consumption of a token by a control; refinement of a map with expiry.
3. The other monitors, in `MCMonitors`: `HostHealth`, `Temperature`, `Ups`; each as a countdown with a
   qualification, compared with a declarative definition over the history of reports, as `steady` is
   for `LeftOpen`.
4. `Controls` with history: expiry, the shelf per target, bounded history and its replay.
5. `Sources`: Repairs, broken automations and automation alerts, read with awaits and applied after.
6. `Enrollment`: reconciling discovered and enrolled sources.
7. `Delivery` extended by device messages and collections.

The smaller parts can share MC modules, so that the number of runs stays small.
