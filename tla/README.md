# A verification project for project_manager_Lite

project_manager_Lite is a desktop ERP (Python, PySide6, SQLAlchemy over SQLite)
with a platform layer and business modules for inventory and procurement,
maintenance, and project management. This directory holds TLA+ models of its
stateful services, the TLC runs that check them on small instances, and theorems
that TLAPS proves for every instance.

## 1. The system

One process, one user interface, one SQLAlchemy session that all services share
(`src/infra/platform/db/base.py:41`, `main_qt.py:17`); a background worker opens a
session of its own (`src/ui/platform/shared/worker_services.py`). A service method
checks its arguments, changes rows through repositories, commits, writes an audit
entry (which commits again, `src/core/platform/audit/helpers.py`), and emits a domain
event to the screens.

| Component | State | Operations | Hard part |
|---|---|---|---|
| Item master | items: status, stocked flag, UOM configuration | create, update | updates never look at the stock kept under the old configuration |
| Storerooms | storerooms: status, issue/transfer/reservation flags | create, update | closed while stock and reservations are there |
| Stock control | balances per (item, storeroom), ledger of transactions | opening balance, adjust, hold, release, issue, return, transfer | three posting methods keep one balance; a transfer posts twice in one transaction |
| Reservations | reservations with reserved, issued, remaining quantity | create, issue, release, cancel | two tables, two UOMs, partial issues |
| Requisitions | requisitions and lines | create, add line, update, submit, cancel, approve, reject | demand that several orders source |
| Purchase orders and receiving | orders, lines, receipts, on-order balance | create, add line, update, submit, cancel, send, close, approve, reject, post receipt | a multi-row approval that may fail in the middle; receipts entry by entry |
| Approval | requests: pending, approved, rejected | request, approve and apply, reject | the handler commits before the request is marked; what waits may be stale when approved |
| Database session | committed rows, the open transaction, rows not yet flushed | commit, rollback, flush, restart | autoflush is off; what one service leaves open another commits |
| Work requests and orders | requests, orders, tasks, steps, labor | status changes, conversion, package of a plan, roll-ups | conversion is several commits; four tables with statuses of their own |
| Material requirements | requirements of work orders: quantities, status, linked requisition | create, update, refresh, escalate | an escalation is up to four commits of three services |
| Preventive maintenance | plan, its task triggers, occurrences, sensor reading | refresh of the schedule, run of the engine, completion | a run is several commits; due work neither lost nor repeated |
| Calendar and scheduling | working week, holidays, tasks, dependencies | edit, progress, dependencies, recalculate | the two CPM passes over non-working days; acyclic dependencies |
| Resource levelling | allocations of a resource, conflicts | assign, shift, automatic run | shifts commit one by one in a worker thread, from dependencies read once, while the window edits behind a cancelled dialog |
| Projects and what belongs to them | projects, resources, members, assignments, costs, events, baselines | create, delete, governed changes | deletes are written out table by table; no foreign key is enforced |
| Time | periods and entries, hours of allocations | log, edit, move, delete, submit, decide, lock, unlock | a period that freezes its entries; hours kept twice |
| Authentication | failed-login counter and lock, sessions, revision, principals | login, password change, revocation, lockout, checks | expiry in three places; principals are copies |
| Asynchronous jobs | handles, runnables, cancel tokens, refresh flags | start, work, cancel, finish, retry | cancel against a late success; a refresh that must not forget a later change |
| Optimistic locking | row versions | update with version check | a worker writes what it read some time ago |

Interaction: reservations call stock control inside one database transaction;
receiving writes balances and ledger rows itself, through the same repositories;
submitting a requisition or an order creates an approval request, as does a
governed change of costs and baselines, and the approval service calls back a
handler registered for the request type; completing a work order tells the
preventive plan it came from; a shortage of a work order's material becomes a
requisition; a change of dependencies, and a shift on the thread
pool, recalculates the schedule of the project; removing an assignment removes
its time entries; a committed change emits an event whose subscriber starts a job.

What makes each part correct is stated as the properties of section 3.
`PROJECT.json` lists every component, also those that are not modelled, and the
hazards, each at its line, with the properties that cover it.

## 2. Modules

| Module | Models | Uses |
|---|---|---|
| `InventorySupport` | status tables, transition check, UOM conversion (`support.py`) | |
| `ItemMaster` | `ItemMasterService` on `item` | `InventorySupport` |
| `Storerooms` | `InventoryService` on `storeroom` | `InventorySupport` |
| `StockControl` | `StockControlService`: seven operations on `balance` and `ledger` | `ItemMaster`, `Storerooms` |
| `StockReservations` | `ReservationService` on `reservation`, and the composition of the four | `StockControl`, implements `AbstractStock` |
| `AbstractStock` | what stock promises: free and held units per position | |
| `DbSession` | the shared SQLAlchemy session (external) | |
| `Procurement` | `ProcurementService`, `PurchasingService`, `ApprovalService` | `DbSession` |
| `MaterialDemand` | `MaintenanceWorkOrderMaterialRequirementService` and the escalation of a shortage by `MaintenanceMaterialService` | `Procurement` |
| `Timesheets` | `TimesheetService` and what other services do to entries | |
| `ProjectWork` | create and delete of everything a project owns, governance requests | |
| `WorkCalendar` | `WorkCalendarService`, `WorkCalendarEngine` | |
| `TaskSchedule` | tasks, dependencies, `SchedulingEngine` | `WorkCalendar` |
| `GovernedDependencies` | requests to add or remove a dependency, decided later | `TaskSchedule` |
| `ResourceLeveling` | over-allocation check, conflicts, manual and automatic levelling | `TaskSchedule` |
| `AuthSessions` | `AuthService`, `UserSessionContext` | |
| `WorkExecution` | work requests, orders, tasks, steps, labor of maintenance | |
| `Preventive` | the preventive engine and the completion of its work, for one plan | |
| `VersionedRows` | `update_with_version_check` and SQLite's one writer | |
| `BackgroundJobs` | task dialog, dashboard refresh and shift on the thread pool | `VersionedRows`, implements `AtomicEdits` |
| `AtomicEdits` | what editing promises: an edit is whole and never taken back | |
| `MC*` | constants, bounds and symmetry of the instances TLC checks | |
| `FiniteSums` | laws of sums over finite sets | `Functions`, `TLAPS` |
| `StockReservations_proofs` | theorems about stock, reservations and ledger | `StockReservations`, `FiniteSums` |
| `AuthSessions_proofs` | theorems about locks, sessions and principals | `AuthSessions` |
| `Maintenance_proofs` | theorems about orders, tasks, steps and packages, and about preventive plans | `WorkExecution`, `Preventive`, `FiniteSums` |
| `ProjectWork_proofs` | theorems about references and governance requests | `ProjectWork` |
| `Planning_proofs` | theorems about entries, periods and hours, the calendar, the network, its schedule and the levelling | `Timesheets`, `GovernedDependencies`, `ResourceLeveling`, `FiniteSums` |
| `BackgroundJobs_proofs` | theorems about jobs and sessions, refinement of `AtomicEdits` | `BackgroundJobs` |
| `Procurement_proofs` | theorems about requisitions, orders, decisions, receipts and requirements | `MaterialDemand`, `FiniteSums` |

A definition keeps the name of the method it models, in camel case; `map` in
`PROJECT.json` gives its lines. A definition marked *Mutant* is a deliberately wrong
variant of the definition below it, with which the corresponding property fails.
Rows are records, `None` a row that does not exist (`Unset` the null of a column in
`Preventive` and `Absent` a row in `Timesheets`, whose names differ from those of
`WorkExecution` and `TaskSchedule` because they have their theorems in one module). What no property tells apart is
left out: numbers, names, notes, costs, and time stamps nothing compares.
An operation that is one database transaction, with every check before the first
write or a rollback on failure, is one action whose guard is the conjunction of the
checks. Where the code commits more than once, there is one action per commit, and
the process may end, or an exception leave, between them.

### Stock and reservations

Every operation is one transaction, also `transfer_stock`, which posts twice, and a
reservation with its posting. The ledger of a position is summarised by the signed
quantity per entered UOM and the resulting quantities of its newest row, which is
all the properties need of it and keeps the state finite. Quantities are whole
numbers of the finest unit and UOM factors positive whole numbers; the rounding of
the code's floats is not modelled.

`AbstractStock` knows free and held units only: they arrive, leave, move, or change
between free and held. The refinement maps free to available and held to reserved.

### Procurement, approval and the session

`db` is the committed database; `ws` is what the session's statements see. An
operation that commits inside `try ... except: rollback` is `CommitOrRollback`, a
commit outside is `BareCommit`, and an exception nobody answers is `LeftOpen`: what
was written stays in `ws` and the next commit of any service makes it permanent.
Because autoflush is off, a query does not return a row that was only added; two
lines for one position without a balance therefore add two rows, whose flush fails
on the unique key (`clash`). A failed flush without a rollback leaves a session that
refuses all work until the process restarts.

`ApprovePurchaseOrder` runs the handler's loop over the order's lines (a recursive
function, as for the entries of a receipt), so a failure on any line leaves exactly what
the earlier turns wrote. The requisitions to refresh
are a Python set: the order in which they are visited, and so which were refreshed
before one fails, is a nondeterministic choice. The approval service's two commits
are two steps (`HandlerDone`, `FinishDecision`) with `deciding` between them, where
`Restart` may come. `UpdateMaster` stands for the saves of the item and storeroom
services; of their rows only what purchasing reads is kept. `Procurement` does not
use `StockControl`: receiving does not call the stock service.

`MaterialDemand` puts the requirements of maintenance work orders on the same session.
Create, update and refresh are one transaction each. An escalation commits the
requisition, its line, its submission if asked for and the link, so it is four actions
with `escalating` between them; the call may raise (`EscalationFails`) or the process
end at each. `update_requisition` may overwrite what a draft refers to, also of one a
requirement is linked to. What the stock service answers about a position is an input, since stock
is not part of this composition, and an order ends by `EndWorkOrder`, which stands for
the update that closes or cancels it.

### Time

`Timesheets` keeps allocations with their hours, entries and periods. An edit of an
entry checks the period of its old and of its new date, writes the entry and
recomputes the hours, in one action. Hours logged before the first entry exist only
on the allocation; the first entry seeds an opening entry for them, in the month the
code chooses. `unassign_resource`, `delete_task` and `delete_resource` of other
services remove entries without asking the periods.

### Projects and what refers to them

`ProjectWork` has one table per kind and a request table. Identifiers are never
reused, so `Gone` marks a deleted row and a dangling reference can be told from one
that was never there. SQLite's foreign keys are off in the application
(`src/infra/platform/db/base.py:35`), so a row goes only where a service deletes it:
what the tests see with the pragma on is not what is modelled. A governed change
carries the payload of the moment it was requested; its handler checks again, or
does not, as the code does. The handler's commit and the decision's are two: every
approval may also end with the change made and the request still pending.

### Calendar, schedule, levelling

A date is a number of days since a Monday. Forward and backward pass are functions
of rows, dependencies and calendar, recursive over predecessors and successors where
the code uses a topological order. Adding and removing a dependency recalculates;
editing a task does not.
`GovernedDependencies` adds the governed mode: `waiting` is the set of pending requests,
and an approval runs all checks again on the network of that moment. The dependency,
the dates and the decision are commits of their own, so an approval may end between
them. `ResourceLeveling`, built on the ungoverned network, adds one resource and two
kinds of actors. The window checks an assignment and commits it, and edits tasks,
progress, dependencies and the calendar. A run, manual or automatic, works in a thread of
its own with a session of its own: it reads the dependencies once, and the automatic one
reads tasks and loads, chooses and commits one shift per round (`leveling[r]` holds where
it is and what it has read). The dialog of a run blocks the window only until Cancel hides
it (`WindowFree`): the run goes on, since its token is read again only when it is over,
and edits, assignments and a second run happen between its commits. What protects it is
the version of the row alone: a shift whose task was written since it was read is refused
(`WhenWritten`), and the run ends. A run commits between the dependency that the window
adds and its recalculation, so those are two steps then (`LinkTasks`).

### Authentication

Time is in minutes. A client is a window or a worker with a copy of the principal; a
check of a client (`Valid`) reads the account and the persisted session again, as
`UserSessionContext` does. An operation reads the clock once.

### Maintenance

`WorkExecution`: every operation is a transaction, except converting a request of a
plan: order and request, then each task and step of the package, then the link of
the occurrence (`packing` holds where it is). An update of an order may also name another
request, which is neither converted nor linked to an occurrence, and switch
`is_preventive`, without which finished work completes nothing. `Preventive`: refresh of the schedule,
creation of the work, telling the plan, telling each task, are separate commits
(`running`). The two meet at the completion of work: `WorkExecution` says which
orders complete an occurrence, `Preventive` what that does to the schedule.

### Jobs and versioned rows

`VersionedRows` has committed rows, the one writer SQLite admits, and the rows its
transaction sees; an update needs the version it expects. `BackgroundJobs` adds
three kinds of actors. The UI thread: a dialog in which the user edits a task, in
the steps flush, commit, announce; the event loop, which handles one signal of a job
at a time, also while a dialog is open but not during a save. The refresh of the
dashboard: `inflight` and `pending` as in `async_actions.py`. The shift of a task:
load, write, commit, recalculate the project, write each task, commit. A job reads
its token where the code does, ends as success, failure or cancelled, and a failure
may ask for a retry. A locked database makes a write fail, never wait for ever.

## 3. Runs

| Run | Instance and bounds | Properties |
|---|---|---|
| `stock` | 1 item, UOMs EA and BOX of 2, 2 storerooms that open and close to issue, transfer and reservation, 2 reservations, quantities 1-2, on hand up to 3 | `TypeOK`, `StockInv`, `ReservationAccounting`, `ReservedBacksReservations`, `LiveReservationClosable`, `LedgerExplainsOnHand`, `TransferConserves`, `ImplementsAbstractStock` |
| `purchasing` | 2 orders of up to 2 lines, 2 storerooms, 7 receipts, item and storeroom switched off and on, restarts | `RowsConsistent`, `OnOrderMatches`, `OnHandIsAccepted` |
| `sourcing` | 2 requisitions of 1 line, 2 orders of up to 2 lines, 2 material requirements, restarts | `DecisionApplied`, `NotOversourced`, `DemandTraced` |
| `timesheets` | 1 resource, 2 allocations, 3 entries, 2 months of 2 days (3 dates), up to 4 hours | `TimesheetsAgree`, `FrozenEntriesStay`, `LoggingNeverLosesHours` |
| `project_work` | 2 projects, members, tasks, costs and requests, 1 resource, assignment, event and baseline, 3 versions of a cost | `RowsResolve`, `OneRequestPerItem`, `ApprovedEditIsFresh` |
| `schedule` | up to 3 tasks, 4 dependency types, lags 0 and 2, durations 0-3, 5 weeks, 1 holiday, 3 edits, up to 2 requests | `CalendarExact`, `NetworkStaysSound`, `DependenciesHonoured`, `RecalculationStable`, `FloatExact` |
| `leveling` | 3 tasks around a weekend, one resource, strict policy, 2 runs of up to 2 rounds, 2 edits or starts of runs, up to 2 dependencies, 1 holiday, shifts of 1 day | `LevelingKeepsDependencies`, `StrictPolicyHolds` |
| `auth_sessions` | 1 user, 2 clients, 2 sessions, threshold 2, lock 2, timeouts 1-2, 4 minutes, 3 revisions | `LockFollowsCounter`, `LockHolds`, `RotationReachesClients` |
| `work_execution` | 3 requests, two of plans, 2 orders, 2 tasks and steps, 1 employee | `WorkConsistent`, `ConversionTraced`, `FinishedOrderFrozen` |
| `preventive` | 1 plan of either policy and any mode, 2 tasks of which one has a sensor trigger, a week, 3 pieces of work, 2 readings | `OncePerOccurrence`, `CadenceKept`, `OncePerReading`, `NoOccurrenceSkipped` |
| `background_jobs` | 2 rows, 2 edits, 2 refresh and 2 shift handles, 2 acts | `RefreshOwed`, `DashboardCatchesUp`, `ImplementsAtomicEdits` |
| `partial_approval` | 1 requisition line, 2 orders of up to 2 lines | `OnOrderMatches`, violated |

All but the last hold. What they show:

- `stock`: whatever is reserved, issued in parts, released, adjusted or transferred,
  and whenever items and storerooms are switched off, a balance is consistent, its
  ledger explains it, its holds are those of live reservations, and none of the
  seven operations takes a held unit. `ReservedBacksReservations` needs UOM factors
  that stay as they were: the instance never changes them (`NoUomUpdate`); section 5
  says what happens when they change.
- `purchasing`: stock and on-order quantities follow the orders through approvals
  and receipts that fail on a later line. `OnOrderMatches` holds because no order
  there has a source requisition: only sourcing can make the approval loop raise
  (`partial_approval`). A duplicate balance row can still break the flush, which
  costs the session, never the data.
- `partial_approval`: the first of an order's two lines is refused. The order was marked
  approved and the line put on order before the refusal, and the second line was never
  reached; the next commit of anything publishes this. The order is approved, and of what
  it still has to deliver only the first line is on order.
- `sourcing`: two orders that each fit the demand when drafted never source more than
  it, and a recorded decision was applied. Whatever updates, refreshes and escalations
  do to a requirement, and wherever one of these ends, its status agrees with its
  quantities and its link, and the link leads to a requisition that has lines and that no
  other requirement is linked to. That the requisition still names this requirement is not
  claimed: an update of the draft may change it (section 5).
- `timesheets`: an entry of a submitted, approved or locked month stays as it is
  while its allocation exists; hours are the sum of the entries; seeding loses none.
- `project_work`: an assignment has its task, that task's project and its resource, a cost
  item its project and task, an event its own, and a resource is on a project once;
  memberships and baselines of a deleted project do stay behind and are not spoken of
  (section 5). A governed edit is applied to the version its requester saw, and one item
  has one pending request.
- `schedule`: in every network the schedule honours the dependencies (with a lag of
  at least 0), recalculating its own result changes nothing, and with finish-to-start
  links the latest start is exact: it keeps the finish, a day later does not. No
  sequence of edits, requests and late approvals makes a cycle, not even two requests
  each of which was valid when made.
- `leveling`: a shift by hand or by the automatic run, also of one that was cancelled, goes
  on beside another or is lost halfway, breaks no dependency that its run has read and
  that held, whatever the window edited since. The restriction to what the run has read
  is needed: without it TLC finds the run that shifts a task which got its first successor
  after the run began (section 5). A strict assignment makes no new conflict in the
  schedule it was checked against, in a week from Monday to Friday.
- `auth_sessions`: a lock starts at the threshold, holds for its time, and the
  counter restarts with it; a new revision fails the next check of every other client.
- `work_execution`: statuses, stamps, steps and tasks agree over every path, a
  finished order is frozen but for labor, an occurrence waits for an order only after its
  own request was converted and for one no other occurrence waits for, and every
  completed occurrence has a finished order of its own, also when orders are turned to
  other requests.
- `preventive`: work the plan was told of is for different due dates, a fixed plan
  keeps its cadence, a floating plan follows completions, a reading triggers a task
  once. Work the plan was *not* told of may be a duplicate (section 5).
- `background_jobs`: edits of the dialog and shifts are whole, and none overwrites one
  it has not read; a request for a refresh outlives the refresh that ran when it
  came; the dashboard catches up.

### Bounds, and why they are enough

Two orders are the fewest that compete for one line, two lines the fewest for a
failure after a write, two storerooms the fewest for a transfer, two reservations the
fewest that share a hold; quantities 1 and 2 make partial and full issues, receipts
and sourcing possible, and a BOX of 2 tells entered from converted quantities.
`SomeReceipts` has a partial and a full delivery, rejected units, two lines at once,
and a second entry that fails after the first was written. Three entries and two
months make moves between periods and seeding beside existing entries possible.
Three versions of a cost allow two edits, so that an approved edit can be stale.
Three tasks make chains, merges and bursts; five weeks (Monday to Friday, all days,
three scattered days, one day, two days) and a holiday make breaks of every kind.
Two handles of each kind are the fewest that run beside each other, and one row
without and one with a successor distinguish shift from recalculation.

`Focus` constraints keep the instances within minutes by varying one aspect at a
time; every one names what it bounds in its comment:

- `stock`: both storerooms with one reservation in EA and 2 units, or one storeroom
  with everything;
- `project_work`: members, assignments and events without requests, or costs,
  baselines and requests with one task;
- `sourcing`: one requisition that no requirement asked for and both orders, one of them
  with at most one line, or the requirements with both requisitions before these are
  ordered; requirements are of one unit when there are two requisitions, and two
  requirements also have nothing issued and their work orders under way;
- `schedule`: no task and every calendar; two tasks with actual dates and two weeks;
  three tasks without actual dates in the usual week; requests for plain finish-to-start
  links between tasks of two days;
- `leveling`: no run, at most one edit, a holiday and tasks of any duration; one run among
  assignments and progress, without dependencies; one run with two dependencies, two runs
  with one, among edits of tasks of two days;
- `work_execution`: tasks and steps change under one order that nobody edits; with two
  orders and edited ones they stay as created and one order at a time is under way;
- `preventive`: a calendar plan without readings; sensor and hybrid plans with the
  fixed policy, for three days.

A constraint cuts states off the search, it changes no action. `MaxOnHand`, `MaxLedger`,
`MaxTime`, `MaxRevision`, `MaxEdits`, `MaxWork`, `MaxReadings`, `MaxMinutes`, `MaxNumber`,
`MaxHours`, `MaxShift`, `MaxIterations` (the levelling's own limit) and `MaxActs` only stop
growth. Symmetry is over interchangeable identifiers and used only in runs without
a liveness property (the refinements checked in `stock` are safety formulas).

Deadlock is checked where the program can always go on in the model too (`stock`,
`purchasing`, `sourcing`, `timesheets`, `auth_sessions`). In the others the bounds on
identifiers, time or acts end the run, so the configuration turns it off.

### Fairness

Only `BackgroundJobs` assumes any: weak fairness of the save of an open dialog once it
is begun, of each job's work, and of handling each job's signals. The code justifies
them: a save is straight-line code on the UI thread, the pool (`QThreadPool`) runs
every runnable it was given, and the Qt event loop delivers queued signals. Nothing
obliges the user to act, to answer a question or to cancel, and nothing makes a job
fail. Hence the exceptions in `DashboardCatchesUp`: a refresh that ended as failed or
cancelled, an open question, a retry that ran beside another refresh. Everywhere else
operations run when a user asks for them and no liveness is claimed.

## 4. Proofs

The theorems hold for any sets of identifiers, any quantities, thresholds, dates and
bounds that satisfy the named `ASSUME`s of the modules, which TLC evaluates in every run:
`None` and `Unset` are no other value, quantities are positive, inputs have their declared shape, a
requisition is no order, a row of a task and a pair of dates are not `None`, a dashboard
has a handle for its refresh. `References`, what a
requisition may be made for, holds the material requirements.

| Module | Theorem | States |
|---|---|---|
| `StockReservations_proofs` | `TypeCorrect` | `Spec => []TypeOK` |
| | `StockConsistent` | `Spec => []StockInv`; `BalancesConsistent` and `LedgerCurrent` are its halves |
| | `ReservationsAccounted` | `Spec => []ReservationAccounting` |
| | `TransfersConserve` | `Spec => TransferConserves` |
| | `StockRefines` | `Spec => ImplementsAbstractStock` |
| | `ReservationsBacked` | `Spec /\ [][UomsKept]_vars => []ReservedBacksReservations` |
| | `LiveReservationsClose` | `Spec /\ [][UomsKept]_vars => []LiveReservationClosable` |
| | `ClosableSuffices` | when the checks pass, the rows a release writes make a step of `Spec` |
| | `LedgerExplains` | the same hypothesis and `IsFiniteSet(Uoms)` imply `[]LedgerExplainsOnHand` |
| `AuthSessions_proofs` | `SessionsTied` | `Spec => []IInv` |
| | `LockCounts` | `Spec => []LockFollowsCounter` |
| | `LocksHold`, `RotationsReach` | `Spec => LockHolds`, `Spec => RotationReachesClients` |
| `Maintenance_proofs` | `WorkInvariant` | `Spec => []IInv` |
| | `WorkStaysConsistent`, `ConversionsTraced` | `Spec => []WorkConsistent`, `Spec => []ConversionTraced` |
| | `SourcesTraced` | `Spec /\ [][SourcesKept]_vars => [](SourcesConverted /\ OccurrenceNeedsFinishedWork)` |
| | `FinishedOrdersFrozen` | `Spec => FinishedOrderFrozen` |
| | `EngineInvariant` | `EngineSpec => []EngineInv` |
| | `ReadingsGenerateOnce` | `EngineSpec => []OncePerReading` |
| | `OccurrencesGeneratedOnce` | `ShortLeads` implies `EngineSpec => []OncePerOccurrence` |
| | `CadenceIsKept`, `OccurrencesNotSkipped` | `SteadySchedule` implies `EngineSpec => []CadenceKept`, `EngineSpec => NoOccurrenceSkipped` |
| `ProjectWork_proofs` | `ProjectInvariant` | `Spec => []IInv` |
| | `ReferencesResolve`, `OneRequest` | `Spec => []RowsResolve`, `Spec => []OneRequestPerItem` |
| | `ApprovalsFresh` | `Spec => ApprovedEditIsFresh` |
| `Planning_proofs` | `TimesheetsStayInAgreement` | `TimeSpec => []TimesheetsAgree` |
| | `FrozenEntriesAreKept`, `LoggedHoursAreKept` | `TimeSpec => FrozenEntriesStay`, `TimeSpec => LoggingNeverLosesHours` |
| | `ScheduleInvariant`, `NetworkIsSound` | `GovernedSpec => []SInv`, `GovernedSpec => []NetworkStaysSound` |
| | `CalendarIsExact` | `GovernedSpec => []CalendarExact` |
| | `DependenciesAreHonoured`, `RecalculationIsStable` | `GovernedSpec => []DependenciesHonoured`, `GovernedSpec => []RecalculationStable` |
| | `FloatIsExact` | `GovernedSpec => []FloatExact` |
| | `LevelInvariant` | `LevelSpec => []LevelInv` |
| | `ShiftsKeepDependencies` | FS and SS only, every task with a duration: `LevelSpec => LevelingKeepsDependencies` |
| | `StrictAssignments` | strict policy, loads within the capacity, no work after Friday: `LevelSpec => StrictPolicyHolds` |
| `BackgroundJobs_proofs` | `JobsInvariant` | `Spec => []IInv` |
| | `NoRefreshOwed` | `Spec => []RefreshOwed` |
| | `EditsAtomic` | `Spec => ImplementsAtomicEdits` |
| `Procurement_proofs` | `ProcurementInvariant` | `Spec => []IInv` |
| | `ProcurementRowsConsistent`, `StockIsWhatWasAccepted` | `Spec => []RowsConsistent`, `Spec => []OnHandIsAccepted` |
| | `DecisionsAreApplied`, `RequisitionsAreNotOversourced` | `Spec => []DecisionApplied`, `Spec => []NotOversourced` |
| | `OnOrderIsOutstanding` | `Spec /\ [](ws = db) => []OnOrderMatches` |
| | `OnOrderWithoutSourcing` | `Reqs = {}` implies `Spec => []OnOrderMatches` |
| | `DemandInvariant` | `DemandSpec => []DemandIInv` |
| | `LinksLeadToDemand` | `DemandSpec => []DemandTraced` |
| | `DemandDecisionsApplied`, `DemandNotOversourced` | `DemandSpec => []DecisionApplied`, `DemandSpec => []NotOversourced` |

Action properties and refinements are proved step by step: a step from a state that
satisfies the inductive invariant is one the property allows. Every proof that a step
keeps an invariant has one case per action.

**Sums.** `FiniteSums` has the laws of the sum of a function over a finite set as the
community modules define it: a sum of integers is an integer, what one changed, added or
removed member does to it. The induction is by a minimal counterexample
(`MinimalSubset`), since theorems with an operator parameter cannot be instantiated.

**Stock.** `TypeOK` is inductive by itself: the lemmas on UOM configurations show that
creation and update leave positive factors, so conversion yields integers. It includes
that a reservation's quantities are natural numbers, for which the guard of
`IssueReservedStock` is needed. `BalanceConsistent` is not inductive alone: a posting
builds on the current balance, or on a new row where there is none, and the reservation
posting needs a balance to exist; `StockInv` is its conjunction with `LedgerIsCurrent`,
and each of the three posting methods is shown to keep it from the checks that it makes
itself (`PostsConsistently`). `_post_transaction`, for instance, never checks that
available is not negative: that follows from its comparison of on-hand with reserved and
the invariant. `ReservationAccounting` is inductive over `TypeOK` and the transition
table: a cancel of a partially issued reservation is refused by the table alone.
`TransferConserves` follows from what one step may do: every action but `TransferStock`
writes one position, and the two halves of a transfer convert with one item's factor and
cancel out. These theorems, and `StockRefines`, cover UOM updates too, which the `stock`
run leaves out. For the refinement, `Rebalances` says what the two deltas of a posting do
to the free and held units of a position; each operation is one case of it.

`ReservationsBacked`, `LiveReservationsClose` and `LedgerExplains` have a hypothesis, `UomsKept`: no step changes
the UOM configuration of an existing item. It is what section 5 shows to be needed, and
what the configuration of `stock` ensures with an empty `UomUpdates`. They need more than
their property: that only finitely many reservations exist and each has its item
(`BackInv`), that a position with a ledger has its item (`LedgerAt`), and that a
reservation is in a unit of its item and a live one has something left (`OpenRows`). One
live reservation's part of the sum is at most the sum (`OwnHold`), so its release finds a
balance and does not take reserved below zero. `LiveReservationClosable` is stated with the
checks of the code (`Closable`) instead of `ENABLED`, which the prover cannot unfold; that
the checks are all a release needs is a theorem of its own, `ClosableSuffices`.

**Authentication.** `TypeOK` is not inductive here: that a principal built from a session
has an expiry needs the session to exist. `IInv` adds `Tied`: a principal's session
exists, is its user's, and its revision is not ahead of its account's. Then a rotation,
which raises the revision, makes every other client fail its next check.

**Work execution.** `IInv` adds that the task of a step exists, and what an occurrence and
the conversion under way know of their order; it is split by the table its parts are
about. Since an order may be turned to another request, its source says little about the
occurrence: the invariant goes by the link, which no two occurrences share. Every completed
occurrence is given a finished order of its own (`BackedByWork`): completing one more
extends that choice, and a finished order stays finished. While no order is turned
(`SourcesKept`), `SourcesTraced` adds the stronger relation: the request of an order stays
converted, and an occurrence is completed by finished work of its own request.

**Preventive engine.** A run commits the work first and tells the plan, and then its
tasks, later; the properties compare the two. `EngineInv` says what a run under way can
rely on: its work is the last row, and until the plan is told, the next due date is the
run's and the planned dates are the horizon from it (`RunOK`); only calendar plans have
dates. A run is `Starts`, `Tells` and a `TellsTask` per task, three restatements of the
actions with their results named, so that every invariant has the same cases.

`ReadInv` gives `OncePerReading` without a hypothesis: once a task was told, the last
reading is `Answered` in its state (a rising counter is past the value, another trigger was
generated at or after the reading), which no run that starts finds due. It holds for tasks
that follow a sensor plan and for tasks with a sensor of their own, in every direction.

`OccurrenceInv` puts the plan's next due date after that of all work it was told of, and
every due date within the lead of today. It needs `ShortLeads`: no edit sets a due date, and
a lead is shorter than the frequency (section 5 says what happens otherwise); tasks with
their own trigger, horizons of one and interrupted runs are covered. `CadenceInv` says that
the planned dates are none or the horizon from the next due date, which is a multiple of the
frequency for a fixed plan, and a frequency after the last completion for a floating one. It
needs `SteadySchedule`: no edit sets a due date, tasks follow their plan, and the horizon
has a second date; section 5 shows each of the last two to be needed. Both conditions are
on constants, and the `preventive` run satisfies the first, and the second but for its
task with a sensor, which its constraint leaves without readings under a calendar plan.

**Projects.** `RowsResolve` says which references lead to rows, and only these: those of
assignments to task, project and resource, of costs and events to project and task, and
of memberships to resources. It needs that every live task has its project, and that an
assignment's membership is known, if deleted; identifiers are not reused. What the
requests of each type say (`RequestsFormed`) gives `OneRequestPerItem` and
`ApprovedEditIsFresh`.

**Time.** `TimesheetsAgree` is inductive once the entries that exist are finitely many
(`FiniteLive`), without which a sum of hours is no number. Nothing is assumed of the set
of identifiers: every operation adds at most two entries.

**Calendar.** A run of days off is shorter than `LongestBreak`: a working weekday recurs
every week, and holidays cannot fall on one more of its days than there are holidays
(`BreakEnds`, by the pigeonhole principle). From there everything is counting: the recursive functions of `AddWorkingDays` are shown to
have one value (`Iterates`), the n-th working day is the one with n working days up to it
(`ForwardCounts`, `BackwardCounts`), and two working days with the same count are one
(`CountUnique`).

**Network.** `SInv` adds to `NetworkStaysSound` that finitely many dependencies exist and
that a request for an addition knows tasks that exist, or knows that its predecessor is
gone. `AcyclicMore` is the one argument about cycles: a new link closes one only when its
predecessor was reachable from its successor, which `DependencyValid` refuses at the
moment of the approval.

**Schedule.** The schedule is a recursive function over the network. In a finite network
without cycles every set of tasks has a first one, without a predecessor in the set
(`SomeFirst`); a set with a schedule that cannot be enlarged, and a first task two
schedules disagree on, give that the recursion has exactly one solution (`EarlyExists`,
`EarlyUnique`). A property of the schedule then follows from one step of it (`EarlyOne`):
each candidate honours its dependency in whole working days (`CandidateHonoured`), so the
latest of them honours all; and with the dates written into the rows the same function
solves the recursion again (`SameDates`), so a second recalculation writes the same.

**Float.** The backward pass has one solution too (`LateExists`, by a last task,
`SomeLast`). The argument for `FloatExact` is that it undoes the forward pass: going n
working days forward from a day does not pass a working day exactly when the day does not
pass what is n - 1 days back from it (`Adjoint`). So a task that starts by its latest start
ends by its latest finish (`InTimeFinish`) and asks its successors for no more than theirs
(`InTimeLink`). From the last task back: when nothing ends after the finish, every task is
in time (`AllInTime`), which a start after the latest one contradicts. From the first task
on: with one task started on its latest start, all stay in time (`StillInTime`), and none
gets earlier (`NoneEarlier`), so the finish stays where it was.

**Levelling.** A shift moves a task that has no successors to a later start, so the
dependencies it may break are those it is a successor in, and what counts working days
up to its start only grows (`HonouredLater`). That needs the start to have had an end
(`EndsKnown`): a task without a duration can have a start alone, its dependencies say
nothing, and a shift gives it dates that may break them. A dependency on the finish is
honoured by the end, which a shift computes anew in a calendar that may have changed.
Between the choice of a task and the commit of its shift anything may be edited.
`RunsOK` says what is left of the choice (`ShiftReady`): the task exists, starts no later
than the shift has it, and has no successor among the dependencies the run has read. That
the task is as it was chosen is the version check: `WhenWritten` refuses the shift after
any write of its row, so every edit keeps `ShiftReady` for the shifts that are left.
`StrictAssignments` compares the sum the check adds up with the load of the new state,
over the schedule of the check (`CheckOK`), since shifts may have been committed since; the
loads cannot have changed, because the window does one thing at a time. Its conditions on
the week and on the loads are those section 5 and the code (`task/validation.py:121`)
show to be needed, and hold in the `leveling` run.

**Jobs.** The sessions read at one time and write at another, so `IInv` says what each
still knows. What a job has loaded and what the dialog was opened on is an earlier state
of the rows (`Behind`: an older version, or the same content). The session with the write
lock is the dialog's or one shift's, and what it would commit, `dirty`, is its edit
applied to the rows as they are now (`OneWriter`): no other session can commit meanwhile,
and the version check refused it if one had before. A commit is therefore one step of
`AtomicEdits`. For the dashboard, the refreshes under way and the two flags account for
every announcement not yet shown (`RefreshFlags`), except after a doubled retry.

**Procurement.** What the committed tables promise has to hold of the session's tables
too, because a commit of any service publishes them: `IInv` is one predicate, `TabInv`, of
`db` and of `ws`, with the fact that a decision under way has been applied in `ws`
(`Handled`). `TabInv` adds to the properties that sourced lines exist, that an order's
status suits its lines, and that a request which is decided, or not yet made, agrees with
its entity. It bounds what the lines of an order ask of a requisition line by what
*counting* orders have sourced (`SourcedBy`): orders decided, or waiting with lines already
written, which is what a half persisted approval leaves. Each operation is shown to take
`ws` to tables one step away (`TablesStay`; `Moved` when the balance below stays too),
whether or not the commit succeeds, and `SessionStep` says that a step of the module does
no more than that, or goes back to the committed tables.

The two handlers loop, the approval over the lines of the order and the receipt over its
entries. Their loops are recursive functions in the model; that they have a value for every
length, and that what one turn keeps (`ApprovalTurn`, `ReceiptTurn`) holds after the last
one, is by a least counterexample, not by an induction theorem. The sums over lines
(`Asked`, `Due`, `Delivered`) change by one member per turn, by the laws of `FiniteSums`;
that finitely many orders exist is part of the invariant.

On-order quantities are not in `TabInv`. `Balanced` is kept by every operation but an
approval that stops half way (`LeftHalfway`), which `partial_approval` shows to break it
once a later commit publishes its writes. Such a step is the only one that leaves the
session's tables different from the committed ones, so `OnOrderIsOutstanding` says: as long
as `ws = db`, on-order quantities are what open orders still have to deliver, also when
several orders source one requisition line and receipts fail. The behaviours with
`ws = db` are those in which no approval raises after it has written. The handler raises
only at a line that would oversource its requisition line, or at a requisition that may
not change its status, so where no requisition can exist, as in the `purchasing` run, the
hypothesis falls away (`OnOrderWithoutSourcing`). A doubled new balance row breaks the flush before anything is
committed and needs no hypothesis.

`MaterialDemand` needs of a step only `TablesStay`: a step of `Procurement` changes no
requirement, takes no requisition away and no line from one (`ReqsStay`), so
the links stay. `EscalationOK` says what an escalation between two of its commits has
already made: the requisition, its line, no failed flush pending, and no requirement linked
to it yet. That a requisition is linked to one requirement alone (`SoleLink`) holds because
an escalation links only what it made itself; `update_requisition` changes what a draft
refers to, which the invariant therefore says nothing about.

Only model-checked: `DashboardCatchesUp`, a liveness property under weak fairness, which
is out of the prover's reach.

## 5. Where the code and its documents differ

`partial_approval` shows one difference as a run: an approval that is refused at the first
of two lines is half persisted by the next operation. The order is marked approved first
(`purchasing_receiving.py:218`), each line is put on order before its sourcing is checked
(line 228, line 254), and the lines after the refused one are never reached: they are
outstanding and not on order, against `docs/inventory_procurement/README.md:514`. The others were met while modelling;
each was a counterexample of the model with the property named, which is not kept as
a run. The properties of section 3 are worded so that they hold beside them.

Inventory and approval
- A reservation of 1 BOX holds 2 EA; the factor becomes 1
  (`item_master/service.py:327`); the release returns 1 EA and the other stays
  reserved for nobody, against `docs/inventory_procurement/README.md:375`.
- `update_item` accepts a new stock UOM and leaves balances in the old one; the next
  posting relabels them (`stock_adjustments.py:231`), against
  `docs/inventory_procurement/README.md:536`.
- The process ends between a handler's commit and the request's
  (`core/platform/approval/service.py:173`): the order is approved, its request
  pending, and neither decision can be taken any more, against
  `docs/technical_doc/infra/db/README.md:100`. The same end of a governed change leaves
  a request that can be approved again: a cost item or a baseline is then made twice
  (an edited item is protected by its version), and a dependency's request can only be
  rejected. A recalculation that raises after the dependency was stored
  (`task/dependency.py:82`) has the same effect without any crash.
- An escalation that raises midway, because the caller may not request approvals for
  instance, leaves a requisition, with or without its line, that nothing links or takes
  back (`maintenance_integration/service.py:258`); the next escalation makes another.
- A requirement that has its requisition can be escalated again. The link is replaced,
  and so is the status, `FULLY_ISSUED` too (`material_requirement/service.py:415`). An
  update may change its item while the link stays (line 294), and neither the
  cancellation nor the receipt of the requisition reaches it. And `update_requisition`
  turns a linked draft to another demand (`procurement_lifecycle.py:266`): the
  requirement's link then leads to a requisition that names something else. No document
  excludes these; `DemandTraced` states what remains true.

Projects and time
- Removing an assignment, a task or a resource deletes entries of submitted,
  approved and locked months (`task/assignment.py:51`), against
  `docs/PRO_SET_IMPLEMENTATION.md:73`, "edit blocking for submitted, approved, and
  locked periods". `FrozenEntriesStay` therefore speaks of allocations that stay.
- `delete_project` leaves memberships and baselines to `ON DELETE CASCADE`, which
  SQLite does not run without its pragma; only `tests/conftest.py:61` sets it. Against
  `docs/technical_doc/infra/db/README.md:58`. `RowsResolve` is about the references
  that queries follow without looking.

Maintenance
- `update_work_order` turns an order to any request that exists
  (`work_order/service.py:434`): the new one is not converted and no occurrence is linked
  anew, so an order may name a request in any status, and its occurrence stays with the
  request it came from. With `is_preventive` switched off (line 504) the order finishes
  without completing its occurrence. No document speaks of either; `ConversionTraced`
  goes by the link of the occurrence, and `SourcesTraced` states what else holds while no
  order is turned.
- An order is completed and closed with open mandatory tasks
  (`work_order/service.py:397`), against `docs/maintenance_management/README.md:1840`.
- A task with rule `NO_STEPS_REQUIRED`, the default, completes with open steps
  (`work_order_task/service.py:297`), against `README.md:1842` there.
- Labor is booked on a closed order (`labor/service.py:30`, `labor/adapters.py:84`),
  against the message at `work_order_task/service.py:291`. `FinishedOrderFrozen`
  excepts it.
- A conversion that ends after the order's commit loses the package and nothing
  resumes it (`work_order/service.py:341`), against `README.md:5` there.
- A run of the engine that ends between the work and the plan is repeated and makes
  the same work twice (`preventive/service.py:341`), against `README.md:2487`
  ("idempotent"). `OncePerOccurrence` speaks of work the plan was told of.
- With a horizon of one occurrence, the schedule of a fixed plan starts again from the
  day of the run (`preventive/service.py:803`); with a task override due alone, the
  next sync deletes a planned occurrence (line 805). Both against `README.md:2486`.
  The instance of `preventive` has horizons of 2 and 3, and no reading under a
  calendar plan.
- A floating plan whose lead is as long as its frequency can generate for the same day
  twice: its work is made and completed before the date, and the schedule starts again
  from the completion (`work_order/service.py:698`), against `README.md:2487`. No
  service compares the lead with the frequency. The instance has leads of 0 and 1 and a
  frequency of 2.

Scheduling
- For FF and SF a lag of 1 is the same as a lag of 0
  (`scheduling/engine.py:214`), against the comment at line 212. `Honoured` counts
  the lag as the code does.
- The latest start of a task with only start-to-start successors ignores its own
  finish (`scheduling/passes.py:96`): the task that ends the project may have float
  and nothing is critical, against `tests/test_cpm_flow.py:46`. `FloatExact` is stated
  of finish-to-start links.
- An actual start given later on its own may come after the stored actual end
  (`task/lifecycle.py:283`), against the message at line 286.
- A recalculation writes dates beyond the project's end, which `create_task` refuses
  (`task/validation.py:60`).
- A working Saturday is not checked for over-allocation (`task/validation.py:121`),
  against `ui/modules/project_management/calendar/working_time.py:33`. The week of
  the `leveling` run is Monday to Friday.
- `conflicts_after` is counted before a recalculation that moves tasks back
  (`dashboard/service.py:127`), and a run that stops at an unmovable conflict may have
  made others (`leveling_service.py:171`), against
  `tests/test_dashboard_leveling_flow.py:49-50`.
- An automatic run reads the dependencies once (`leveling_service.py:132`). After Cancel
  has hidden its dialog the user may add a dependency; the run still takes its predecessor
  for a task without successors, and the next shift breaks the dependency until the
  schedule is recalculated. `LevelingKeepsDependencies` is about dependencies the run has
  read. No document speaks of it.
- A shift of such a run may also be committed between the check of an assignment and its
  commit (`task/assignment.py:135`, line 147), and leave a conflict the strict policy was
  to refuse. `StrictPolicyHolds` is about the schedule that was checked.

Jobs. No document excludes these; they are behaviours of `BackgroundJobs` a reader
should know.
- A retry of a refresh that failed while another was requested runs beside the pending
  one: two refreshes share one inflight flag, and the older result may be shown last.
  `doubled` counts such retries and the two properties exclude them.
- The cancel token is read again after the work has committed: the job reports
  cancelled, nobody announces the change.
- A retried shift repeats the part its first try committed.
- When the audit entry behind a save meets a locked database, the save is stored but
  reported as failed and not announced.
- The result of a refresh enables the levelling buttons while a shift is running
  (`leveling_ops.py:210`); two shifts then run at once, and when both are about one task
  the version check makes one of them fail. `ResourceLeveling` has both runs.
- With `allow_retry` and a visible tab, closing the retry question calls no error
  callback.

## 6. Not modelled, and why

Throughout: permissions (the callers are permitted), organisations (one is active),
floating-point rounding, costs and prices, formatting and parsing, audit contents,
screens other than the dashboard, migrations. Two sessions at a time are modelled for
task rows only (`BackgroundJobs`), with SQLite's default locking; the other services
run on one thread. Requisition and order lines and approval requests are written
without a version check, but only the UI session writes them, so nothing interleaves.

Within modelled parts: calendar units other than days (months and their clamping) in
`Preventive`; lateness against deadlines in `TaskSchedule`; a refresh's reads are one
step; reserving, issuing and returning material for a work order, which delegate to the
operations of `StockReservations`; the second call of the task dialog (status), closing
windows and events emitted on a worker thread in `BackgroundJobs`; password hashing, one-time codes and roles in
`AuthSessions`.

Components left out:
- *Maintenance master data* (locations, systems, assets, components): single-row
  services. The only check across rows is that a row is not its own parent; a move
  leaves the children where they were and a longer cycle is accepted, so no
  invariant across rows holds, and no document claims one.
- *Authorization and scopes, licensing and entitlements*: each check rereads the rows
  it is about; a property would repeat the guard.
- *Reliability, exceptions and mappings of sensors, portfolio, register, collaboration,
  finance figures, reports, import and export*: statistics and read models, or
  services of one row with no order of calls to get wrong.
- *Organisations, parties, documents, runtime tracking, other repositories, service
  registration, updater, HTTP facade, screens*: wiring, files and presentation, most
  of the code's lines. *HR, payroll, QHSE*: empty packages.

Hazards with no property: the doubled retry, the late cancel, the audit entry behind a
save, the changed UOM factor and the package that ends halfway: the code has the behaviour
described in section 5 and no property of it to keep.

## 7. Plan

1. Done: stock, reservations, procurement, approval, the session; first theorems.
2. Done: time, projects, calendar, schedule, levelling, authentication, work execution,
   preventive engine, material requirements, jobs over versioned rows; two refinements; liveness.
3. Done: the theorems of section 4, among them both refinements and the sums.
4. Done: `Procurement`, with both handlers' loops, and `MaterialDemand` on top of it.
   `OnOrderMatches` is a theorem as long as no approval leaves half its writes in the
   session; a half persisted one (section 5) breaks it.
5. Done: every property of `Preventive`, the last two under conditions on the schedule.
6. Done: the calendar, the network under governance, the forward pass, the levelling.
7. Done: the backward pass as the adjoint of the forward pass, the release of live
   reservations.
