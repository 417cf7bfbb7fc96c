# A TLA+ model of job_processor

job_processor keeps jobs in a DuckDB file, runs them once or on a cron
schedule, and shows them on a page that refreshes itself.  These modules model
what is hard to test in it: the job manager with everything that happens around
it at the same time, one execution from the inside, the life of the process from
start to shutdown and restart, the way pages learn of changes, pages of results
that are cut while results come and go, and the polling of a remote job.  TLC
checks small instances; TLAPS proves what matters most for any instance.

## The system

| Part | Source | State | Operations |
|---|---|---|---|
| Job manager | `jobpro/job_manager.go` | `jobs`, `cronEntries`, `runningJobs`, `scheduledJobs`, `mu`, `wg`, `results`, `jobsUpdated`, `shutdown` | Setup, Start, Stop, Pause, Resume, Reschedule, TriggerNow, Delete, `executeJob`, `processResults`, Shutdown |
| Store | `jobpro/duckdb_store.go` | tables `jobs`, `job_results` | Save (an upsert), Get, UpdateJobStatus, Record, Delete (a transaction), queries, clean-up |
| Cron library | robfig/cron | its entries | AddFunc, Remove, Stop, firing |
| Timers | `jobpro/scheduled_job.go` | one timer per scheduled one-time job | RunAt, Stop, callback |
| Jobs | `base_job.go`, `scheduled_job.go`, `logging_job.go` | the select of one execution | Run: work, cancellation, time limit |
| Update flow | `pubsub/` , `/jobs/update-notify` | subscribers, one channel each | listen, publish, subscribe, unsubscribe |
| Shutdown | `shutdown/`, `main.go`, `jobpro/init.go` | hooks | signal, run the hooks, exit |
| Registration | `jobpro/register.go` | job configurations | Setup then Start of each |
| Web | `web/` | none in the server; the rows and the load-more button in the browser | one manager call per request, tables, pages of results |
| StreamSets | `plugins/streamsets/` | a remote job | start, poll until active, poll until final |
| Utilities | `util/` | none | time and cron text |

How they interact.  Web requests and registration call the manager, each under
`m.mu`.  An execution is a goroutine: spawned by a request, by a timer's
callback, or by cron; it takes `m.mu` for its checks and again never, and sends
its result on a channel without blocking.  One processor goroutine takes the
results, **writes the store without `m.mu`**, then takes `m.mu` to forget the
cancel function, then calls `wg.Done`.  Operations and processor signal on a
channel of one place; the listener turns a signal into a publish, and a page that
gets a message asks for its rows, with two statements on the store.  A job may
run a remote job by polling it.  A signal of
the operating system fires the shutdown hooks; the manager's hook waits for
`m.wg` with a timeout, closes the results channel, waits for cron and closes
the store.

What makes this hard: executions of one job overlap; the table of cancel
functions and the table of timers have one slot per job; a timer is stored by a
goroutine of its own, some time after it was armed; statuses are written by the
processor while an operation that has already read them holds the lock; a store
call may fail between two changes of memory; and Shutdown happens in the middle
of all that.  What correctness means, part by part:

* manager: the wait group counts exactly what is outstanding; what cron fires is
  known to the manager and shown as running; only overlap makes an execution
  or a timer unreachable; rows do not claim what did not happen;
* Shutdown: nothing begins after it; it loses nothing unless it times out; it
  returns;
* one execution: Run returns when it is cancelled or overdue, whatever the work
  does, and what it reports is what happened;
* life of the process: a signal ends it, unless main is waiting for the backend,
  and if it ends cleanly the manager has been drained; after a crash no row claims
  what the new process does not do;
* update flow: signals may merge, changes may not get lost; nobody waits for a
  page that is gone;
* pages: every result is shown once, in order, whatever comes between two
  requests or between the two statements of one, as soon as the page has heard of
  the last of them;
* remote jobs: a success is not that of an earlier run, and polling ends.

## Modules

* `JobManager` - the manager, its store, cron, timers, executions, processor and
  Shutdown.
* `RunLedger` - what the manager promises about the executions it counts, as a
  ledger that knows nothing of stores, channels or cancel functions; `JobManager`
  implements it.
* `MCJobManager` - sub-systems and symmetry for TLC.
* `JobContract`, `JobRun` - what the manager counts on when it calls Job.Run, and
  BaseJob.Run with its worker, which implements it.
* `Lifecycle` - main, registration, the shutdown service and restarts; it takes
  `RunLedger` for the manager.
* `UpdateBroker` - the update flow, from the manager's signal to the page.
* `ResultPages` - the result rows on a page, between browser, server and store.
* `StreamSetsJob` - RunJob of the StreamSets plugin against a remote hub.
* `JobManagerProofs`, `JobRunProofs`, `LifecycleProofs`, `UpdateBrokerProofs`,
  `ResultPagesProofs`, `StreamSetsJobProofs` - inductive invariants and theorems.

How they fit together: `Lifecycle` uses `RunLedger`, which `JobManager` is proved
to implement; `JobManager` uses the step `Return` of `JobContract` as `EndRun`,
which `JobRun` is proved to implement; the signal that `JobManager` sends is
where `UpdateBroker` begins, and the message that `UpdateBroker` delivers is a
`Tell` of `ResultPages`.

### JobManager

Every execution the manager causes is a *run*, numbered in order of launch and
used once.  Its life is one variable, `runState[r]`: `armed` (its timer ticks),
`fired` (the callback waits for `m.mu`), `spawned` (executeJob waits for
`m.mu`), `running` (inside `Job.Run`), `queued`, `recorded`, `settled` (its
result is in the channel, in `job_results`, in the job's row), `done`; or
`aborted`, `dropped` (the channel was full), `leaked` (the processor's
`continue`).  `runningJobs[j]` and `scheduledJobs[j]` name the run whose cancel
function or timer is kept, which is what a map of closures really means.  `met` is history:
the runs that have been in flight (between `wg.Add` and the end of the processor's
loop body) together with another one of their job.

| Code | Actions |
|---|---|
| `SetupJob`, `PauseJob`, `TriggerJobNow`, `DeleteJob` | the actions of the same name |
| `StartJob` | `StartPeriodic`, `StartNow`, `StartLater`, and `StartAborted` for its failures after the first write |
| `StopJob`, `ResumeJob`, `RescheduleJob` | `StopRead`/`StopCommit` and so on: they act on a status they read while the processor may write another |
| goroutine and callback of a timer | `RegisterTimer`, `TimerFire`, `TimerCallback` |
| `executeJob` | `SkipRun`, `BeginRun`, `EndRun`, `SendOnClosed` |
| `processResults` | `TakeResult`, `SettleResult`, `LeakResult`, `RetireResult` |
| `Shutdown` | `BeginShutdown`, `DrainDone`, `DrainTimeout`, `CloseStore` |
| cron, `ListenForUpdates` | `CronFire`, `TakeUpdate` |

Why the steps are no finer.  A handler holds `m.mu` throughout and all but the
store is protected by it.  The processor's status write is the only store access
without it, so a handler needs a second step only if it reads a status and
decides on it.  StartJob writes a status twice and reads other columns in
between: a write of the processor in the middle ends as one before or after.
The processor's GetJob and UpdateJobStatus are one step: only DeleteJob could
come between them, and an update of a missing row is the same as the update
followed by the delete.

Abstractions.  Time: whether a schedule is due is a free choice, and a timer or
an entry may come due at any moment.  A schedule is empty or set; what is set
parses, because SetupJob and RescheduleJob parse it.  A job's type is fixed
(`Periodic`).  `history[j]` is the set of outcomes recorded for j, and the
hourly removal of results older than a week is left out.  Job.Run ends in
either outcome at any time.  The model starts from an empty store and describes
one life of the process; a run number, not a goroutine, is what an identity is.
A store call fails, with no effect, whenever `StoreMayFail`; the insert into
`job_results` also fails when the row of the job is gone (foreign key).  A
failing SaveJob in SetupJob, and any failure before the first change of an
operation, is no step at all.

The refinement mapping (`LedgerSpec`): the ledger's `active` is `Tracked`, the
runs between `wg.Add` and `wg.Done`; `finished` is the runs that are done or
dropped; its `phase` is the progress of Shutdown.  A leaked run stays active for
ever, which is why `Close` also needs the impatient way out.

### JobContract and JobRun

One execution has two goroutines, Run and its worker, with a channel of one
place, a context and up to three timers between them.  `kind` is what the worker
does: trigger a remote endpoint, call a Go function, nothing (Call is nil), or a
LoggingJob's loop.  A `select` with several ready cases is a choice.  The worker
may never return (`CallReturns` has no fairness).  The actions are those of the
code: `StartWork`, `GiveUp`, `Call`, `CallReturns`, `StopLogging`, `Send` of the
worker (`scheduledRun`, `loggingWork`), and `OnCancel`, `OnLimit`, `OnResult`,
`OnGraceEnd` of Run's two selects.

`JobContract` says that Run may return at any time, once, and that it does if it
is cancelled or limited.  The mapping: `returned` is `run = "returned"`, or the
process has panicked.

### Lifecycle

`main` goes from InitShutdownService by way of the store and the head start for
the web server to LoadJobs, job by job (`SetUpNext`, `AutoStartNext`), and waits
on `done`.  `service` is the goroutine that waits for a signal (`FireHooks`), runs
the hooks that are registered by then and ends when all have returned or its
grace period is over (`ServiceDone`).  `rows` is the file: it survives `Kill` and
the other ends of a process, everything else begins anew in `Boot`.

Abstractions.  A row is absent, created, claimed (scheduled or running) or
settled.  `Operate` stands for the requests that start, resume or delete a job;
a delete takes the job out of `m.jobs` first and may leave its row when the store
call fails (`MayFail`).  `Settle` stands for those and the results that end a claim;
`JobManager` has them one by one.  Executions are the manager's ledger.  A result that arrives when the
channel is closed panics (`LateResult`).  SSE connections matter by their hooks.

### UpdateBroker

Connections are numbered as they open.  The broker's slice is a header (array,
length) over explicit backing arrays, because publish copies the header under
the lock and walks the array without it while subscribe may extend the array or
move to a copy: counts of failed sends then go to an array nobody uses any
more.  A round of the loop reads `subs[i]` up to four times, and each is a step:
`Check` (is it stale), `Send`, `Reset` or `CountFail`, and `DropStale`, which
unsubscribes whoever is in the cell by then.  Until the shutdown that is the one that
was checked; once a hook unsubscribes it may be the next one.  `Change` is any operation that changes a row and signals; `Fetch` is the
server writing a message to the connection and the page fetching the rows.
`owed`, `passedOver` and `rejected` record history for the properties only.
A page that loads before it subscribes may miss a change in between; the code
promises nothing there and the model does not either.

### ResultPages

The results of one job, numbered as they started (the order of the rows) and
stored as they ended (the order they expire in).  The page has rows with their
run numbers, and a load-more button with its offset.  Both requests are two
statements each: `CountForTable` and `ReadForTable` (which numbers rows by its own
window count), `Click` (the request and its count) and `ReadForMore` (which
numbers them by the first count).  `Swap` replaces the table, as htmx does;
`Insert` and `MoreFails` are the script's handling of an answer, in which the row
of the button disappears and later answers find no place.  `Record` and `Cleanup`
happen at any moment, and tell nobody: `Tell` is a signal that reaches the page, of
this result or of any other change, and sends it to the table's first page again.  It
may come at any time or not at all, because the processor signals after its last
store call and not behind its `continue`, and a publish may pass a page over.
`behind` notes that a result has been recorded since the page last asked for the
table.  `Newest`, the order of a
query's rows, is given by rank: row k is the result with k - 1 newer ones before it.

### StreamSetsJob

RunJob asks for the job, demands that it is inactive, starts it, polls until it
is active and polls until it is final.  The hub is external: it takes a start and
acts on it later (`Activate`), so polls see the status and color of the run
before; a run may end with any final status; any answer may be lost.  Two callers
share one remote job.  The polls are counted instead of seconds.

## Runs

| Run | Instance | States | Shows |
|---|---|---|---|
| `onetime` | 1 one-time job, 2 runs, channel of 1, failing store | 4.1 M | the wait group stays exact, memory is backed by the store, executions escape only by overlap and timers only to another timer |
| `periodic` | 1 periodic job, 2 runs, channel of 1, failing store | 0.8 M | cron entries against table and status, cancel functions, the safety claims about Shutdown, and the refinement of `RunLedger` |
| `timers` | 1 one-time job, 2 runs, working store, manager up, no reuse in hand | 0.2 M | statuses are true, and a scheduled job happens by its newest timer |
| `drain` | 1 periodic job, 2 runs, with Shutdown | 0.1 M | results leave, and only a run of cron's that escaped and goes on holds Shutdown up |
| `updates` | 2 connections, any number of changes, 1 failure forgiven | 2.5 M | no lost change, no unfair exit, no blocked listener |
| `lifecycle` | 2 ids, 2 definitions per answer, 2 executions, 1 connection, 2 lives, failing store | 0.9 M | clean exits are drained, hooks are waited for, rows claim nothing of an earlier life, a signal ends the process unless main waits for the backend |
| `job_run` | every kind of work, limited or not | 572 | the contract of Run, honest answers, no stray or blocked worker |
| `pages` | pages of 1, 3 results, 2 clicks at a time, failing store | 0.2 M | after each reading of the table no gap, no repetition, no disorder, and everything reachable once signals end |
| `streamsets` | 2 callers, 2 and 3 polls | 22 k | successes are real, RunJob ends |
| `v_stopped_stays`, `v_graceful`, `v_nil_status` | | | a claim of the repository that the code does not keep, below |

The bounds.  Two runs are what every race of the manager needs: two executions
that overlap, two timers of one job, or an execution and the one launched after
it; the channel of one makes the second of them find it full.  One run is kept for
the step of RescheduleJob that arms a timer, so that the bound never keeps a handler
from letting go of `m.mu`; operations that launch a run end at it.  A job id may be deleted and set up again without bound, and operations
are unbounded in number.  Jobs share only the wait group, the channel and the
lock, and the proofs hold for any number of them.  Cron entries: one per periodic
job and a spare one, because ResumeJob remembers the old id while it asks for a
new one.  Two connections suffice for the broker: outside the shutdown only
publish itself takes a subscriber off the list, and that ends the publish, so the
array under a walk changes only by a subscribe; during it, one subscriber that is
moved into the cell of another takes two.  The proofs hold for any number.
`StatusHasResult` is checked and proved where no id is set up again while the
processor has a result of it in hand (`NoReuseInHand`): it has recorded a result, or
failed to, when the job is deleted, its results go with the row, and the status it
then writes would land on the new row.  Without the condition TLC shows just that.

Two lives are a restart; two definitions may be of the same id, or one with and
one without AutoStart; one connection is a hook besides the manager's.  A page of
one and three results give two load-more pages.  The number of polls only tells a first, a middle and a
last one apart, which two and three do.

Fairness.  The processor, the listener, the runtime's timers, the lock holders
and the steps of Shutdown are weakly fair: goroutines that run.  The steps that
wait for `m.mu` (`RetireResult`, the timer's callback, the checks of
executeJob) are strongly fair, because sync.Mutex hands the lock over to a
goroutine that has waited for a millisecond.  In `timers`, `RunsReturn` (BaseJob's
time limit and grace period) lets every Job.Run end; in `drain`, `CancelledReturn`
lets only those end that have been cancelled.  `JobRun` checks both for jobs that are
limited or cancelled.  In `JobRun` the selects, the worker's own steps and timers
are fair, the work is not.  In `Lifecycle` main's own steps and the service go on; the
backend is not assumed to answer (`BackendAnswers` is not fair), because the fetch of
the definitions has no timeout.  In `ResultPages` the server answers, and for
`AllReachable` somebody clicks; that signals come to an end is the premise of the
property, as each sends the table back to its first page.  In `StreamSetsJob` each
request ends, because its HTTP client times out after 30 seconds, and the ticker
ticks.  Operations, cron, signals, pages that come and go, and the hub are never
assumed to do anything.

### Where code and claim disagree

* `v_stopped_stays` - "not if stopped" (a comment of processResults): the result
  of a cancelled execution is complete or failed, and it overwrites `stopped`.
* `v_graceful` - "graceful shutdown of running jobs" (the repository's README):
  the handler is installed before the manager's hook is registered; a signal in
  between fires no hook, main loads and starts jobs all the same, and then leaves
  with an execution under way and the store open.
* `v_nil_status` - "Continue polling instead of failing immediately": if all polls
  of monitorJobCompletion fail it returns neither a status nor an error, and
  RunJob dereferences nil.

Also noticed while modelling, all of it in the models as it is in the code:

* StopJob before the timer is registered says the job is cancelled; the timer runs
  it (`LooseTimerNeedsTimer` says when).
* After DeleteJob of a running job its result is skipped by a `continue`, `wg` stays
  up, and Shutdown can only time out (`leaked`).
* StartJob takes an id in `m.cronEntries` for a job that is scheduled, and PauseJob
  keeps the id when it removes the entry.  Start, Pause, Start leaves a periodic job
  that says `running`, that nothing fires, and that ResumeJob refuses.
* Shutdown's timeout covers only its first wait; the one for cron has none, and an
  execution whose cancel function was deleted by the result of an earlier one is
  not cancelled.  `drain` shows that nothing else holds Shutdown up for ever.
* A result that the full channel drops leaves the entry in `m.runningJobs`, so that
  StartJob refuses, and the row as it was: a one-time job says `scheduled` for good.
* A signal that comes while main waits for the backend's answer, which has no
  timeout, ends the process only when the answer comes.
* DeleteJob forgets the job before it asks the store; when that fails, a row is left
  that no operation reaches, until the next start of the process.
* Dropping a stale subscriber ends the publish for those behind it
  (`passedOver`).  A copy of the array may lose a reset, so the failures that make one
  stale need not be consecutive.  At shutdown the unsubscribe of a hook between the
  check and the drop makes publish drop the next subscriber instead.
* A result that is stored without a signal shifts the offsets under an open page: its
  next "load more" repeats a row, and if the result comes between the count and the
  rows of that request, the last page is never offered.
* A signal while jobs are loaded makes SetupJob refuse; main then leaves through
  `os.Exit(1)` in the middle of the drain.  So does a definition that comes twice.
* A job with neither endpoint nor function panics when it runs (`kind = "nothing"`).
* An error answer to "load more" is taken for rows and removes the button.
* A remote run that starts and ends between two polls is never seen by
  waitForJobActive, and the timeout of 120 seconds is checked after the thirteenth
  poll, at 130 or later.  Two callers of RunJob may take each other's final status;
  `SuccessIsReal` says how far that goes.

## Proofs

They rest on the assumptions that the modules name, which TLC evaluates: ids and
constants are distinct, bounds are natural numbers, the cron library has more ids
than there are periodic jobs.

`JobManagerProofs`, for all sets of jobs, all bounds and either kind of store:

| Theorem | States |
|---|---|
| `TypeCorrect` | `Spec => []TypeOK` |
| `WaitGroupCorrect` | `Spec => []WaitGroupExact` |
| `QueueCorrect` | `Spec => []QueueExact`: the channel holds each queued result once |
| `NothingBeginsInShutdown` | `Spec => NoRunAfterShutdown` |
| `CloseCorrect`, `GracefulCorrect` | `Spec => []CloseIsSafe`, `[]GracefulLosesNothing` |
| `ManagerKeepsLedger` | `Spec => LedgerSpec`: the manager implements `RunLedger` |
| `CronEntryCorrect`, `CronStatusCorrect` | `Spec => []CronEntryKnown`, `[]CronMatchesStatus` |
| `MemoryCorrect` | `Spec => []MemoryBacked` |
| `HandleCorrect`, `EscapeCorrect`, `ShutdownCorrect` | `Spec => []HandleIsCurrent`, `[]EscapeNeedsOverlap`, `[]ShutdownReaches` |
| `TimersCorrect` | `Spec => LooseTimerNeedsTimer` |
| `ScheduledCorrect` | `Spec => []ScheduledHasTimer` |
| `StatusCorrect` | `StoreMayFail = FALSE /\ Spec /\ NoReuseInHand => []StatusHasResult` |

The argument has six layers.

1. `RunInv`: types, "runs beyond `launched` are idle and nobody refers to
   them", `QueueExact` and `WaitGroupExact` together.  Types alone are not
   inductive: the result the processor takes has an outcome only because the
   channel holds queued runs, and a launched run gets a fresh number only because
   the later ones are idle.  `WaitGroupExact` is a cardinality: each step adds one
   run to the tracked set, removes one, or leaves it, which `LaunchMoves` and
   `StepCases` sort out once for all actions.
2. `DrainInv`: once Shutdown is past its wait without a timeout, nothing is
   tracked; nothing becomes tracked again because nothing begins.  With it each
   step maps to a step of `RunLedger` or a stutter (`LedgerMoves` for the moves
   of runs, `LedgerStep` for the rest): `Panic` and `Stop` need `DrainInv`, and
   `Close` needs `WaitGroupExact`.
3. `CronInv`: `CronEntryKnown`, `CronMatchesStatus` and `MemoryBacked` with what
   the holder of `m.mu` relies on between its two steps: that the row it read as
   paused still is when ResumeJob adds an entry.  It is, because the processor
   leaves periodic jobs alone.
4. `HandleInv`: the three properties of cancel functions with "launched runs have
   jobs" and `TogetherIsMet`: two runs of a job that are in flight at the same moment
   are in `met`, which is what BeginRun writes there.  A run keeps its cancel function
   until another one of its job takes the place, or the processor empties the place
   for one; either was in flight at that moment, so both had met.  `HandleCases` sorts
   the actions into those that leave the table of cancel functions, begin a run, retire
   one, or move one.
5. `TimersKnown` (an idle run has no origin, and an armed, fired or unregistered run is
   a launched timer run of some job) is what each step needs to satisfy
   `LooseTimerNeedsTimer`.  `ScheduleInv` adds to `ScheduledHasTimer` that timers are
   for one-time jobs and that the one kept in `scheduledJobs` for a job is its own
   (`TimersOwned`), so that stopping it takes no timer from another job.
   `ScheduledHasTimer` is about a store that works (`~StoreMayFail`).
6. `ResultInv` adds to `StatusHasResult` that the outcome of a result in hand is in
   the history of its job as long as the job has a row, which is what `NoReuseInHand`
   is for, and that the status RescheduleJob has read and writes back is no outcome.

The other modules, for any value of their constants:

| Theorem | States |
|---|---|
| `RunTypeCorrect`, `CompleteCorrect`, `NoStrayCorrect` (`JobRunProofs`) | `Spec => []TypeOK`, `[]CompleteIsTrue`, `[]NoStrayWork` |
| `RunKeepsContract` | the safety part of `ContractKept`: Run starts as `JobContract` does, and every step is its `Cancel`, its one `Return`, or a stutter |
| `LifeTypeCorrect`, `CleanExitCorrect`, `HooksCorrect`, `ClaimsCorrect` (`LifecycleProofs`) | `Spec => []TypeOK`, `[]CleanExitDrained`, `[]HooksAnswered`, `[]ClaimsAreOfThisLife` |
| `LivesKeepLedger` | each life begins with a new ledger, and its steps up to the end of the manager's Shutdown are those of `RunLedger` |
| `TypeCorrect`, `DropsCorrect`, `ExitCorrect`, `NewsCorrect` (`UpdateBrokerProofs`) | `Spec => []TypeOK`, `[]DropNeedsFailures`, `OnlyOwnExit`, `[]NewsOnTheWay` |
| `TypeCorrect`, `GapsCorrect`, `OrderCorrect` (`ResultPagesProofs`) | `Spec => []TypeOK`, `[]NoGaps`, `[]RowsInOrder` |
| `TypeCorrect`, `SuccessCorrect` (`StreamSetsJobProofs`) | `Spec => []TypeOK`, `[]SuccessIsReal` |

Their invariants:

* `JobRun`: `ChannelInv` (the channel holds the worker's message exactly between
  its end and Run's taking it), `WorkInv` (what a message means: "done" only of
  work that was called), `AnswerInv` (what Run returned is the message that was
  taken, unless Run gave up).
* `Lifecycle`: `HookInv` ties the manager's hook to the phase of its ledger, so
  that "the hooks have returned" means "the store is closed"; `ServiceInv` says
  that nothing is left merely registered once the hooks are fired; `RowsInv` follows a
  definition from the backend's answer to the row, so that a claim of an earlier
  life is overwritten before main is ready, and one that a failed delete leaves behind
  is of a job this life has started.  `LivesKeepLedger` also needs that a panic
  ends the process (`AliveInv`) and that what is still under way once the channel is
  closed is overdue (`HookInv`).
* `UpdateBroker`: the slice operations come first, as lemmas: `AppendFacts` (what
  lies in a list, in use or walked, stays where it is), `UnsubscribeKeeps` (every
  cell there is was there before, and only one client is off the list) and
  `CountKeeps` (a count does not move a client).  `CountInv` then has `Shape` (headers
  fit into their arrays); and, until the shutdown, `Standing` (a list that is walked is
  not shortened), `Judged` (the cell that was checked is still the same one when
  publish sends, counts or drops: only a hook's unsubscribe moves cells, and only
  publish itself counts) and `Counted`: in every cell of every array, also of those
  nobody uses any more, the count is at most the number of refusals.  That is what
  makes a stale copy harmless.  `NewsInv` adds that whoever is owed the rows is on the
  list, has a message, or was passed over.
* `ResultPages`: the argument is about ranks, the number of newer results in the table.
  A page, a table or an answer under way with its next offset is a `Part` of the
  results: what has a rank below the offset is shown or has been `Overtaken` (a newer
  result has expired), what has a higher one is older than every row, and run numbers
  stay above those the next page may use.  While nothing is recorded, ranks and the
  total only fall, and a rank falls past the offset only behind an expired result, so
  a `Part` stays one through any clean-up; reading the next page extends it.
  `TableInv`, `PageInv` and `MoreInv` say where the parts are while the page is not
  `behind`, and the next count of a table request begins a new part; a request under way
  always has the offset of the button, because the first answer that comes in takes
  the place of all others away (`Detached`).
* `StreamSetsJob`: `OwnInv` bounds the run a caller has started, and `ColorInv` says
  that a good color at a final status, for a caller past waitForJobActive, is that
  of its run or a later one.  The types need more: `started` is bounded because every
  run was started by a caller of its own (`StartInv`), and the polls because both loops
  stop at their limits (`PollInv`).

Only model-checked: everything under fairness (`ScheduleHappens`, `ResultsLeave`,
`ShutdownReturns`, `Served`, `SignalEnds`, the liveness part of `ContractKept`,
`WorkerEnds`, `AllReachable`, `CallEnds`), which is beyond the prover.  Every
invariant and every action property that a passing run checks is proved.

## Plan

Done: the manager and its proofs, the ledger, the broker, one execution, the life of
the process, pages of results and the remote job, each with its proofs.

What is left:

1. The manager with two periodic jobs and one one-time job and larger channels, as
   simulation rather than exhaustively: the proofs already cover any number.
2. A proof that each run of the manager is used as `JobContract` expects: started
   once, cancelled only while it runs.

## Not modelled

* Text: `util/timeparse.go`, the English of cron expressions, and the formats of
  schedules.  A model would repeat the parsers; `JobManager` tells a schedule that
  is empty, one that parses, and one that AddFunc rejects apart.
* The schema of the store, `GetJobRuns` and the lists that no page asks for, and
  the fields of a row that no decision reads.
* Rendering, layout, styles, charts and tooltips; HTTP plumbing; logging.
* What a page misses between loading and subscribing, for which nothing is
  promised; a second CTRL-C, which the service swallows.
* `updateJobParameters`, which is commented out where it would be called.
