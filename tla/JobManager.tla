----------------------------- MODULE JobManager -----------------------------
(***************************************************************************)
(* The job manager of the scheduler (jobpro/job_manager.go): its tables,   *)
(* its store, the cron library and the timers it drives, one goroutine per *)
(* execution of a job, the results channel with its single consumer, and   *)
(* the shutdown sequence.                                                  *)
(*                                                                         *)
(* Every execution the manager ever causes is a "run" with a number of its *)
(* own: it is the armed timer, then the goroutine that calls executeJob,   *)
(* then the result that travels through the channel.  MaxRuns bounds how   *)
(* many there are.                                                         *)
(*                                                                         *)
(* Handlers hold m.mu from beginning to end, so a handler is one action,   *)
(* with one exception: the results processor writes job statuses without   *)
(* taking m.mu.  The handlers that read a status, and write one that       *)
(* depends on what they read, are therefore two actions, with the lock     *)
(* held in between and only the unlocked steps of the system possible.     *)
(***************************************************************************)
EXTENDS Integers, Sequences, FiniteSets

CONSTANTS
    Jobs,          \* job ids
    Periodic,      \* the ids of periodic jobs; the others are one-time
    EntryIds,      \* ids handed out by the cron library
    NoEntry,       \* "no cron entry" in cronEntries
    NoJob,         \* the job of a run that has not been launched
    Free,          \* m.mu is not held between two actions
    MaxRuns,       \* bound: executions launched in one life of the manager
    ResultsCap,    \* capacity of the results channel (256 in the code)
    StoreMayFail   \* may a store call return an error although its row exists

ASSUME JobsAssumption == Periodic \subseteq Jobs /\ NoJob \notin Jobs
\* The library never runs out of ids: one per periodic job, and one more for
\* ResumeJob, which still remembers the old entry when it adds the new one.
ASSUME EntriesAssumption ==
    /\ NoEntry \notin EntryIds
    /\ IsFiniteSet(EntryIds) /\ IsFiniteSet(Periodic)
    /\ Cardinality(EntryIds) > Cardinality(Periodic)
ASSUME BoundsAssumption == MaxRuns \in Nat /\ ResultsCap \in Nat \ {0}
ASSUME StoreAssumption == StoreMayFail \in BOOLEAN

Runs == 1..MaxRuns
NoRun == 0

Statuses == {"created", "scheduled", "running", "paused",
             "complete", "failed", "stopped", "cancelled"}

\* The life of a run.  "armed": its timer ticks; "fired": the timer's callback
\* waits for m.mu; "spawned": executeJob has not taken m.mu yet; "running":
\* inside Job.Run; "queued", "recorded", "settled": its result is in the
\* channel, in job_results, reflected in the job's row; "done": retired.
\* "aborted": it never reached Job.Run (timer stopped in time, or executeJob gave
\* up at its checks); "dropped": the channel was full; "leaked": the processor
\* skipped the end of its loop body.
RunStates == {"idle", "armed", "fired", "spawned", "running", "queued",
              "recorded", "settled", "done", "aborted", "dropped", "leaked"}

\* How executeJob is called: by `go`, as a timer's callback, by the cron library.
Origins == {"go", "timer", "cron"}

Outcomes == {"complete", "failed"}

Holders == [op : {"stop", "resume", "reschedule"}, job : Jobs, seen : Statuses]

ASSUME FreeAssumption == Free \notin Holders

VARIABLES
    jobs,           \* m.jobs: ids loaded in memory
    cronEntries,    \* m.cronEntries
    runningJobs,    \* m.runningJobs: the run whose cancel function is kept
    scheduledJobs,  \* m.scheduledJobs: the run whose timer is kept
    mu,             \* who holds m.mu between two actions
    wg,             \* m.wg
    results,        \* m.results
    updated,        \* m.jobsUpdated holds a signal (its capacity is 1)
    status,         \* table jobs: status of each row, or "absent"
    schedule,       \* table jobs: is the schedule column empty or set
    history,        \* table job_results: the outcomes each job has rows of
    cronLive,       \* the cron library: entries that fire, per job
    unregistered,   \* timers whose goroutine has not stored them yet
    launched,       \* number of runs launched
    runState, runJob, runOrigin,
    outcome,        \* the result on its way from Job.Run to the store
    cancelled,      \* runs inside Job.Run whose context is cancelled
    met,            \* history: runs in flight together with another of their job
    sd,             \* progress of Shutdown
    timedOut,       \* Shutdown gave up waiting
    crashed         \* a goroutine panicked: the process is gone

storeVars  == <<status, schedule, history>>
cronVars   == <<cronEntries, cronLive>>
cancelVars == <<runningJobs, cancelled>>
timerVars  == <<scheduledJobs, unregistered>>
launchVars == <<launched, runJob, runOrigin, met>>
queueVars  == <<wg, results, outcome>>
shutVars   == <<sd, timedOut, crashed>>
\* What the operations write without launching or ending a run, and the rest.
coreVars   == <<jobs, mu, updated, storeVars, cronVars>>
workVars   == <<cancelVars, timerVars, runState, launchVars, queueVars, shutVars>>
vars       == <<coreVars, workVars>>

TypeOK ==
    /\ jobs \subseteq Jobs
    /\ cronEntries \in [Jobs -> EntryIds \cup {NoEntry}]
    /\ runningJobs \in [Jobs -> Runs \cup {NoRun}]
    /\ scheduledJobs \in [Jobs -> Runs \cup {NoRun}]
    /\ mu \in Holders \cup {Free}
    /\ wg \in Int
    /\ results \in Seq(Runs)
    /\ updated \in BOOLEAN
    /\ status \in [Jobs -> Statuses \cup {"absent"}]
    /\ schedule \in [Jobs -> {"none", "set"}]
    /\ history \in [Jobs -> SUBSET Outcomes]
    /\ cronLive \in [Jobs -> SUBSET EntryIds]
    /\ unregistered \subseteq Runs
    /\ launched \in 0..MaxRuns
    /\ runState \in [Runs -> RunStates]
    /\ runJob \in [Runs -> Jobs \cup {NoJob}]
    /\ runOrigin \in [Runs -> Origins \cup {"none"}]
    /\ outcome \in [Runs -> Outcomes \cup {"none"}]
    /\ cancelled \subseteq Runs
    /\ met \subseteq Runs
    /\ sd \in {"up", "draining", "closing", "stopped"}
    /\ timedOut \in BOOLEAN
    /\ crashed \in BOOLEAN

Init ==
    /\ jobs = {}
    /\ cronEntries = [j \in Jobs |-> NoEntry]
    /\ runningJobs = [j \in Jobs |-> NoRun]
    /\ scheduledJobs = [j \in Jobs |-> NoRun]
    /\ mu = Free
    /\ wg = 0
    /\ results = <<>>
    /\ updated = FALSE
    /\ status = [j \in Jobs |-> "absent"]
    /\ schedule = [j \in Jobs |-> "none"]
    /\ history = [j \in Jobs |-> {}]
    /\ cronLive = [j \in Jobs |-> {}]
    /\ unregistered = {}
    /\ launched = 0
    /\ runState = [r \in Runs |-> "idle"]
    /\ runJob = [r \in Runs |-> NoJob]
    /\ runOrigin = [r \in Runs |-> "none"]
    /\ outcome = [r \in Runs |-> "none"]
    /\ cancelled = {}
    /\ met = {}
    /\ sd = "up"
    /\ timedOut = FALSE
    /\ crashed = FALSE

-----------------------------------------------------------------------------
(* What the handlers are built from. *)

\* The outcomes of a store call on a row that exists.
StoreOutcomes == IF StoreMayFail THEN BOOLEAN ELSE {TRUE}

\* UpdateJobStatus: an UPDATE that matches no row is not an error.
WithStatus(j, s) ==
    IF status[j] = "absent" THEN status ELSE [status EXCEPT ![j] = s]

\* An entry id the library has not handed out and the manager does not remember.
FreshEntries ==
    {e \in EntryIds : \A j \in Jobs : e \notin cronLive[j] /\ e # cronEntries[j]}

\* cron.AddFunc for job j: it rejects the empty schedule.
AddFuncAccepts(j) == schedule[j] = "set"

AddFunc(j) ==
    \E e \in FreshEntries :
        /\ cronLive' = [cronLive EXCEPT ![j] = @ \cup {e}]
        /\ cronEntries' = [cronEntries EXCEPT ![j] = e]

\* Faulty: the entry is left in the library.
MutEntryStays(j) == cronLive

\* cron.Remove(m.cronEntries[j]), when there is such an entry.
WithoutEntry(j) == [cronLive EXCEPT ![j] = @ \ {cronEntries[j]}]

\* Faulty: cancel is forgotten; the zero value is called when there is none.
MutNoCancel(rs) == cancelled
MutCancelUnchecked(rs) == cancelled \cup rs

\* cancel(), for the runs whose cancel functions are called; it means nothing
\* to a run that has left Job.Run.
WithCancel(rs) == cancelled \cup {r \in rs \cap Runs : runState[r] = "running"}

\* Faulty: the cancel function is kept.
MutHandleStays(j) == runningJobs

\* delete(m.runningJobs, j).
WithoutHandle(j) == [runningJobs EXCEPT ![j] = NoRun]

\* Faulty: the timer is only forgotten.
MutTimerRuns(j) == runState

\* timer.Stop() on the timer kept for j: no effect once the timer has fired.
WithTimerStopped(j) ==
    [r \in Runs |-> IF r = scheduledJobs[j] /\ runState[r] = "armed"
                      THEN "aborted" ELSE runState[r]]

\* The next run is born in state s; base is runState but for what the same
\* step does to other runs.
Launch(j, s, origin, base) ==
    /\ launched < MaxRuns
    /\ launched' = launched + 1
    /\ runState' = [base EXCEPT ![launched + 1] = s]
    /\ runJob' = [runJob EXCEPT ![launched + 1] = j]
    /\ runOrigin' = [runOrigin EXCEPT ![launched + 1] = origin]
    /\ UNCHANGED met

\* The non-blocking send on m.jobsUpdated.
Signal == updated' = TRUE

\* Faulty: the run is not counted, or never counted out.
MutWgUntouched == UNCHANGED wg

\* m.wg.Add(1) and m.wg.Done().
WgAdd == wg' = wg + 1
WgDone == wg' = wg - 1

-----------------------------------------------------------------------------
(* The operations of the manager. *)

\* SetupJob.  SaveJob is an upsert: it overwrites the row of an earlier life
\* of the same id.  A failing SaveJob changes nothing.
SetupJob(j, sched) ==
    /\ mu = Free
    /\ sd = "up"
    /\ j \notin jobs
    /\ status' = [status EXCEPT ![j] = "created"]
    /\ schedule' = [schedule EXCEPT ![j] = sched]
    /\ jobs' = jobs \cup {j}
    /\ UNCHANGED <<mu, updated, history, cronVars, workVars>>

\* The checks StartJob makes before it changes anything.
MayStart(j) ==
    /\ mu = Free
    /\ sd = "up"
    /\ j \in jobs
    /\ runningJobs[j] = NoRun

\* StartJob of a periodic job: it schedules the job with cron unless
\* m.cronEntries remembers an entry for it.
StartPeriodic(j) ==
    /\ MayStart(j)
    /\ j \in Periodic
    /\ status' = WithStatus(j, "running")
    /\ \/ cronEntries[j] # NoEntry /\ UNCHANGED cronVars
       \/ cronEntries[j] = NoEntry /\ AddFuncAccepts(j) /\ AddFunc(j)
    /\ UNCHANGED <<jobs, mu, updated, schedule, history, workVars>>

\* StartJob of a one-time job with no schedule, or whose time has come.
StartNow(j) ==
    /\ MayStart(j)
    /\ j \notin Periodic
    /\ status' = WithStatus(j, "running")
    /\ Launch(j, "spawned", "go", runState)
    /\ UNCHANGED <<jobs, mu, updated, schedule, history, cronVars, cancelVars,
                   timerVars, queueVars, shutVars>>

\* StartJob of a one-time job whose time is ahead: a goroutine arms the timer
\* and takes m.mu later to store it (RegisterTimer).
StartLater(j) ==
    /\ MayStart(j)
    /\ j \notin Periodic
    /\ schedule[j] = "set"
    /\ status' = WithStatus(j, "scheduled")
    /\ Launch(j, "armed", "timer", runState)
    /\ unregistered' = unregistered \cup {launched + 1}
    /\ UNCHANGED <<jobs, mu, updated, schedule, history, cronVars, cancelVars,
                   scheduledJobs, queueVars, shutVars>>

\* StartJob fails after it has set the row to running: a later store call
\* returns an error, or AddFunc does.
StartAborted(j) ==
    /\ MayStart(j)
    /\ \/ StoreMayFail
       \/ j \in Periodic /\ cronEntries[j] = NoEntry /\ ~AddFuncAccepts(j)
    /\ status' = WithStatus(j, "running")
    /\ UNCHANGED <<jobs, mu, updated, schedule, history, cronVars, workVars>>

StartJob(j) ==
    StartPeriodic(j) \/ StartNow(j) \/ StartLater(j) \/ StartAborted(j)

\* The part of StopJob, ResumeJob and RescheduleJob up to the decision taken
\* on the row GetJob returned.  When they give up here nothing has changed.
Read(op, j) ==
    /\ mu = Free
    /\ j \in jobs
    /\ status[j] # "absent"
    /\ mu' = [op |-> op, job |-> j, seen |-> status[j]]
    /\ UNCHANGED <<jobs, updated, storeVars, cronVars, workVars>>

StopRead(j) == Read("stop", j)
ResumeRead(j) == status[j] = "paused" /\ Read("resume", j)
RescheduleRead(j) ==
    /\ j \notin Periodic
    /\ status[j] \in {"scheduled", "created"}
    /\ launched < MaxRuns              \* bound: a run is left for the new timer
    /\ Read("reschedule", j)

\* Faulty: a stopped timer leaves the row as it was.
MutStopStatus(j, seen) ==
    IF seen = "scheduled" THEN seen ELSE "stopped"

\* The status StopJob writes, from the tables and the status it read.
StopStatus(j, seen) ==
    IF /\ runningJobs[j] = NoRun
       /\ j \notin Periodic
       /\ scheduledJobs[j] # NoRun \/ seen = "scheduled"
      THEN "cancelled" ELSE "stopped"

\* The rest of StopJob.  When the last store call fails, the row keeps its
\* status and nobody is told; all the rest has happened.
StopCommit ==
    /\ mu # Free /\ mu.op = "stop"
    /\ LET j == mu.job
           waiting == runningJobs[j] = NoRun /\ j \notin Periodic
       IN  /\ cronLive' = WithoutEntry(j)
           /\ cronEntries' = [cronEntries EXCEPT ![j] = NoEntry]
           /\ cancelled' = WithCancel({runningJobs[j]})
           /\ runningJobs' = WithoutHandle(j)
           /\ IF waiting
                THEN /\ runState' = WithTimerStopped(j)
                     /\ scheduledJobs' = [scheduledJobs EXCEPT ![j] = NoRun]
                ELSE UNCHANGED <<runState, scheduledJobs>>
           /\ \E ok \in StoreOutcomes :
                IF ok THEN status' = WithStatus(j, StopStatus(j, mu.seen)) /\ Signal
                      ELSE UNCHANGED <<status, updated>>
    /\ mu' = Free
    /\ UNCHANGED <<jobs, schedule, history, unregistered, launchVars, queueVars,
                   shutVars>>

\* PauseJob.  m.cronEntries keeps the removed entry, to remember it was there.
PauseJob(j) ==
    /\ mu = Free
    /\ j \in jobs
    /\ j \in Periodic \/ runningJobs[j] = NoRun
    /\ cronLive' = WithoutEntry(j)
    /\ \E ok \in StoreOutcomes :
         IF ok THEN status' = WithStatus(j, "paused") /\ Signal
               ELSE UNCHANGED <<status, updated>>
    /\ UNCHANGED <<jobs, mu, schedule, history, cronEntries, workVars>>

\* The rest of ResumeJob.  UpdateJobStatus fails: nothing changes.  AddFunc
\* fails: the row says running and nobody is told.
ResumeCommit ==
    /\ mu # Free /\ mu.op = "resume"
    /\ LET j == mu.job
           wasScheduled == j \in Periodic /\ cronEntries[j] # NoEntry
       IN  \/ /\ StoreMayFail
              /\ UNCHANGED <<updated, status, cronVars>>
           \/ /\ status' = WithStatus(j, "running")
              /\ IF wasScheduled /\ AddFuncAccepts(j)
                   THEN AddFunc(j) ELSE UNCHANGED cronVars
              /\ IF wasScheduled /\ ~AddFuncAccepts(j)
                   THEN UNCHANGED updated ELSE Signal
    /\ mu' = Free
    /\ UNCHANGED <<jobs, schedule, history, workVars>>

\* The rest of RescheduleJob.  SaveJob writes the whole row back, with the
\* status that was read; the old timer, if one is kept, is stopped first.
RescheduleCommit ==
    /\ mu # Free /\ mu.op = "reschedule"
    /\ scheduledJobs' = [scheduledJobs EXCEPT ![mu.job] = NoRun]
    /\ status' = [status EXCEPT ![mu.job] = mu.seen]
    /\ schedule' = [schedule EXCEPT ![mu.job] = "set"]
    /\ Launch(mu.job, "armed", "timer", WithTimerStopped(mu.job))
    /\ unregistered' = unregistered \cup {launched + 1}
    /\ Signal
    /\ mu' = Free
    /\ UNCHANGED <<jobs, history, cronVars, cancelVars, queueVars, shutVars>>

\* RescheduleJob fails once the old timer is stopped: in SaveJob, which leaves
\* the row, or in UpdateNextRunTime, after SaveJob has written it.
RescheduleAborted ==
    /\ mu # Free /\ mu.op = "reschedule"
    /\ StoreMayFail
    /\ scheduledJobs' = [scheduledJobs EXCEPT ![mu.job] = NoRun]
    /\ runState' = WithTimerStopped(mu.job)
    /\ \/ UNCHANGED <<status, schedule>>
       \/ /\ status' = [status EXCEPT ![mu.job] = mu.seen]
          /\ schedule' = [schedule EXCEPT ![mu.job] = "set"]
    /\ mu' = Free
    /\ UNCHANGED <<jobs, updated, history, cronVars, cancelVars, unregistered,
                   launchVars, queueVars, shutVars>>

\* TriggerJobNow: it releases m.mu before it spawns the goroutine.
TriggerJobNow(j) ==
    /\ mu = Free
    /\ sd = "up"
    /\ j \in jobs
    /\ Launch(j, "spawned", "go", runState)
    /\ Signal
    /\ UNCHANGED <<jobs, mu, storeVars, cronVars, cancelVars, timerVars,
                   queueVars, shutVars>>

\* Faulty: the job stays in m.jobs.
MutStaysLoaded(j) == jobs

\* delete(m.jobs, j).
Unloaded(j) == jobs \ {j}

\* DeleteJob.  The memory is cleared first, so a failing store leaves a row
\* behind that no job in memory stands for.  The store deletes the job's
\* results with its row.
DeleteJob(j) ==
    /\ mu = Free
    /\ j \in jobs
    /\ cronLive' = WithoutEntry(j)
    /\ cronEntries' = [cronEntries EXCEPT ![j] = NoEntry]
    /\ cancelled' = WithCancel({runningJobs[j]})
    /\ runningJobs' = WithoutHandle(j)
    /\ runState' = WithTimerStopped(j)
    /\ scheduledJobs' = [scheduledJobs EXCEPT ![j] = NoRun]
    /\ jobs' = Unloaded(j)
    /\ \E ok \in StoreOutcomes :
         IF ok THEN /\ status' = [status EXCEPT ![j] = "absent"]
                    /\ schedule' = [schedule EXCEPT ![j] = "none"]
                    /\ history' = [history EXCEPT ![j] = {}]
               ELSE UNCHANGED storeVars
    /\ UNCHANGED <<mu, updated, unregistered, launchVars, queueVars, shutVars>>

-----------------------------------------------------------------------------
(* The cron library, the timers, and the goroutine of each run. *)

\* A live entry comes due.  The library runs it in a goroutine of its own and
\* starts none after Stop.
CronFire(j) ==
    /\ sd = "up"
    /\ cronLive[j] # {}
    /\ mu # Free => launched + 1 < MaxRuns   \* bound: see RescheduleRead
    /\ Launch(j, "spawned", "cron", runState)
    /\ UNCHANGED <<coreVars, cancelVars, timerVars, queueVars, shutVars>>

\* The goroutine that armed the timer of r stores it, whatever became of it.
RegisterTimer(r) ==
    /\ mu = Free
    /\ r \in unregistered
    /\ scheduledJobs' = [scheduledJobs EXCEPT ![runJob[r]] = r]
    /\ unregistered' = unregistered \ {r}
    /\ UNCHANGED <<coreVars, cancelVars, runState, launchVars, queueVars,
                   shutVars>>

\* The timer of r expires: from here on timer.Stop comes too late.
TimerFire(r) ==
    /\ runState[r] = "armed"
    /\ runState' = [runState EXCEPT ![r] = "fired"]
    /\ UNCHANGED <<coreVars, cancelVars, timerVars, launchVars, queueVars,
                   shutVars>>

\* The callback forgets the timer kept for its job, which need not be its own.
TimerCallback(r) ==
    /\ mu = Free
    /\ runState[r] = "fired"
    /\ scheduledJobs' = [scheduledJobs EXCEPT ![runJob[r]] = NoRun]
    /\ runState' = [runState EXCEPT ![r] = "spawned"]
    /\ UNCHANGED <<coreVars, cancelVars, unregistered, launchVars, queueVars,
                   shutVars>>

\* Faulty: executeJob does not look at the shutdown flag.
MutRunsAnyway(r) == runJob[r] \in jobs

\* The two checks of executeJob.
MayRun(r) == sd = "up" /\ runJob[r] \in jobs

\* executeJob gives up: the manager shuts down or the job is gone.
SkipRun(r) ==
    /\ mu = Free
    /\ runState[r] = "spawned"
    /\ ~MayRun(r)
    /\ runState' = [runState EXCEPT ![r] = "aborted"]
    /\ UNCHANGED <<coreVars, cancelVars, timerVars, launchVars, queueVars,
                   shutVars>>

\* The runs of j between executeJob's wg.Add and the end of the processor's loop
\* body.
InFlight(j) == {r \in Runs : runJob[r] = j /\ runState[r] \in
                  {"running", "queued", "recorded", "settled"}}

\* executeJob up to Job.Run.  It does not look whether the job is running
\* already: the cancel function it stores replaces the one that was there.  The
\* history notes which runs have come together in this way.
BeginRun(r) ==
    /\ mu = Free
    /\ runState[r] = "spawned"
    /\ MayRun(r)
    /\ runningJobs' = [runningJobs EXCEPT ![runJob[r]] = r]
    /\ WgAdd
    /\ runState' = [runState EXCEPT ![r] = "running"]
    /\ met' = IF InFlight(runJob[r]) = {} THEN met
                ELSE met \cup InFlight(runJob[r]) \cup {r}
    /\ UNCHANGED <<coreVars, cancelled, timerVars, launched, runJob, runOrigin,
                   results, outcome, shutVars>>

\* Job.Run returns and executeJob hands in the result; a full channel drops it.
EndRun(r) ==
    /\ runState[r] = "running"
    /\ sd \in {"up", "draining"}
    /\ IF Len(results) < ResultsCap
         THEN /\ results' = Append(results, r)
              /\ \E out \in Outcomes : outcome' = [outcome EXCEPT ![r] = out]
              /\ runState' = [runState EXCEPT ![r] = "queued"]
              /\ UNCHANGED wg
         ELSE /\ WgDone
              /\ runState' = [runState EXCEPT ![r] = "dropped"]
              /\ UNCHANGED <<results, outcome>>
    /\ cancelled' = cancelled \ {r}
    /\ UNCHANGED <<coreVars, runningJobs, timerVars, launchVars, shutVars>>

\* The same, after Shutdown closed the channel: the send panics, in a select
\* with a default too.
SendOnClosed(r) ==
    /\ runState[r] = "running"
    /\ sd = "closing"
    /\ crashed' = TRUE
    /\ UNCHANGED <<coreVars, cancelVars, timerVars, runState, launchVars,
                   queueVars, sd, timedOut>>

-----------------------------------------------------------------------------
(* The results processor: one goroutine, one result at a time. *)

\* Faulty: a lookup that fails ends the goroutine instead of the iteration.
MutProcessorGone == \A r \in Runs : runState[r] \notin {"recorded", "settled", "leaked"}

ProcessorIdle == \A r \in Runs : runState[r] \notin {"recorded", "settled"}

\* Faulty: only the row of the job is written.
MutNotRecorded(r) == history

\* RecordJobResult: job_results references jobs, so the insert fails when the
\* row of the job is gone.
Recorded(r) ==
    IF status[runJob[r]] = "absent" THEN history
      ELSE [history EXCEPT ![runJob[r]] = @ \cup {outcome[r]}]

\* It takes a result and records it; an error is only logged.
TakeResult ==
    /\ ProcessorIdle
    /\ results # <<>>
    /\ results' = Tail(results)
    /\ LET r == Head(results) IN
         /\ runState' = [runState EXCEPT ![r] = "recorded"]
         /\ \E ok \in StoreOutcomes : history' = IF ok THEN Recorded(r) ELSE history
    /\ UNCHANGED <<jobs, mu, updated, status, schedule, cronVars, cancelVars,
                   timerVars, launchVars, wg, outcome, shutVars>>

\* Faulty: the status of every job follows its results.
MutAlwaysWrites(r) == TRUE

\* Periodic jobs keep the status their schedule gives them.
WritesStatus(r) == runJob[r] \notin Periodic

\* GetJob, and UpdateJobStatus for a one-time job, without m.mu.  The signal
\* is sent even when UpdateJobStatus fails.
SettleResult(r) ==
    /\ runState[r] = "recorded"
    /\ status[runJob[r]] # "absent"
    /\ \E ok \in StoreOutcomes :
         IF ok /\ WritesStatus(r)
           THEN status' = WithStatus(runJob[r], outcome[r])
           ELSE UNCHANGED status
    /\ Signal
    /\ runState' = [runState EXCEPT ![r] = "settled"]
    /\ outcome' = [outcome EXCEPT ![r] = "none"]
    /\ UNCHANGED <<jobs, mu, schedule, history, cronVars, cancelVars, timerVars,
                   launchVars, wg, results, shutVars>>

\* GetJob fails: `continue` skips the end of the loop body, so the entry of
\* m.runningJobs stays and m.wg is never decremented for this run.
LeakResult(r) ==
    /\ runState[r] = "recorded"
    /\ StoreMayFail \/ status[runJob[r]] = "absent"
    /\ runState' = [runState EXCEPT ![r] = "leaked"]
    /\ outcome' = [outcome EXCEPT ![r] = "none"]
    /\ UNCHANGED <<coreVars, cancelVars, timerVars, launchVars, wg, results,
                   shutVars>>

\* The end of the loop body: it forgets the cancel function kept for the job,
\* which need not be this run's, and calls wg.Done.
RetireResult(r) ==
    /\ mu = Free
    /\ runState[r] = "settled"
    /\ runningJobs' = WithoutHandle(runJob[r])
    /\ WgDone
    /\ runState' = [runState EXCEPT ![r] = "done"]
    /\ UNCHANGED <<coreVars, cancelled, timerVars, launchVars, results, outcome,
                   shutVars>>

\* ListenForUpdates (pubsub) takes the signal.
TakeUpdate ==
    /\ updated
    /\ updated' = FALSE
    /\ UNCHANGED <<jobs, mu, storeVars, cronVars, workVars>>

-----------------------------------------------------------------------------
(* Shutdown.  The process ends when it returns (main.go). *)

BeginShutdown ==
    /\ mu = Free
    /\ sd = "up"
    /\ sd' = "draining"
    /\ cancelled' = WithCancel({runningJobs[j] : j \in Jobs})
    /\ UNCHANGED <<coreVars, runningJobs, timerVars, runState, launchVars,
                   queueVars, timedOut, crashed>>

\* Faulty: Shutdown does not wait; its timeout never passes.
MutNoWait == TRUE
MutNoTimeout == FALSE

\* m.wg.Wait returns.
AllDone == wg = 0

\* wg.Wait returns; the results channel is closed.
DrainDone ==
    /\ sd = "draining"
    /\ AllDone
    /\ sd' = "closing"
    /\ UNCHANGED <<coreVars, cancelVars, timerVars, runState, launchVars,
                   queueVars, timedOut, crashed>>

\* The timeout passes first; the results channel is closed all the same.
DrainTimeout ==
    /\ sd = "draining"
    /\ timedOut' = TRUE
    /\ sd' = "closing"
    /\ UNCHANGED <<coreVars, cancelVars, timerVars, runState, launchVars,
                   queueVars, crashed>>

\* The functions the cron library started have returned; the store is closed.
CloseStore ==
    /\ sd = "closing"
    /\ \A r \in Runs : runOrigin[r] = "cron" => runState[r] \notin {"spawned", "running"}
    /\ sd' = "stopped"
    /\ UNCHANGED <<coreVars, cancelVars, timerVars, runState, launchVars,
                   queueVars, timedOut, crashed>>

Halted == crashed \/ sd = "stopped"

\* The process is gone: nothing happens any more.
Terminated == Halted /\ UNCHANGED vars

-----------------------------------------------------------------------------

Operation ==
    \/ \E j \in Jobs :
         \/ \E sched \in {"none", "set"} : SetupJob(j, sched)
         \/ StartJob(j)
         \/ StopRead(j)
         \/ PauseJob(j)
         \/ ResumeRead(j)
         \/ RescheduleRead(j)
         \/ TriggerJobNow(j)
         \/ DeleteJob(j)
    \/ StopCommit
    \/ ResumeCommit
    \/ RescheduleCommit
    \/ RescheduleAborted

Machine ==
    \/ \E j \in Jobs : CronFire(j)
    \/ \E r \in Runs :
         \/ RegisterTimer(r) \/ TimerFire(r) \/ TimerCallback(r)
         \/ SkipRun(r) \/ BeginRun(r) \/ EndRun(r) \/ SendOnClosed(r)
         \/ SettleResult(r) \/ LeakResult(r) \/ RetireResult(r)
    \/ TakeResult
    \/ TakeUpdate

ShuttingDown == BeginShutdown \/ DrainDone \/ DrainTimeout \/ CloseStore

Next ==
    \/ ~Halted /\ (Operation \/ Machine \/ ShuttingDown)
    \/ Terminated

Spec == Init /\ [][Next]_vars

-----------------------------------------------------------------------------
(* Safety. *)

\* The runs m.wg has been told of and not yet been told the end of.
Tracked == {r \in Runs : runState[r] \in
              {"running", "queued", "recorded", "settled", "leaked"}}

\* m.wg counts exactly the runs between executeJob's wg.Add and the wg.Done of
\* the channel's full case or of the processor: never negative (Go would
\* panic), and zero only when no result is on its way.
WaitGroupExact == wg = Cardinality(Tracked)

\* The channel holds each queued result once, and nothing else.
QueueExact ==
    /\ \A i \in DOMAIN results : runState[results[i]] = "queued"
    /\ \A i, k \in DOMAIN results : results[i] = results[k] => i = k
    /\ \A r \in Runs : runState[r] = "queued" => \E i \in DOMAIN results : results[i] = r

\* Closing the results channel cannot make a sender panic unless Shutdown's
\* timeout passed first: without it, wg.Wait has seen every sender off.
CloseIsSafe == crashed => timedOut

\* A Shutdown that did not time out has lost nothing that was under way: every
\* run that reached Job.Run has been retired, or was dropped by a full channel.
GracefulLosesNothing ==
    sd = "stopped" /\ ~timedOut => Tracked = {}

\* Runs that have reached Job.Run.
Begun == {r \in Runs : runState[r] \notin
            {"idle", "armed", "fired", "spawned", "aborted"}}

\* Once Shutdown has set its flag no run begins, whoever spawned it and however
\* late its goroutine, its timer or its cron entry comes: wg.Wait never races
\* with a wg.Add, and the drain is finite.
NoRunAfterShutdown == [][sd # "up" => Begun' = Begun]_vars

\* The runs m.wg has been told the end of.
AccountedFor == {r \in Runs : runState[r] \in {"done", "dropped"}}

\* The manager keeps the ledger of its executions: a run enters it once, while
\* Shutdown has not begun, and leaves it once; the channel is closed and the
\* process ends with an empty ledger, or after the timeout.
Ledger == INSTANCE RunLedger WITH
    phase    <- IF sd = "up" THEN "open" ELSE sd,
    active   <- Tracked,
    finished <- AccountedFor,
    overdue  <- timedOut

LedgerSpec == Ledger!Spec

\* Cron fires for a job at most once per tick, through the entry StopJob,
\* PauseJob and DeleteJob can still remove.
CronEntryKnown ==
    \A j \in Jobs : \A e \in cronLive[j] :
        e = cronEntries[j] /\ j \in jobs /\ j \in Periodic

\* A job that cron fires is shown as running, whatever store call failed: no
\* stopped, paused or merely created job keeps firing.
CronMatchesStatus ==
    \A j \in Jobs : cronLive[j] # {} => status[j] = "running"

\* A job in memory has a row, also after partial failures of SaveJob and
\* DeleteJob: no status update is silently lost on a missing row.
MemoryBacked == \A j \in jobs : status[j] # "absent"

\* A cancel function in m.runningJobs is one of this job's runs, not retired:
\* cancelling it hits that run or nothing, never another one.
HandleIsCurrent ==
    \A j \in Jobs : runningJobs[j] # NoRun =>
        /\ runJob[runningJobs[j]] = j
        /\ runState[runningJobs[j]] \in
             {"running", "queued", "recorded", "settled", "leaked", "dropped"}

\* A run that nobody can cancel any more was in flight together with another run
\* of its job, and lost its cancel function to that one: only overlap lets a run
\* escape StopJob, DeleteJob and Shutdown, not what an earlier run, long finished,
\* dropped or leaked, has left in m.runningJobs.
EscapeNeedsOverlap ==
    \A r \in Runs :
        /\ runState[r] = "running"
        /\ runningJobs[runJob[r]] # r
        /\ r \notin cancelled
        => r \in met

\* A timer that ticks on after its goroutine has stored it, out of the reach of
\* StopJob, RescheduleJob and DeleteJob.
Loose(r) ==
    /\ runState[r] = "armed"
    /\ r \notin unregistered
    /\ scheduledJobs[runJob[r]] # r

\* A timer gets loose only in the step in which the goroutine of another timer of
\* its job stores that one in m.scheduledJobs, or the callback of another one
\* empties the job's place there: no operation forgets a timer it has not stopped.
LooseTimerNeedsTimer ==
    [][\A r \in Runs : ~Loose(r) /\ Loose(r)' =>
         \E q \in Runs \ {r} :
            /\ runJob[q] = runJob[r]
            /\ \/ q \in unregistered \ unregistered'
               \/ runState[q] = "fired" /\ runState'[q] = "spawned"]_vars

\* Shutdown cancels every run but those that have been in flight with another one
\* of their job.
ShutdownReaches ==
    sd # "up" =>
        \A r \in Runs : runState[r] = "running" => r \in cancelled \/ r \in met

\* r is the newest of the runs that timers of j have caused or are to cause.
NewestTimer(j, r) ==
    /\ runJob[r] = j /\ runOrigin[r] = "timer"
    /\ \A q \in Runs : q > r => ~(runJob[q] = j /\ runOrigin[q] = "timer")

\* The run of a timer that is still to come or under way, up to the moment in
\* which the processor writes the status of its job.
DueStates == {"armed", "fired", "spawned", "running", "queued", "recorded"}

\* While no store call fails, a row says scheduled only if the newest of the job's
\* timers has yet to fire or its run is under way, or the full channel has dropped
\* the result of that very run, after which nothing writes the row by itself.
\* Rescheduling, stopping and finishing runs, interleaved in any way, lose no
\* scheduled job otherwise.
ScheduledHasTimer ==
    sd = "up" /\ ~StoreMayFail =>
        \A j \in jobs : status[j] = "scheduled" =>
            \E r \in Runs : NewestTimer(j, r) /\ runState[r] \in DueStates \cup {"dropped"}

\* The processor has recorded a result of j, or failed to, and not yet looked at
\* the job's row.
InHand(j) == \E r \in Runs : runState[r] = "recorded" /\ runJob[r] = j

\* No id is set up again while the processor is between the two: it would write
\* the status of the run of the deleted job into the new row.
NoReuseInHand == [][\A j \in jobs' \ jobs : ~InHand(j)]_vars

\* Under NoReuseInHand and a store that works, a row says complete or failed only
\* if job_results has a row of that job with that outcome, also when jobs are
\* deleted and when StopJob or RescheduleJob writes after a status it read before.
StatusHasResult ==
    \A j \in Jobs : status[j] \in Outcomes => status[j] \in history[j]

-----------------------------------------------------------------------------
(* Liveness.                                                               *)
(* The manager's own goroutines, timers and lock holders are never held up *)
(* for ever.  sync.Mutex hands the lock to a goroutine that has waited for *)
(* long, so a step that takes m.mu is only asked to be enabled again and   *)
(* again (SF).  Nothing is assumed of the callers of the operations, and   *)
(* of the jobs only what each specification says.                          *)

Fairness ==
    /\ WF_vars(StopCommit \/ ResumeCommit \/ RescheduleCommit \/ RescheduleAborted)
    /\ WF_vars(TakeResult \/ \E r \in Runs : SettleResult(r) \/ LeakResult(r))
    /\ SF_vars(\E r \in Runs : RetireResult(r))
    /\ WF_vars(DrainDone \/ DrainTimeout \/ CloseStore)
    /\ \A r \in Runs :
         /\ WF_vars(TimerFire(r))
         /\ SF_vars(TimerCallback(r) \/ SkipRun(r) \/ BeginRun(r))

\* Job.Run returns, cancelled or not: JobRun shows when BaseJob.Run does.
RunsReturn == \A r \in Runs : WF_vars(EndRun(r) \/ SendOnClosed(r))

\* Less than that: Job.Run returns once its context has been cancelled.
CancelledReturn ==
    \A r \in Runs : WF_vars(r \in cancelled /\ (EndRun(r) \/ SendOnClosed(r)))

\* Every result that enters the channel leaves the processor again, through
\* all traffic on m.mu and while the channel is being closed.
ResultsLeave ==
    \A r \in Runs :
        runState[r] = "queued" ~> (runState[r] \in {"done", "leaked"} \/ Halted)

\* Shutdown returns, also when wg.Wait never does because the processor skipped a
\* wg.Done or a job ignores the end of the process: the timeout covers both.  What
\* it does not cover is the wait for the cron library, and there Shutdown is held
\* up for ever by nothing but a run of cron's that goes on, and that Shutdown could
\* not cancel because it has overlapped with another run of its job.
ShutdownReturns ==
    sd = "draining" ~>
        \/ Halted
        \/ \E r \in Runs : [](/\ runState[r] = "running" /\ runOrigin[r] = "cron"
                              /\ r \notin cancelled /\ r \in met)

\* A job that is scheduled is not so for ever.  With an open manager and a store
\* that works, its newest timer brings it to an end, someone gives it another status
\* or a newer timer; or the full channel has dropped the result of that timer's run.
ScheduleHappens ==
    \A j \in Jobs, r \in Runs :
        status[j] = "scheduled" /\ NewestTimer(j, r) ~>
            \/ status[j] # "scheduled"
            \/ ~NewestTimer(j, r)
            \/ runState[r] = "dropped"
            \/ sd # "up"

-----------------------------------------------------------------------------
(* What a comment of the code says, and the code does not do. *)

\* "Update job status in store if job was successful or failed (not if
\* stopped)": a one-time job that was stopped stays stopped.
StoppedStays ==
    [][\A j \in Jobs : status[j] = "stopped" => status'[j] \notin Outcomes]_vars

=============================================================================
