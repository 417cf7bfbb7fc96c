-------------------------- MODULE JobManagerProofs --------------------------
(***************************************************************************)
(* Proofs about JobManager, for every set of jobs, every number of runs    *)
(* and every capacity of the results channel, with and without failures    *)
(* of the store.                                                           *)
(***************************************************************************)
EXTENDS JobManager, TLAPS, FiniteSetTheorems, SequenceTheorems

LEMMA RunsFacts ==
    /\ Runs \subseteq Nat
    /\ NoRun \notin Runs
    /\ IsFiniteSet(Runs)
    /\ Cardinality({}) = 0
PROOF
  <1>1. IsFiniteSet(Runs)
    BY FS_Interval, BoundsAssumption DEF Runs
  <1> QED
    BY <1>1, FS_EmptySet, BoundsAssumption DEF Runs, NoRun

-----------------------------------------------------------------------------
(* Type correctness. *)

\* What an operation that holds m.mu between its two actions has in hand.
LEMMA HolderType ==
    ASSUME TypeOK, mu # Free
    PROVE  mu.job \in Jobs /\ mu.seen \in Statuses
PROOF BY DEF TypeOK, Holders

\* A launched run has a number of its own, in Runs.
LEMMA LaunchType ==
    ASSUME TypeOK,
           NEW j \in Jobs, NEW s \in RunStates, NEW o \in Origins,
           NEW base \in [Runs -> RunStates],
           Launch(j, s, o, base)
    PROVE  /\ launched + 1 \in Runs
           /\ launched' \in 0..MaxRuns
           /\ runState' \in [Runs -> RunStates]
           /\ runJob' \in [Runs -> Jobs \cup {NoJob}]
           /\ runOrigin' \in [Runs -> Origins \cup {"none"}]
           /\ met' \subseteq Runs
PROOF BY BoundsAssumption DEF TypeOK, Launch, Runs

LEMMA HelperTypes ==
    ASSUME TypeOK, NEW j
    PROVE  /\ \A s \in Statuses : WithStatus(j, s) \in [Jobs -> Statuses \cup {"absent"}]
           /\ WithoutEntry(j) \in [Jobs -> SUBSET EntryIds]
           /\ WithoutHandle(j) \in [Jobs -> Runs \cup {NoRun}]
           /\ WithTimerStopped(j) \in [Runs -> RunStates]
           /\ \A rs : WithCancel(rs) \subseteq Runs
           /\ j \in Jobs /\ AddFunc(j) =>
                /\ cronLive' \in [Jobs -> SUBSET EntryIds]
                /\ cronEntries' \in [Jobs -> EntryIds \cup {NoEntry}]
PROOF
  <1> USE DEF TypeOK
  <1>1. \A s \in Statuses : WithStatus(j, s) \in [Jobs -> Statuses \cup {"absent"}]
    BY DEF WithStatus
  <1>2. WithoutEntry(j) \in [Jobs -> SUBSET EntryIds]
    BY DEF WithoutEntry
  <1>3. WithoutHandle(j) \in [Jobs -> Runs \cup {NoRun}]
    BY DEF WithoutHandle
  <1>4. WithTimerStopped(j) \in [Runs -> RunStates]
    BY DEF WithTimerStopped, RunStates
  <1>5. \A rs : WithCancel(rs) \subseteq Runs
    BY DEF WithCancel
  <1>6. j \in Jobs /\ AddFunc(j) =>
          /\ cronLive' \in [Jobs -> SUBSET EntryIds]
          /\ cronEntries' \in [Jobs -> EntryIds \cup {NoEntry}]
    BY DEF AddFunc, FreshEntries
  <1> QED
    BY <1>1, <1>2, <1>3, <1>4, <1>5, <1>6

\* The channel, and the outcome of a result until it has been settled: what the
\* type of the tables in the store rests on.
QueueInv ==
    /\ QueueExact
    /\ \A r \in Runs : runState[r] \in {"queued", "recorded"} => outcome[r] \in Outcomes

\* What the processor takes next.
LEMMA QueuedHead ==
    ASSUME TypeOK, QueueInv, results # <<>>
    PROVE  /\ Head(results) \in Runs
           /\ runState[Head(results)] = "queued"
           /\ outcome[Head(results)] \in Outcomes
PROOF
  <1>1. Head(results) = results[1] /\ 1 \in DOMAIN results /\ Head(results) \in Runs
    BY DEF TypeOK
  <1> QED
    BY <1>1 DEF QueueInv, QueueExact

LEMMA TypeStep == TypeOK /\ QueueInv /\ [Next]_vars => TypeOK'
PROOF
  <1> SUFFICES ASSUME TypeOK, QueueInv, [Next]_vars PROVE TypeOK'
    OBVIOUS
  <1> USE DEF TypeOK, coreVars, workVars, storeVars, cronVars, cancelVars,
              timerVars, launchVars, queueVars, shutVars
  <1>1. ASSUME NEW j \in Jobs, NEW sched \in {"none", "set"}, SetupJob(j, sched)
        PROVE  TypeOK'
    BY <1>1 DEF SetupJob, Statuses
  <1>2. ASSUME NEW j \in Jobs, StartPeriodic(j) PROVE TypeOK'
    BY <1>2, HelperTypes DEF StartPeriodic, Statuses
  <1>3. ASSUME NEW j \in Jobs, StartNow(j) PROVE TypeOK'
    BY <1>3, HelperTypes, LaunchType DEF StartNow, Statuses, RunStates, Origins
  <1>4. ASSUME NEW j \in Jobs, StartLater(j) PROVE TypeOK'
    <2>1. status' \in [Jobs -> Statuses \cup {"absent"}]
      BY <1>4, HelperTypes DEF StartLater, Statuses
    <2>2. Launch(j, "armed", "timer", runState)
      BY <1>4 DEF StartLater
    <2>3. /\ launched + 1 \in Runs /\ launched' \in 0..MaxRuns
          /\ runState' \in [Runs -> RunStates]
          /\ runJob' \in [Runs -> Jobs \cup {NoJob}]
          /\ runOrigin' \in [Runs -> Origins \cup {"none"}]
          /\ met' \subseteq Runs
      BY <2>2, LaunchType DEF RunStates, Origins
    <2> QED
      BY <1>4, <2>1, <2>3 DEF StartLater
  <1>5. ASSUME NEW j \in Jobs, StartAborted(j) PROVE TypeOK'
    BY <1>5, HelperTypes DEF StartAborted, Statuses
  <1>6. ASSUME NEW j \in Jobs, NEW op \in {"stop", "resume", "reschedule"}, Read(op, j)
        PROVE  TypeOK'
    BY <1>6 DEF Read, Holders
  <1>7. ASSUME StopCommit PROVE TypeOK'
    <2>1. mu.job \in Jobs /\ mu.seen \in Statuses
      BY <1>7, HolderType DEF StopCommit
    <2>2. StopStatus(mu.job, mu.seen) \in Statuses
      BY DEF StopStatus, Statuses
    <2>3. status' \in [Jobs -> Statuses \cup {"absent"}]
      <3>1. WithStatus(mu.job, StopStatus(mu.job, mu.seen)) \in [Jobs -> Statuses \cup {"absent"}]
        BY <2>2, HelperTypes
      <3> QED
        BY <1>7, <3>1 DEF StopCommit
    <2>4. updated' \in BOOLEAN
      BY <1>7 DEF StopCommit, Signal
    <2>5. runState' \in [Runs -> RunStates] /\ scheduledJobs' \in [Jobs -> Runs \cup {NoRun}]
      <3>1. WithTimerStopped(mu.job) \in [Runs -> RunStates]
        BY HelperTypes
      <3> QED
        BY <1>7, <3>1 DEF StopCommit
    <2>6. /\ cronLive' \in [Jobs -> SUBSET EntryIds]
          /\ cronEntries' \in [Jobs -> EntryIds \cup {NoEntry}]
          /\ cancelled' \subseteq Runs
          /\ runningJobs' \in [Jobs -> Runs \cup {NoRun}]
      BY <1>7, <2>1, HelperTypes DEF StopCommit
    <2> QED
      BY <1>7, <2>3, <2>4, <2>5, <2>6 DEF StopCommit
  <1>8. ASSUME NEW j \in Jobs, PauseJob(j) PROVE TypeOK'
    <2>1. status' \in [Jobs -> Statuses \cup {"absent"}]
      BY <1>8, HelperTypes DEF PauseJob, Statuses
    <2>2. updated' \in BOOLEAN
      BY <1>8 DEF PauseJob, Signal
    <2>3. cronLive' \in [Jobs -> SUBSET EntryIds]
      BY <1>8, HelperTypes DEF PauseJob
    <2> QED
      BY <1>8, <2>1, <2>2, <2>3 DEF PauseJob
  <1>9. ASSUME ResumeCommit PROVE TypeOK'
    <2>1. mu.job \in Jobs
      BY <1>9, HolderType DEF ResumeCommit
    <2>2. status' \in [Jobs -> Statuses \cup {"absent"}]
      BY <1>9, <2>1, HelperTypes DEF ResumeCommit, Statuses
    <2>3. updated' \in BOOLEAN
      BY <1>9 DEF ResumeCommit, Signal
    <2>4. /\ cronLive' \in [Jobs -> SUBSET EntryIds]
          /\ cronEntries' \in [Jobs -> EntryIds \cup {NoEntry}]
      BY <1>9, <2>1, HelperTypes DEF ResumeCommit
    <2> QED
      BY <1>9, <2>2, <2>3, <2>4 DEF ResumeCommit
  <1>10. ASSUME RescheduleCommit PROVE TypeOK'
    <2>1. mu.job \in Jobs /\ mu.seen \in Statuses
      BY <1>10, HolderType DEF RescheduleCommit
    <2>2. WithTimerStopped(mu.job) \in [Runs -> RunStates]
      BY HelperTypes
    <2>3. Launch(mu.job, "armed", "timer", WithTimerStopped(mu.job))
      BY <1>10 DEF RescheduleCommit
    <2>4. /\ launched + 1 \in Runs /\ launched' \in 0..MaxRuns
          /\ runState' \in [Runs -> RunStates]
          /\ runJob' \in [Runs -> Jobs \cup {NoJob}]
          /\ runOrigin' \in [Runs -> Origins \cup {"none"}]
          /\ met' \subseteq Runs
      BY <2>1, <2>2, <2>3, LaunchType DEF RunStates, Origins
    <2>5. /\ status' \in [Jobs -> Statuses \cup {"absent"}]
          /\ schedule' \in [Jobs -> {"none", "set"}]
          /\ scheduledJobs' \in [Jobs -> Runs \cup {NoRun}]
          /\ updated' \in BOOLEAN
      BY <1>10, <2>1 DEF RescheduleCommit, Signal
    <2> QED
      BY <1>10, <2>4, <2>5 DEF RescheduleCommit
  <1>11. ASSUME RescheduleAborted PROVE TypeOK'
    BY <1>11, HolderType, HelperTypes DEF RescheduleAborted
  <1>12. ASSUME NEW j \in Jobs, TriggerJobNow(j) PROVE TypeOK'
    BY <1>12, LaunchType DEF TriggerJobNow, Signal, RunStates, Origins
  <1>13. ASSUME NEW j \in Jobs, DeleteJob(j) PROVE TypeOK'
    <2>1. /\ cronLive' \in [Jobs -> SUBSET EntryIds]
          /\ runningJobs' \in [Jobs -> Runs \cup {NoRun}]
          /\ runState' \in [Runs -> RunStates]
          /\ cancelled' \subseteq Runs
      BY <1>13, HelperTypes DEF DeleteJob
    <2>2. /\ cronEntries' \in [Jobs -> EntryIds \cup {NoEntry}]
          /\ scheduledJobs' \in [Jobs -> Runs \cup {NoRun}]
          /\ jobs' \subseteq Jobs
      BY <1>13 DEF DeleteJob, Unloaded
    <2>3. /\ status' \in [Jobs -> Statuses \cup {"absent"}]
          /\ schedule' \in [Jobs -> {"none", "set"}]
          /\ history' \in [Jobs -> SUBSET Outcomes]
      BY <1>13 DEF DeleteJob
    <2> QED
      BY <1>13, <2>1, <2>2, <2>3 DEF DeleteJob
  <1>14. ASSUME NEW j \in Jobs, CronFire(j) PROVE TypeOK'
    BY <1>14, LaunchType DEF CronFire, RunStates, Origins
  <1>15. ASSUME NEW r \in Runs, RegisterTimer(r) PROVE TypeOK'
    BY <1>15 DEF RegisterTimer
  <1>16. ASSUME NEW r \in Runs, TimerFire(r) PROVE TypeOK'
    BY <1>16 DEF TimerFire, RunStates
  <1>17. ASSUME NEW r \in Runs, TimerCallback(r) PROVE TypeOK'
    BY <1>17 DEF TimerCallback, RunStates
  <1>18. ASSUME NEW r \in Runs, SkipRun(r) PROVE TypeOK'
    BY <1>18 DEF SkipRun, RunStates
  <1>19. ASSUME NEW r \in Runs, BeginRun(r) PROVE TypeOK'
    <2>1. runningJobs' \in [Jobs -> Runs \cup {NoRun}]
      BY <1>19 DEF BeginRun
    <2>2. wg' \in Int /\ runState' \in [Runs -> RunStates]
      BY <1>19 DEF BeginRun, WgAdd, RunStates
    <2>3. met' \subseteq Runs
      BY <1>19 DEF BeginRun, InFlight
    <2> QED
      BY <1>19, <2>1, <2>2, <2>3 DEF BeginRun
  <1>20. ASSUME NEW r \in Runs, EndRun(r) PROVE TypeOK'
    <2>1. results' \in Seq(Runs)
      <3>1. Append(results, r) \in Seq(Runs)
        BY AppendProperties
      <3> QED
        BY <1>20, <3>1 DEF EndRun
    <2>2. outcome' \in [Runs -> Outcomes \cup {"none"}]
      BY <1>20 DEF EndRun
    <2>3. wg' \in Int
      BY <1>20 DEF EndRun, WgDone
    <2>4. runState' \in [Runs -> RunStates]
      <3>1. \/ runState' = [runState EXCEPT ![r] = "queued"]
            \/ runState' = [runState EXCEPT ![r] = "dropped"]
        BY <1>20 DEF EndRun
      <3> QED
        BY <3>1 DEF RunStates
    <2>5. cancelled' \subseteq Runs
      BY <1>20 DEF EndRun
    <2> QED
      BY <1>20, <2>1, <2>2, <2>3, <2>4, <2>5 DEF EndRun
  <1>21. ASSUME NEW r \in Runs, SendOnClosed(r) PROVE TypeOK'
    BY <1>21 DEF SendOnClosed
  <1>22. ASSUME TakeResult PROVE TypeOK'
    <2>1. results' \in Seq(Runs)
      BY <1>22 DEF TakeResult
    <2>3. outcome[Head(results)] \in Outcomes
      BY <1>22, QueuedHead DEF TakeResult
    <2>4. history' \in [Jobs -> SUBSET Outcomes]
      <3>1. Recorded(Head(results)) \in [Jobs -> SUBSET Outcomes]
        BY <2>3 DEF Recorded
      <3>2. history' = Recorded(Head(results)) \/ history' = history
        BY <1>22 DEF TakeResult
      <3> QED
        BY <3>1, <3>2
    <2>5. runState' \in [Runs -> RunStates]
      BY <1>22 DEF TakeResult, RunStates
    <2> QED
      BY <1>22, <2>1, <2>4, <2>5 DEF TakeResult
  <1>23. ASSUME NEW r \in Runs, SettleResult(r) PROVE TypeOK'
    <2>1. outcome[r] \in Statuses
      BY <1>23 DEF SettleResult, QueueInv, Outcomes, Statuses
    <2>2. status' \in [Jobs -> Statuses \cup {"absent"}]
      <3>1. WithStatus(runJob[r], outcome[r]) \in [Jobs -> Statuses \cup {"absent"}]
        BY <2>1, HelperTypes
      <3> QED
        BY <1>23, <3>1 DEF SettleResult
    <2>3. /\ updated' \in BOOLEAN
          /\ runState' \in [Runs -> RunStates]
          /\ outcome' \in [Runs -> Outcomes \cup {"none"}]
      BY <1>23 DEF SettleResult, Signal, RunStates
    <2> QED
      BY <1>23, <2>2, <2>3 DEF SettleResult
  <1>24. ASSUME NEW r \in Runs, LeakResult(r) PROVE TypeOK'
    BY <1>24 DEF LeakResult, RunStates
  <1>25. ASSUME NEW r \in Runs, RetireResult(r) PROVE TypeOK'
    <2>1. WithoutHandle(runJob[r]) \in [Jobs -> Runs \cup {NoRun}]
      BY HelperTypes
    <2>2. wg' \in Int /\ runState' \in [Runs -> RunStates]
      BY <1>25 DEF RetireResult, WgDone, RunStates
    <2> QED
      BY <1>25, <2>1, <2>2 DEF RetireResult
  <1>26. ASSUME TakeUpdate PROVE TypeOK'
    BY <1>26 DEF TakeUpdate
  <1>27. ASSUME ShuttingDown PROVE TypeOK'
    <2>1. CASE BeginShutdown
      BY <2>1, HelperTypes DEF BeginShutdown
    <2>2. CASE DrainDone \/ DrainTimeout \/ CloseStore
      BY <2>2 DEF DrainDone, DrainTimeout, CloseStore
    <2> QED
      BY <1>27, <2>1, <2>2 DEF ShuttingDown
  <1>28. ASSUME UNCHANGED vars PROVE TypeOK'
    BY <1>28 DEF vars
  <1> QED
    BY <1>1, <1>2, <1>3, <1>4, <1>5, <1>6, <1>7, <1>8, <1>9, <1>10, <1>11, <1>12,
       <1>13, <1>14, <1>15, <1>16, <1>17, <1>18, <1>19, <1>20, <1>21, <1>22, <1>23,
       <1>24, <1>25, <1>26, <1>27, <1>28
       DEF Next, Operation, Machine, Terminated, StartJob, StopRead, ResumeRead,
           RescheduleRead

-----------------------------------------------------------------------------
(* The runs.  All the actions do to the channel and to m.wg is done by six of *)
(* them; the others only move runs that have not reached Job.Run.             *)

Pending == {"idle", "armed", "fired", "spawned", "aborted"}

PendingMove ==
    /\ \A r \in Runs : \/ runState'[r] = runState[r]
                       \/ runState[r] \in Pending /\ runState'[r] \in Pending
    /\ UNCHANGED <<wg, results, outcome>>

\* The numbers of the runs to come are not in use.
Unused == \A r \in Runs : r > launched => runState[r] = "idle"

LEMMA LaunchMoves ==
    ASSUME TypeOK, Unused, NEW j, NEW s \in {"armed", "spawned"}, NEW o,
           NEW base, base = runState \/ base = WithTimerStopped(j),
           Launch(j, s, o, base), UNCHANGED queueVars
    PROVE  PendingMove /\ Unused'
PROOF
  <1>1. launched + 1 \in Runs /\ launched' = launched + 1 /\ launched \in Nat
    BY BoundsAssumption DEF TypeOK, Launch, Runs
  <1>2. /\ base \in [Runs -> RunStates]
        /\ \A r \in Runs : \/ base[r] = runState[r]
                           \/ runState[r] = "armed" /\ base[r] = "aborted"
    BY DEF WithTimerStopped, TypeOK, RunStates
  <1>3. runState' = [base EXCEPT ![launched + 1] = s]
    BY DEF Launch
  <1>4. runState[launched + 1] = "idle"
    BY <1>1 DEF Unused
  <1>5. PendingMove
    BY <1>1, <1>2, <1>3, <1>4 DEF PendingMove, Pending, queueVars
  <1>6. Unused'
    <2> SUFFICES ASSUME NEW r \in Runs, r > launched' PROVE runState'[r] = "idle"
      BY DEF Unused
    <2>1. r # launched + 1 /\ r > launched
      BY <1>1, BoundsAssumption DEF Runs
    <2>2. runState[r] = "idle"
      BY <2>1 DEF Unused
    <2> QED
      BY <1>2, <1>3, <2>1, <2>2
  <1> QED
    BY <1>5, <1>6

ResultMove ==
    \/ TakeResult
    \/ \E r \in Runs : \/ BeginRun(r) \/ EndRun(r)
                      \/ SettleResult(r) \/ LeakResult(r) \/ RetireResult(r)

LEMMA StepCases ==
    ASSUME TypeOK, Unused, QueueInv, [Next]_vars
    PROVE  Unused' /\ (PendingMove \/ ResultMove)
PROOF
  <1> USE DEF coreVars, workVars, storeVars, cronVars, cancelVars, timerVars,
              launchVars, queueVars, shutVars
  <1>1. ASSUME UNCHANGED <<launched, runState, wg, results, outcome>>
        PROVE  Unused' /\ PendingMove
    BY <1>1 DEF Unused, PendingMove
  <1>2. ASSUME NEW j, runState' = WithTimerStopped(j),
               UNCHANGED <<launched, wg, results, outcome>>
        PROVE  Unused' /\ PendingMove
    BY <1>2 DEF Unused, PendingMove, Pending, WithTimerStopped, TypeOK
  <1>3. ASSUME NEW r \in Runs, NEW s \in {"fired", "spawned", "aborted"},
               runState[r] \in {"armed", "fired", "spawned"},
               runState' = [runState EXCEPT ![r] = s],
               UNCHANGED <<launched, wg, results, outcome>>
        PROVE  Unused' /\ PendingMove
    BY <1>3 DEF Unused, PendingMove, Pending, TypeOK
  <1>4. ASSUME NEW j \in Jobs, \/ \E sched \in {"none", "set"} : SetupJob(j, sched)
                               \/ StartPeriodic(j) \/ StartAborted(j)
                               \/ \E op \in {"stop", "resume", "reschedule"} : Read(op, j)
                               \/ PauseJob(j)
        PROVE  Unused' /\ PendingMove
    BY <1>1, <1>4 DEF SetupJob, StartPeriodic, StartAborted, Read, PauseJob
  <1>5. ASSUME NEW j \in Jobs, StartNow(j) \/ TriggerJobNow(j) \/ CronFire(j)
        PROVE  Unused' /\ PendingMove
    BY <1>5, LaunchMoves DEF StartNow, TriggerJobNow, CronFire
  <1>6. ASSUME NEW j \in Jobs, StartLater(j) PROVE Unused' /\ PendingMove
    BY <1>6, LaunchMoves DEF StartLater
  <1>7. ASSUME StopCommit PROVE Unused' /\ PendingMove
    <2>1. \/ runState' = WithTimerStopped(mu.job)
          \/ UNCHANGED runState
      BY <1>7 DEF StopCommit
    <2>2. UNCHANGED <<launched, wg, results, outcome>>
      BY <1>7 DEF StopCommit
    <2> QED
      BY <1>1, <1>2, <2>1, <2>2
  <1>8. ASSUME ResumeCommit PROVE Unused' /\ PendingMove
    BY <1>1, <1>8 DEF ResumeCommit
  <1>9. ASSUME RescheduleCommit PROVE Unused' /\ PendingMove
    BY <1>9, LaunchMoves DEF RescheduleCommit
  <1>10. ASSUME RescheduleAborted PROVE Unused' /\ PendingMove
    BY <1>2, <1>10 DEF RescheduleAborted
  <1>11. ASSUME NEW j \in Jobs, DeleteJob(j) PROVE Unused' /\ PendingMove
    BY <1>2, <1>11 DEF DeleteJob
  <1>12. ASSUME NEW r \in Runs, RegisterTimer(r) \/ SendOnClosed(r)
         PROVE  Unused' /\ PendingMove
    BY <1>1, <1>12 DEF RegisterTimer, SendOnClosed
  <1>13. ASSUME NEW r \in Runs, TimerFire(r) \/ TimerCallback(r) \/ SkipRun(r)
         PROVE  Unused' /\ PendingMove
    BY <1>3, <1>13 DEF TimerFire, TimerCallback, SkipRun
  <1>14. ASSUME ResultMove PROVE Unused'
    <2>1. launched' = launched
      BY <1>14 DEF ResultMove, TakeResult, BeginRun, EndRun, SettleResult,
                   LeakResult, RetireResult
    <2>2. \E r, s : /\ runState' = [runState EXCEPT ![r] = s]
                    /\ r \in Runs => runState[r] # "idle"
      <3>1. CASE TakeResult
        BY <3>1, QueuedHead DEF TakeResult
      <3>2. ASSUME NEW r \in Runs, BeginRun(r) \/ EndRun(r) \/ SettleResult(r)
                                   \/ LeakResult(r) \/ RetireResult(r)
            PROVE  \E s : runState' = [runState EXCEPT ![r] = s] /\ runState[r] # "idle"
        BY <3>2 DEF BeginRun, EndRun, SettleResult, LeakResult, RetireResult
      <3> QED
        BY <1>14, <3>1, <3>2 DEF ResultMove
    <2> QED
      BY <2>1, <2>2 DEF Unused, TypeOK
  <1>15. ASSUME TakeUpdate \/ ShuttingDown \/ UNCHANGED vars
         PROVE  Unused' /\ PendingMove
    BY <1>1, <1>15 DEF TakeUpdate, ShuttingDown, BeginShutdown, DrainDone,
                       DrainTimeout, CloseStore, vars
  <1> QED
    BY <1>4, <1>5, <1>6, <1>7, <1>8, <1>9, <1>10, <1>11, <1>12, <1>13, <1>14, <1>15
       DEF Next, Operation, Machine, Terminated, StartJob, StopRead, ResumeRead,
           RescheduleRead, ResultMove

\* One result enters the channel at its end, or leaves it at its head.
LEMMA QueueStep ==
    ASSUME TypeOK, TypeOK', QueueInv, PendingMove \/ ResultMove
    PROVE  QueueInv'
PROOF
  <1>1. CASE PendingMove
    <2>1. \A r \in Runs : /\ runState'[r] = "queued" <=> runState[r] = "queued"
                          /\ runState'[r] = "recorded" <=> runState[r] = "recorded"
      BY <1>1 DEF PendingMove, Pending
    <2>2. \A i \in DOMAIN results : results[i] \in Runs
      BY DEF TypeOK
    <2>3. results' = results /\ outcome' = outcome
      BY <1>1 DEF PendingMove
    <2>4. QueueExact'
      BY <2>1, <2>2, <2>3 DEF QueueInv, QueueExact
    <2> QED
      BY <2>1, <2>3, <2>4 DEF QueueInv
  <1>2. CASE TakeResult
    <2> DEFINE h == Head(results)
    <2>1. /\ results # <<>> /\ results' = Tail(results)
          /\ runState' = [runState EXCEPT ![h] = "recorded"]
          /\ UNCHANGED outcome
      BY <1>2 DEF TakeResult
    <2>2. h \in Runs /\ outcome[h] \in Outcomes /\ h = results[1] /\ 1 \in DOMAIN results
      BY <2>1, QueuedHead DEF TypeOK
    <2>3. /\ Len(results') = Len(results) - 1
          /\ \A i \in DOMAIN results' : results'[i] = results[i + 1] /\ i + 1 \in DOMAIN results
          /\ \A i \in DOMAIN results : i # 1 => i - 1 \in DOMAIN results' /\ results'[i - 1] = results[i]
      BY <2>1 DEF TypeOK
    <2>4. \A i \in DOMAIN results' : results'[i] # h /\ results'[i] \in Runs
      <3> SUFFICES ASSUME NEW i \in DOMAIN results'
                   PROVE  results'[i] # h /\ results'[i] \in Runs
        OBVIOUS
      <3>1. results'[i] = results[i + 1] /\ i + 1 \in DOMAIN results /\ i + 1 # 1
        BY <2>3 DEF TypeOK
      <3>2. results[i + 1] # results[1]
        BY <2>2, <3>1 DEF QueueInv, QueueExact
      <3> QED
        BY <2>2, <3>1, <3>2 DEF TypeOK
    <2>5. \A i \in DOMAIN results' : runState'[results'[i]] = "queued"
      BY <2>1, <2>3, <2>4 DEF QueueInv, QueueExact, TypeOK
    <2>6. \A i, k \in DOMAIN results' : results'[i] = results'[k] => i = k
      BY <2>3 DEF QueueInv, QueueExact, TypeOK
    <2>7. ASSUME NEW r \in Runs, runState'[r] = "queued"
          PROVE  \E i \in DOMAIN results' : results'[i] = r
      <3>1. r # h /\ runState[r] = "queued"
        BY <2>1, <2>2, <2>7 DEF TypeOK
      <3>2. PICK i \in DOMAIN results : results[i] = r
        BY <3>1 DEF QueueInv, QueueExact
      <3> QED
        BY <2>2, <2>3, <3>1, <3>2
    <2>8. \A r \in Runs : runState'[r] \in {"queued", "recorded"} => outcome'[r] \in Outcomes
      BY <2>1, <2>2 DEF QueueInv, TypeOK
    <2> QED
      BY <2>5, <2>6, <2>7, <2>8 DEF QueueInv, QueueExact
  <1>3. ASSUME NEW q \in Runs, EndRun(q), Len(results) < ResultsCap PROVE QueueInv'
    <2>1. /\ runState[q] = "running"
          /\ results' = Append(results, q)
          /\ runState' = [runState EXCEPT ![q] = "queued"]
          /\ \E out \in Outcomes : outcome' = [outcome EXCEPT ![q] = out]
      BY <1>3 DEF EndRun
    <2>2. /\ Len(results') = Len(results) + 1
          /\ \A i \in DOMAIN results : i \in DOMAIN results' /\ results'[i] = results[i]
          /\ results'[Len(results) + 1] = q /\ Len(results) + 1 \in DOMAIN results'
          /\ \A i \in DOMAIN results' : i \in DOMAIN results \/ i = Len(results) + 1
      BY <2>1, AppendProperties DEF TypeOK
    <2>3. \A i \in DOMAIN results : results[i] # q /\ results[i] \in Runs
      BY <2>1 DEF QueueInv, QueueExact, TypeOK
    <2>4. \A i \in DOMAIN results' : runState'[results'[i]] = "queued"
      BY <2>1, <2>2, <2>3 DEF QueueInv, QueueExact, TypeOK
    <2>5. \A i, k \in DOMAIN results' : results'[i] = results'[k] => i = k
      BY <2>2, <2>3 DEF QueueInv, QueueExact
    <2>6. \A r \in Runs : runState'[r] = "queued" => \E i \in DOMAIN results' : results'[i] = r
      BY <2>1, <2>2 DEF QueueInv, QueueExact, TypeOK
    <2>7. \A r \in Runs : runState'[r] \in {"queued", "recorded"} => outcome'[r] \in Outcomes
      BY <2>1 DEF QueueInv, TypeOK
    <2> QED
      BY <2>4, <2>5, <2>6, <2>7 DEF QueueInv, QueueExact
  <1>4. ASSUME NEW q \in Runs,
               \/ BeginRun(q) \/ SettleResult(q) \/ LeakResult(q) \/ RetireResult(q)
               \/ EndRun(q) /\ ~(Len(results) < ResultsCap)
        PROVE  QueueInv'
    <2>1. /\ runState[q] # "queued" /\ UNCHANGED results
          /\ \E s \in {"running", "dropped", "settled", "leaked", "done"} :
               runState' = [runState EXCEPT ![q] = s]
          /\ \A r \in Runs \ {q} : outcome'[r] = outcome[r]
      BY <1>4 DEF BeginRun, SettleResult, LeakResult, RetireResult, EndRun, TypeOK
    <2>2. \A r \in Runs : /\ runState'[r] = "queued" <=> runState[r] = "queued"
                          /\ runState'[r] = "recorded" => runState[r] = "recorded" /\ r # q
                          /\ runState'[r] = "queued" => r # q
      BY <2>1 DEF TypeOK
    <2>3. \A i \in DOMAIN results : results[i] \in Runs
      BY DEF TypeOK
    <2>4. results' = results
      BY <2>1
    <2>5. QueueExact'
      BY <2>2, <2>3, <2>4 DEF QueueInv, QueueExact
    <2>6. \A r \in Runs : runState'[r] \in {"queued", "recorded"} => outcome'[r] \in Outcomes
      BY <2>1, <2>2 DEF QueueInv
    <2> QED
      BY <2>5, <2>6 DEF QueueInv
  <1> QED
    BY <1>1, <1>2, <1>3, <1>4 DEF ResultMove

-----------------------------------------------------------------------------
(* The wait group. *)

LEMMA TrackedFinite == IsFiniteSet(Tracked)
PROOF BY RunsFacts, FS_Subset DEF Tracked

LEMMA WaitGroupStep ==
    ASSUME TypeOK, QueueInv, WaitGroupExact, PendingMove \/ ResultMove
    PROVE  WaitGroupExact'
PROOF
  <1>1. ASSUME Tracked' = Tracked, wg' = wg PROVE WaitGroupExact'
    BY <1>1 DEF WaitGroupExact
  <1>2. ASSUME NEW r, r \notin Tracked, Tracked' = Tracked \cup {r}, wg' = wg + 1
        PROVE  WaitGroupExact'
    BY <1>2, TrackedFinite, FS_AddElement DEF WaitGroupExact
  <1>3. ASSUME NEW r, r \in Tracked, Tracked' = Tracked \ {r}, wg' = wg - 1
        PROVE  WaitGroupExact'
    BY <1>3, TrackedFinite, FS_RemoveElement DEF WaitGroupExact
  <1>4. CASE PendingMove
    <2>1. Tracked' = Tracked
      BY <1>4 DEF PendingMove, Pending, Tracked
    <2> QED
      BY <1>1, <1>4, <2>1 DEF PendingMove
  <1>5. CASE TakeResult
    <2>1. Tracked' = Tracked
      BY <1>5, QueuedHead DEF TakeResult, Tracked, TypeOK
    <2> QED
      BY <1>1, <1>5, <2>1 DEF TakeResult
  <1>6. ASSUME NEW r \in Runs, BeginRun(r) PROVE WaitGroupExact'
    <2>1. r \notin Tracked /\ Tracked' = Tracked \cup {r}
      BY <1>6 DEF BeginRun, Tracked, TypeOK
    <2> QED
      BY <1>2, <1>6, <2>1 DEF BeginRun, WgAdd
  <1>7. ASSUME NEW r \in Runs, EndRun(r) PROVE WaitGroupExact'
    <2>1. CASE Len(results) < ResultsCap
      <3>1. Tracked' = Tracked
        BY <1>7, <2>1 DEF EndRun, Tracked, TypeOK
      <3> QED
        BY <1>1, <1>7, <2>1, <3>1 DEF EndRun
    <2>2. CASE ~(Len(results) < ResultsCap)
      <3>1. r \in Tracked /\ Tracked' = Tracked \ {r}
        BY <1>7, <2>2 DEF EndRun, Tracked, TypeOK
      <3> QED
        BY <1>3, <1>7, <2>2, <3>1 DEF EndRun, WgDone
    <2> QED
      BY <2>1, <2>2
  <1>8. ASSUME NEW r \in Runs, SettleResult(r) \/ LeakResult(r) PROVE WaitGroupExact'
    <2>1. Tracked' = Tracked
      BY <1>8 DEF SettleResult, LeakResult, Tracked, TypeOK
    <2> QED
      BY <1>1, <1>8, <2>1 DEF SettleResult, LeakResult
  <1>9. ASSUME NEW r \in Runs, RetireResult(r) PROVE WaitGroupExact'
    <2>1. r \in Tracked /\ Tracked' = Tracked \ {r}
      BY <1>9 DEF RetireResult, Tracked, TypeOK
    <2> QED
      BY <1>3, <1>9, <2>1 DEF RetireResult, WgDone
  <1> QED
    BY <1>4, <1>5, <1>6, <1>7, <1>8, <1>9 DEF ResultMove

\* The inductive invariant of everything that concerns the end of runs.
RunInv == TypeOK /\ Unused /\ QueueInv /\ WaitGroupExact

\* Types, fresh run numbers, the channel and the wait group hold one another up.
THEOREM RunInvariant == Spec => []RunInv
PROOF
  <1>1. Init => RunInv
    <2> SUFFICES ASSUME Init PROVE RunInv
      OBVIOUS
    <2> USE DEF Init
    <2>1. TypeOK
      <3>1. launched \in 0..MaxRuns /\ wg \in Int
        BY BoundsAssumption
      <3>2. results \in Seq(Runs)
        OBVIOUS
      <3>3. updated \in BOOLEAN /\ timedOut \in BOOLEAN /\ crashed \in BOOLEAN
        OBVIOUS
      <3> QED
        BY <3>1, <3>2, <3>3 DEF TypeOK, RunStates
    <2>2. Unused
      BY DEF Unused
    <2>3. QueueInv
      BY DEF QueueInv, QueueExact
    <2>4. Tracked = {}
      BY DEF Tracked
    <2>5. WaitGroupExact
      BY <2>4, RunsFacts DEF WaitGroupExact
    <2> QED
      BY <2>1, <2>2, <2>3, <2>5 DEF RunInv
  <1>2. RunInv /\ [Next]_vars => RunInv'
    BY TypeStep, StepCases, QueueStep, WaitGroupStep DEF RunInv
  <1> QED
    BY <1>1, <1>2, PTL DEF Spec

\* Every variable keeps its type, whatever the callers do.
THEOREM TypeCorrect == Spec => []TypeOK
PROOF
  <1>1. RunInv => TypeOK
    BY DEF RunInv
  <1> QED
    BY <1>1, RunInvariant, PTL

\* m.wg counts the runs under way exactly: it is never negative, and wg.Wait
\* returns only when no run is inside Job.Run and no result is on its way.
THEOREM WaitGroupCorrect == Spec => []WaitGroupExact
PROOF
  <1>1. RunInv => WaitGroupExact
    BY DEF RunInv
  <1> QED
    BY <1>1, RunInvariant, PTL

\* The results channel never holds a result twice, nor one that is not due.
THEOREM QueueCorrect == Spec => []QueueExact
PROOF
  <1>1. RunInv => QueueExact
    BY DEF RunInv, QueueInv
  <1> QED
    BY <1>1, RunInvariant, PTL

-----------------------------------------------------------------------------
(* Shutdown. *)

LEMMA ShutdownCases ==
    ASSUME [Next]_vars
    PROVE  \/ UNCHANGED shutVars
           \/ \E r \in Runs : SendOnClosed(r)
           \/ ShuttingDown
PROOF
  <1>1. Operation => UNCHANGED shutVars
    BY DEF Operation, SetupJob, StartJob, StartPeriodic, StartNow, StartLater,
           StartAborted, StopRead, ResumeRead, RescheduleRead, Read, PauseJob,
           TriggerJobNow, DeleteJob, StopCommit, ResumeCommit, RescheduleCommit,
           RescheduleAborted, workVars
  <1>2. Machine => UNCHANGED shutVars \/ \E r \in Runs : SendOnClosed(r)
    BY DEF Machine, CronFire, RegisterTimer, TimerFire, TimerCallback, SkipRun,
           BeginRun, EndRun, SettleResult, LeakResult, RetireResult, TakeResult,
           TakeUpdate, workVars
  <1> QED
    BY <1>1, <1>2 DEF Next, Terminated, vars, workVars

\* After the flag is set nothing enters the set of runs that m.wg tracks.
LEMMA NothingBegins ==
    ASSUME TypeOK, QueueInv, sd # "up", PendingMove \/ ResultMove
    PROVE  Begun' = Begun /\ Tracked' \subseteq Tracked
PROOF
  <1>1. CASE PendingMove
    BY <1>1 DEF PendingMove, Pending, Begun, Tracked
  <1>2. CASE TakeResult
    BY <1>2, QueuedHead DEF TakeResult, Begun, Tracked, TypeOK
  <1>3. ASSUME NEW r \in Runs,
               BeginRun(r) \/ EndRun(r) \/ SettleResult(r) \/ LeakResult(r) \/ RetireResult(r)
        PROVE  Begun' = Begun /\ Tracked' \subseteq Tracked
    BY <1>3 DEF BeginRun, MayRun, EndRun, SettleResult, LeakResult, RetireResult,
                Begun, Tracked, TypeOK
  <1> QED
    BY <1>1, <1>2, <1>3 DEF ResultMove

\* No run begins once Shutdown has set its flag: the drain only shrinks.
THEOREM NothingBeginsInShutdown == Spec => NoRunAfterShutdown
PROOF
  <1>1. RunInv /\ [Next]_vars => [sd # "up" => Begun' = Begun]_vars
    BY StepCases, NothingBegins DEF RunInv
  <1> QED
    BY <1>1, RunInvariant, PTL DEF Spec, NoRunAfterShutdown

\* Without a timeout the channel is closed on an empty set of tracked runs, and
\* the set stays empty.
DrainInv ==
    /\ sd \in {"closing", "stopped"} /\ ~timedOut => Tracked = {}
    /\ CloseIsSafe

LEMMA DrainStep == RunInv /\ DrainInv /\ [Next]_vars => DrainInv'
PROOF
  <1> SUFFICES ASSUME RunInv, DrainInv, [Next]_vars PROVE DrainInv'
    OBVIOUS
  <1>1. sd # "up" => Tracked' \subseteq Tracked
    BY StepCases, NothingBegins DEF RunInv
  <1>2. CASE UNCHANGED shutVars
    BY <1>1, <1>2 DEF DrainInv, CloseIsSafe, shutVars
  <1>3. ASSUME NEW r \in Runs, SendOnClosed(r) PROVE DrainInv'
    <2>1. r \in Tracked /\ sd = "closing" /\ UNCHANGED <<sd, timedOut>>
      BY <1>3 DEF SendOnClosed, Tracked
    <2> QED
      BY <1>1, <2>1 DEF DrainInv, CloseIsSafe
  <1>4. CASE BeginShutdown
    BY <1>4 DEF BeginShutdown, DrainInv, CloseIsSafe
  <1>5. CASE DrainDone
    <2>1. Tracked = {}
      BY <1>5, TrackedFinite, FS_EmptySet DEF DrainDone, AllDone, RunInv, WaitGroupExact
    <2> QED
      BY <1>1, <1>5, <2>1 DEF DrainDone, DrainInv, CloseIsSafe
  <1>6. CASE DrainTimeout
    BY <1>6 DEF DrainTimeout, DrainInv, CloseIsSafe
  <1>7. CASE CloseStore
    BY <1>1, <1>7 DEF CloseStore, DrainInv, CloseIsSafe
  <1> QED
    BY <1>2, <1>3, <1>4, <1>5, <1>6, <1>7, ShutdownCases DEF ShuttingDown

\* What a drain without a timeout has achieved stays so, and nobody panics.
THEOREM DrainInvariant == Spec => []DrainInv
PROOF
  <1>1. Init => DrainInv
    BY DEF Init, DrainInv, CloseIsSafe
  <1> QED
    BY <1>1, DrainStep, RunInvariant, PTL DEF Spec

\* No send on the closed channel, and so no panic, unless the timeout passed.
THEOREM CloseCorrect == Spec => []CloseIsSafe
PROOF
  <1>1. DrainInv => CloseIsSafe
    BY DEF DrainInv
  <1> QED
    BY <1>1, DrainInvariant, PTL

\* A shutdown that did not time out leaves no run and no result behind.
THEOREM GracefulCorrect == Spec => []GracefulLosesNothing
PROOF
  <1>1. DrainInv => GracefulLosesNothing
    BY DEF DrainInv, GracefulLosesNothing
  <1> QED
    BY <1>1, DrainInvariant, PTL

-----------------------------------------------------------------------------
(* The manager implements RunLedger. *)

\* Only BeginRun makes an entry in the ledger, only a retired or dropped run
\* closes one; every other move of a run is a stutter.
LEMMA LedgerMoves ==
    ASSUME TypeOK, QueueInv, PendingMove \/ ResultMove
    PROVE  \/ UNCHANGED <<Tracked, AccountedFor>>
           \/ /\ sd = "up" /\ AccountedFor' = AccountedFor
              /\ \E r \in Runs \ (Tracked \cup AccountedFor) : Tracked' = Tracked \cup {r}
           \/ \E r \in Tracked : /\ Tracked' = Tracked \ {r}
                                 /\ AccountedFor' = AccountedFor \cup {r}
PROOF
  <1> USE DEF TypeOK, Tracked, AccountedFor
  <1>1. CASE PendingMove
    BY <1>1 DEF PendingMove, Pending
  <1>2. CASE TakeResult
    BY <1>2, QueuedHead DEF TakeResult
  <1>3. ASSUME NEW r \in Runs, BeginRun(r)
        PROVE  /\ sd = "up" /\ AccountedFor' = AccountedFor
               /\ r \notin Tracked \cup AccountedFor /\ Tracked' = Tracked \cup {r}
    BY <1>3 DEF BeginRun, MayRun
  <1>4. ASSUME NEW r \in Runs, EndRun(r)
        PROVE  \/ UNCHANGED <<Tracked, AccountedFor>>
               \/ /\ r \in Tracked /\ Tracked' = Tracked \ {r}
                  /\ AccountedFor' = AccountedFor \cup {r}
    BY <1>4 DEF EndRun
  <1>5. ASSUME NEW r \in Runs, SettleResult(r) \/ LeakResult(r)
        PROVE  UNCHANGED <<Tracked, AccountedFor>>
    BY <1>5 DEF SettleResult, LeakResult
  <1>6. ASSUME NEW r \in Runs, RetireResult(r)
        PROVE  /\ r \in Tracked /\ Tracked' = Tracked \ {r}
               /\ AccountedFor' = AccountedFor \cup {r}
    BY <1>6 DEF RetireResult
  <1> QED
    BY <1>1, <1>2, <1>3, <1>4, <1>5, <1>6 DEF ResultMove

LEMMA LedgerStep ==
    ASSUME RunInv, DrainInv, [Next]_vars
    PROVE  [Ledger!Next]_(Ledger!vars)
PROOF
  <1> USE DEF Ledger!vars
  <1>1. CASE UNCHANGED vars
    BY <1>1 DEF vars, workVars, shutVars, Tracked, AccountedFor
  <1>2. ASSUME ~Halted, UNCHANGED shutVars PROVE [Ledger!Next]_(Ledger!vars)
    <2>1. \/ UNCHANGED <<Tracked, AccountedFor>>
          \/ /\ sd = "up" /\ AccountedFor' = AccountedFor
             /\ \E r \in Runs \ (Tracked \cup AccountedFor) : Tracked' = Tracked \cup {r}
          \/ \E r \in Tracked : /\ Tracked' = Tracked \ {r}
                                /\ AccountedFor' = AccountedFor \cup {r}
      BY StepCases, LedgerMoves DEF RunInv
    <2>2. UNCHANGED <<sd, timedOut, crashed>> /\ ~crashed /\ sd # "stopped"
      BY <1>2 DEF shutVars, Halted
    <2>3. Tracked \subseteq Runs
      BY DEF Tracked
    <2>4. CASE UNCHANGED <<Tracked, AccountedFor>>
      BY <2>2, <2>4
    <2>5. ASSUME sd = "up", AccountedFor' = AccountedFor,
                 NEW r \in Runs \ (Tracked \cup AccountedFor),
                 Tracked' = Tracked \cup {r}
          PROVE  Ledger!Next
      BY <2>2, <2>5 DEF Ledger!Next, Ledger!Begin
    <2>6. ASSUME NEW r \in Tracked, Tracked' = Tracked \ {r},
                 AccountedFor' = AccountedFor \cup {r}
          PROVE  Ledger!Next
      BY <2>2, <2>3, <2>6 DEF Ledger!Next, Ledger!Finish
    <2> QED
      BY <2>1, <2>4, <2>5, <2>6
  <1>3. ASSUME ~Halted, NEW r \in Runs, SendOnClosed(r) PROVE Ledger!Next
    <2>1. r \in Tracked /\ UNCHANGED <<Tracked, AccountedFor>>
      BY <1>3 DEF SendOnClosed, Tracked, AccountedFor
    <2> QED
      BY <1>3, <2>1 DEF SendOnClosed, Halted, DrainInv, Ledger!Next, Ledger!Panic
  <1>4. ASSUME ~Halted, ShuttingDown PROVE Ledger!Next
    <2>1. UNCHANGED <<Tracked, AccountedFor>>
      BY <1>4 DEF ShuttingDown, BeginShutdown, DrainDone, DrainTimeout, CloseStore,
                  Tracked, AccountedFor
    <2>2. CASE BeginShutdown
      BY <1>4, <2>1, <2>2 DEF BeginShutdown, Halted, Ledger!Next, Ledger!Drain
    <2>3. CASE DrainDone
      <3>1. Tracked = {}
        BY <2>3, TrackedFinite, FS_EmptySet DEF DrainDone, AllDone, RunInv, WaitGroupExact
      <3> QED
        BY <1>4, <2>1, <2>3, <3>1 DEF DrainDone, Halted, Ledger!Next, Ledger!Close
    <2>4. CASE DrainTimeout
      BY <1>4, <2>1, <2>4 DEF DrainTimeout, Halted, Ledger!Next, Ledger!Close
    <2>5. CASE CloseStore
      BY <1>4, <2>1, <2>5 DEF CloseStore, Halted, DrainInv, RunInv, TypeOK,
                              Ledger!Next, Ledger!Stop
    <2> QED
      BY <1>4, <2>2, <2>3, <2>4, <2>5 DEF ShuttingDown
  <1> QED
    BY <1>1, <1>2, <1>3, <1>4, ShutdownCases DEF Next, Terminated

\* Whatever callers, jobs and store do, the manager accounts for its executions
\* as RunLedger says: wg.Add only before Shutdown, one wg.Done for each, and the
\* channel closed with none outstanding or after the timeout.
THEOREM ManagerKeepsLedger == Spec => LedgerSpec
PROOF
  <1>1. Init => Ledger!Init
    BY DEF Init, Ledger!Init, Tracked, AccountedFor
  <1>2. RunInv /\ DrainInv /\ [Next]_vars => [Ledger!Next]_(Ledger!vars)
    BY LedgerStep
  <1> QED
    BY <1>1, <1>2, RunInvariant, DrainInvariant, PTL DEF Spec, LedgerSpec, Ledger!Spec

-----------------------------------------------------------------------------
(* Periodic jobs and the cron library. *)

\* Between the two actions of a handler its job stays loaded, and what the
\* handler concluded from the row stays true of a periodic job, because the
\* results processor writes no status of such a job.
HolderInv ==
    mu # Free =>
        /\ mu.job \in jobs
        /\ mu.op = "resume" /\ mu.job \in Periodic => status[mu.job] = "paused"
        /\ mu.op = "reschedule" => mu.job \notin Periodic

\* MemoryBacked and HolderInv are what makes the other two inductive: StartJob
\* and ResumeJob add an entry and count on the status they write being stored.
CronInv == CronEntryKnown /\ CronMatchesStatus /\ MemoryBacked /\ HolderInv

\* A job whose entry is removed has no live entry left.
LEMMA RemovalIsComplete ==
    ASSUME TypeOK, CronEntryKnown, NEW j \in Jobs
    PROVE  /\ WithoutEntry(j)[j] = {}
           /\ \A k \in Jobs \ {j} : WithoutEntry(j)[k] = cronLive[k]
PROOF BY DEF WithoutEntry, CronEntryKnown, TypeOK

LEMMA StatusWritten ==
    ASSUME TypeOK, MemoryBacked, NEW j \in jobs, NEW s \in Statuses
    PROVE  /\ WithStatus(j, s)[j] = s
           /\ \A k \in Jobs \ {j} : WithStatus(j, s)[k] = status[k]
           /\ s # "absent"
PROOF BY DEF WithStatus, TypeOK, MemoryBacked, Statuses

\* A step that leaves cron, the memory and the lock alone, and of the statuses
\* writes none or one of a one-time job that has a row.
LEMMA CronUntouched ==
    ASSUME TypeOK, CronInv, UNCHANGED <<jobs, cronVars>>, mu' = mu \/ mu' = Free,
           \/ UNCHANGED status
           \/ \E j \in Jobs \ Periodic, s \in Statuses :
                status' = WithStatus(j, s) \/ status' = [status EXCEPT ![j] = s]
    PROVE  CronInv'
PROOF
  <1>1. \A j \in Periodic \cap Jobs : status'[j] = status[j]
    BY DEF WithStatus, TypeOK
  <1>2. \A j \in jobs : status'[j] # "absent"
    BY DEF WithStatus, TypeOK, CronInv, MemoryBacked, Statuses
  <1>3. CronEntryKnown' /\ CronMatchesStatus'
    BY <1>1 DEF CronInv, CronEntryKnown, CronMatchesStatus, cronVars, TypeOK
  <1>4. HolderInv'
    BY <1>1, HolderType DEF CronInv, HolderInv
  <1> QED
    BY <1>2, <1>3, <1>4 DEF CronInv, MemoryBacked

\* A step that only sets the row of a loaded job to running.
LEMMA RunningWritten ==
    ASSUME TypeOK, CronInv, UNCHANGED <<jobs, cronVars>>, mu' = Free,
           NEW j \in jobs, status' = WithStatus(j, "running")
    PROVE  CronInv'
PROOF
  <1>1. j \in Jobs /\ "running" \in Statuses
    BY DEF TypeOK, Statuses
  <1>2. status'[j] = "running" /\ \A k \in Jobs \ {j} : status'[k] = status[k]
    BY <1>1, StatusWritten DEF CronInv
  <1>3. CronEntryKnown' /\ CronMatchesStatus'
    BY <1>1, <1>2 DEF CronInv, CronEntryKnown, CronMatchesStatus, cronVars
  <1>4. MemoryBacked'
    BY <1>1, <1>2 DEF CronInv, MemoryBacked, TypeOK
  <1> QED
    BY <1>3, <1>4 DEF CronInv, HolderInv

\* A new entry for a loaded periodic job that has none alive.
LEMMA EntryAdded ==
    ASSUME TypeOK, CronInv, NEW j \in jobs, j \in Periodic, cronLive[j] = {},
           AddFunc(j), status' = WithStatus(j, "running"),
           UNCHANGED jobs, mu' = Free
    PROVE  CronInv'
PROOF
  <1>1. j \in Jobs /\ "running" \in Statuses
    BY DEF TypeOK, Statuses
  <1>2. status'[j] = "running" /\ \A k \in Jobs \ {j} : status'[k] = status[k]
    BY <1>1, StatusWritten DEF CronInv
  <1>3. PICK e : /\ cronLive' = [cronLive EXCEPT ![j] = @ \cup {e}]
                 /\ cronEntries' = [cronEntries EXCEPT ![j] = e]
    BY DEF AddFunc
  <1>4. /\ cronLive'[j] = {e} /\ cronEntries'[j] = e
        /\ \A k \in Jobs \ {j} : cronLive'[k] = cronLive[k] /\ cronEntries'[k] = cronEntries[k]
    BY <1>1, <1>3 DEF TypeOK
  <1>5. CronEntryKnown'
    BY <1>1, <1>4 DEF CronInv, CronEntryKnown
  <1>6. CronMatchesStatus'
    BY <1>1, <1>2, <1>4 DEF CronInv, CronMatchesStatus
  <1>7. MemoryBacked'
    BY <1>1, <1>2 DEF CronInv, MemoryBacked, TypeOK
  <1> QED
    BY <1>5, <1>6, <1>7 DEF CronInv, HolderInv

\* All the entries of j are gone, and the job may be too.
LEMMA EntryRemoved ==
    ASSUME TypeOK, CronInv, NEW j \in Jobs, cronLive' = WithoutEntry(j),
           \A k \in Jobs \ {j} : /\ cronEntries'[k] = cronEntries[k]
                                 /\ status'[k] = status[k]
                                 /\ k \in jobs => k \in jobs',
           jobs' \subseteq jobs, j \in jobs' => status'[j] # "absent", mu' = Free
    PROVE  CronInv'
PROOF
  <1>1. cronLive'[j] = {} /\ \A k \in Jobs \ {j} : cronLive'[k] = cronLive[k]
    BY RemovalIsComplete DEF CronInv
  <1>2. CronEntryKnown'
    BY <1>1 DEF CronInv, CronEntryKnown
  <1>3. CronMatchesStatus'
    BY <1>1 DEF CronInv, CronMatchesStatus
  <1>4. MemoryBacked'
    BY DEF CronInv, MemoryBacked, TypeOK
  <1> QED
    BY <1>2, <1>3, <1>4 DEF CronInv, HolderInv

LEMMA CronStep == RunInv /\ CronInv /\ [Next]_vars => CronInv'
PROOF
  <1> SUFFICES ASSUME RunInv, CronInv, [Next]_vars PROVE CronInv'
    OBVIOUS
  <1> USE DEF coreVars, workVars, storeVars, cronVars
  <1>0. TypeOK
    BY DEF RunInv
  <1>1. ASSUME NEW j \in Jobs, NEW sched, SetupJob(j, sched) PROVE CronInv'
    <2>1. cronLive[j] = {}
      BY <1>1 DEF SetupJob, CronInv, CronEntryKnown
    <2>2. /\ mu' = Free /\ jobs' = jobs \cup {j} /\ UNCHANGED cronVars
          /\ status'[j] = "created" /\ \A k \in Jobs \ {j} : status'[k] = status[k]
      BY <1>0, <1>1 DEF SetupJob, TypeOK
    <2>3. CronEntryKnown' /\ CronMatchesStatus'
      BY <2>1, <2>2 DEF CronInv, CronEntryKnown, CronMatchesStatus
    <2>4. MemoryBacked'
      BY <1>0, <2>2 DEF CronInv, MemoryBacked, TypeOK
    <2> QED
      BY <2>2, <2>3, <2>4 DEF CronInv, HolderInv
  <1>2. ASSUME NEW j \in Jobs, StartPeriodic(j) PROVE CronInv'
    <2>1. j \in jobs /\ mu' = Free /\ status' = WithStatus(j, "running") /\ UNCHANGED jobs
      BY <1>2 DEF StartPeriodic, MayStart
    <2>2. CASE cronEntries[j] # NoEntry /\ UNCHANGED cronVars
      BY <1>0, <2>1, <2>2, RunningWritten
    <2>3. CASE cronEntries[j] = NoEntry /\ AddFunc(j)
      <3>1. cronLive[j] = {}
        BY <1>0, <2>3, EntriesAssumption DEF CronInv, CronEntryKnown, TypeOK
      <3> QED
        BY <1>0, <1>2, <2>1, <2>3, <3>1, EntryAdded DEF StartPeriodic
    <2> QED
      BY <1>2, <2>2, <2>3 DEF StartPeriodic
  <1>3. ASSUME NEW j \in Jobs, StartNow(j) \/ StartLater(j) PROVE CronInv'
    BY <1>0, <1>3, CronUntouched DEF StartNow, StartLater, Statuses
  <1>4. ASSUME NEW j \in Jobs, StartAborted(j) PROVE CronInv'
    BY <1>0, <1>4, RunningWritten DEF StartAborted, MayStart
  <1>5. ASSUME NEW j \in Jobs, StopRead(j) \/ ResumeRead(j) \/ RescheduleRead(j)
        PROVE  CronInv'
    <2>1. UNCHANGED <<jobs, status, cronVars>> /\ j \in jobs
      BY <1>5 DEF StopRead, ResumeRead, RescheduleRead, Read
    <2>2. HolderInv'
      BY <1>5, <2>1 DEF StopRead, ResumeRead, RescheduleRead, Read, HolderInv
    <2> QED
      BY <2>1, <2>2 DEF CronInv, CronEntryKnown, CronMatchesStatus, MemoryBacked
  <1>6. ASSUME StopCommit PROVE CronInv'
    <2> DEFINE j == mu.job
    <2>1. j \in Jobs /\ j \in jobs /\ mu.seen \in Statuses
      BY <1>0, <1>6, HolderType DEF StopCommit, CronInv, HolderInv
    <2>2. /\ cronLive' = WithoutEntry(j) /\ jobs' = jobs /\ mu' = Free
          /\ \A k \in Jobs \ {j} : cronEntries'[k] = cronEntries[k]
      BY <1>0, <1>6 DEF StopCommit, TypeOK
    <2>3. status' = status \/ status' = WithStatus(j, StopStatus(j, mu.seen))
      BY <1>6 DEF StopCommit
    <2>4. StopStatus(j, mu.seen) \in Statuses
      BY DEF StopStatus, Statuses
    <2>5. status'[j] # "absent" /\ \A k \in Jobs \ {j} : status'[k] = status[k]
      BY <1>0, <2>1, <2>3, <2>4, StatusWritten DEF CronInv, MemoryBacked
    <2> QED
      BY <1>0, <2>1, <2>2, <2>5, EntryRemoved
  <1>7. ASSUME NEW j \in Jobs, PauseJob(j) PROVE CronInv'
    <2>1. j \in jobs /\ jobs' = jobs /\ mu' = Free
      BY <1>7 DEF PauseJob
    <2>2. cronLive' = WithoutEntry(j) /\ UNCHANGED cronEntries
      BY <1>7 DEF PauseJob
    <2>3. status' = status \/ status' = WithStatus(j, "paused")
      BY <1>7 DEF PauseJob
    <2>4. status'[j] # "absent" /\ \A k \in Jobs \ {j} : status'[k] = status[k]
      BY <1>0, <2>1, <2>3, StatusWritten DEF CronInv, MemoryBacked, Statuses
    <2> QED
      BY <1>0, <2>1, <2>2, <2>4, EntryRemoved
  <1>8. ASSUME ResumeCommit PROVE CronInv'
    <2> DEFINE j == mu.job
    <2>1. j \in jobs /\ mu' = Free /\ UNCHANGED jobs
      BY <1>8 DEF ResumeCommit, CronInv, HolderInv
    <2>2. CASE UNCHANGED <<status, cronVars>>
      BY <1>0, <2>1, <2>2, CronUntouched
    <2>3. CASE status' = WithStatus(j, "running") /\ UNCHANGED cronVars
      BY <1>0, <2>1, <2>3, RunningWritten
    <2>4. CASE j \in Periodic /\ AddFunc(j) /\ status' = WithStatus(j, "running")
      <3>1. cronLive[j] = {}
        BY <1>0, <1>8, <2>1, <2>4 DEF ResumeCommit, CronInv, HolderInv, CronMatchesStatus, TypeOK
      <3> QED
        BY <1>0, <2>1, <2>4, <3>1, EntryAdded
    <2> QED
      BY <1>8, <2>2, <2>3, <2>4 DEF ResumeCommit
  <1>9. ASSUME RescheduleCommit \/ RescheduleAborted PROVE CronInv'
    <2>1. mu.job \in Jobs \ Periodic /\ mu.seen \in Statuses
      BY <1>0, <1>9, HolderType DEF RescheduleCommit, RescheduleAborted, CronInv, HolderInv
    <2>2. /\ UNCHANGED <<jobs, cronVars>> /\ mu' = Free
          /\ status' = status \/ status' = [status EXCEPT ![mu.job] = mu.seen]
      BY <1>9 DEF RescheduleCommit, RescheduleAborted
    <2> QED
      BY <1>0, <2>1, <2>2, CronUntouched
  <1>10. ASSUME NEW j \in Jobs, DeleteJob(j) PROVE CronInv'
    <2>1. /\ cronLive' = WithoutEntry(j) /\ jobs' = jobs \ {j} /\ mu' = Free
          /\ \A k \in Jobs \ {j} : cronEntries'[k] = cronEntries[k]
      BY <1>0, <1>10 DEF DeleteJob, Unloaded, TypeOK
    <2>2. \A k \in Jobs \ {j} : status'[k] = status[k]
      BY <1>0, <1>10 DEF DeleteJob, TypeOK
    <2> QED
      BY <1>0, <2>1, <2>2, EntryRemoved
  <1>11. ASSUME NEW r \in Runs, SettleResult(r) PROVE CronInv'
    <2>1. outcome[r] \in Statuses
      BY <1>11 DEF SettleResult, RunInv, QueueInv, Outcomes, Statuses
    <2>2. \/ status' = status
          \/ runJob[r] \in Jobs \ Periodic /\ status' = WithStatus(runJob[r], outcome[r])
      BY <1>0, <1>11 DEF SettleResult, WritesStatus, WithStatus, TypeOK
    <2> QED
      BY <1>0, <1>11, <2>1, <2>2, CronUntouched DEF SettleResult
  <1>12. ASSUME UNCHANGED <<jobs, mu, status, cronVars>> PROVE CronInv'
    BY <1>0, <1>12, CronUntouched
  <1>13. ASSUME NEW j \in Jobs, TriggerJobNow(j) \/ CronFire(j) PROVE CronInv'
    BY <1>12, <1>13 DEF TriggerJobNow, CronFire
  <1>14. ASSUME NEW r \in Runs,
                \/ RegisterTimer(r) \/ TimerFire(r) \/ TimerCallback(r) \/ SkipRun(r)
                \/ BeginRun(r) \/ EndRun(r) \/ SendOnClosed(r) \/ LeakResult(r)
                \/ RetireResult(r)
         PROVE  CronInv'
    BY <1>12, <1>14 DEF RegisterTimer, TimerFire, TimerCallback, SkipRun, BeginRun,
                        EndRun, SendOnClosed, LeakResult, RetireResult
  <1>15. ASSUME TakeResult \/ TakeUpdate \/ ShuttingDown \/ UNCHANGED vars PROVE CronInv'
    BY <1>12, <1>15 DEF TakeResult, TakeUpdate, ShuttingDown, BeginShutdown, DrainDone,
                        DrainTimeout, CloseStore, vars
  <1> QED
    BY <1>1, <1>2, <1>3, <1>4, <1>5, <1>6, <1>7, <1>8, <1>9, <1>10, <1>11, <1>13,
       <1>14, <1>15 DEF Next, Operation, Machine, Terminated, StartJob

\* Cron's entries, the statuses, the memory and the lock holder fit together.
THEOREM CronInvariant == Spec => []CronInv
PROOF
  <1>1. Init => CronInv
    BY DEF Init, CronInv, CronEntryKnown, CronMatchesStatus, MemoryBacked, HolderInv
  <1> QED
    BY <1>1, CronStep, RunInvariant, PTL DEF Spec

\* A live entry is the one StopJob, PauseJob and DeleteJob would remove.
THEOREM CronEntryCorrect == Spec => []CronEntryKnown
PROOF
  <1>1. CronInv => CronEntryKnown
    BY DEF CronInv
  <1> QED
    BY <1>1, CronInvariant, PTL

\* What cron fires is shown as running.
THEOREM CronStatusCorrect == Spec => []CronMatchesStatus
PROOF
  <1>1. CronInv => CronMatchesStatus
    BY DEF CronInv
  <1> QED
    BY <1>1, CronInvariant, PTL

\* A job in memory has a row.
THEOREM MemoryCorrect == Spec => []MemoryBacked
PROOF
  <1>1. CronInv => MemoryBacked
    BY DEF CronInv
  <1> QED
    BY <1>1, CronInvariant, PTL

-----------------------------------------------------------------------------
(* Cancel functions.                                                        *)

RunsHaveJobs == \A r \in Runs : runState[r] # "idle" => runJob[r] \in Jobs

\* BeginRun has noted every two runs of a job that are in flight together.
TogetherIsMet ==
    \A j \in Jobs : \A r, q \in InFlight(j) : r # q => r \in met

\* The claims hold each other up: a run keeps its cancel function until it is
\* cancelled, another run of its job takes the place or the processor empties it
\* for one; both were then in flight together.  What Shutdown finds in the table
\* it cancels.
HandleInv ==
    /\ RunsHaveJobs
    /\ HandleIsCurrent
    /\ TogetherIsMet
    /\ EscapeNeedsOverlap
    /\ ShutdownReaches

\* A run belongs to one job for its life, and nothing is struck from the history.
OwnersKept ==
    /\ met \subseteq met'
    /\ \A r \in Runs :
         /\ runState[r] # "idle" => runJob'[r] = runJob[r]
         /\ runState'[r] # "idle" => runState[r] # "idle" \/ runJob'[r] \in Jobs

\* No run gets into flight.
NoneJoins == \A j \in Jobs : InFlight(j)' \subseteq InFlight(j)

\* What a step that is no ResultMove does to the cancel functions: nothing, or
\* it calls and forgets that of one job, or Shutdown calls them all.
HandleMove ==
    \/ UNCHANGED cancelVars /\ (sd' = sd \/ sd # "up")
    \/ /\ UNCHANGED sd
       /\ \E j \in Jobs : /\ cancelled' = WithCancel({runningJobs[j]})
                          /\ runningJobs' = WithoutHandle(j)
    \/ /\ UNCHANGED runningJobs
       /\ cancelled' = WithCancel({runningJobs[j] : j \in Jobs})

LEMMA LaunchOwners ==
    ASSUME TypeOK, Unused, NEW j \in Jobs, NEW s, NEW o,
           NEW base, base = runState \/ base = WithTimerStopped(j),
           Launch(j, s, o, base)
    PROVE  OwnersKept
PROOF
  <1>1. launched + 1 \in Runs /\ launched \in Nat
    BY BoundsAssumption DEF TypeOK, Launch, Runs
  <1>2. runState[launched + 1] = "idle"
    BY <1>1 DEF Unused
  <1>3. /\ runJob' = [runJob EXCEPT ![launched + 1] = j]
        /\ runState' = [base EXCEPT ![launched + 1] = s]
        /\ UNCHANGED met
    BY DEF Launch
  <1>4. /\ base \in [Runs -> RunStates]
        /\ \A r \in Runs : base[r] # "idle" => runState[r] # "idle"
    BY DEF WithTimerStopped, TypeOK, RunStates
  <1> QED
    BY <1>1, <1>2, <1>3, <1>4 DEF OwnersKept, TypeOK

LEMMA HandleCases ==
    ASSUME TypeOK, Unused, QueueInv, [Next]_vars
    PROVE  OwnersKept /\ (HandleMove \/ ResultMove)
PROOF
  <1> USE DEF coreVars, workVars, storeVars, cronVars, cancelVars, timerVars,
              launchVars, queueVars, shutVars
  <1>1. ASSUME UNCHANGED <<cancelVars, sd>> PROVE HandleMove
    BY <1>1 DEF HandleMove
  <1>2. ASSUME UNCHANGED <<runState, runJob, met>> PROVE OwnersKept
    BY <1>2 DEF OwnersKept
  <1>3. ASSUME NEW j, runState' = WithTimerStopped(j), UNCHANGED <<runJob, met>>
        PROVE  OwnersKept
    BY <1>3 DEF OwnersKept, WithTimerStopped, TypeOK
  <1>4. ASSUME NEW r, NEW s, r \in Runs => runState[r] # "idle",
               runState' = [runState EXCEPT ![r] = s], UNCHANGED runJob,
               met \subseteq met'
        PROVE  OwnersKept
    BY <1>4 DEF OwnersKept, TypeOK
  <1>5. ASSUME NEW j \in Jobs, \/ \E sched \in {"none", "set"} : SetupJob(j, sched)
                               \/ StartPeriodic(j) \/ StartAborted(j)
                               \/ \E op \in {"stop", "resume", "reschedule"} : Read(op, j)
                               \/ PauseJob(j)
        PROVE  OwnersKept /\ HandleMove
    BY <1>1, <1>2, <1>5 DEF SetupJob, StartPeriodic, StartAborted, Read, PauseJob
  <1>6. ASSUME NEW j \in Jobs, StartNow(j) \/ TriggerJobNow(j) \/ CronFire(j)
        PROVE  OwnersKept /\ HandleMove
    BY <1>1, <1>6, LaunchOwners DEF StartNow, TriggerJobNow, CronFire
  <1>7. ASSUME NEW j \in Jobs, StartLater(j) PROVE OwnersKept /\ HandleMove
    BY <1>1, <1>7, LaunchOwners DEF StartLater
  <1>8. ASSUME StopCommit PROVE OwnersKept /\ HandleMove
    <2>1. runState' = WithTimerStopped(mu.job) \/ UNCHANGED runState
      BY <1>8 DEF StopCommit
    <2>2. /\ UNCHANGED <<runJob, met, sd>> /\ mu # Free
          /\ cancelled' = WithCancel({runningJobs[mu.job]})
          /\ runningJobs' = WithoutHandle(mu.job)
      BY <1>8 DEF StopCommit
    <2>3. OwnersKept
      BY <1>2, <1>3, <2>1, <2>2
    <2>4. HandleMove
      BY <2>2, HolderType DEF HandleMove
    <2> QED
      BY <2>3, <2>4
  <1>9. ASSUME ResumeCommit PROVE OwnersKept /\ HandleMove
    BY <1>1, <1>2, <1>9 DEF ResumeCommit
  <1>10. ASSUME RescheduleCommit PROVE OwnersKept /\ HandleMove
    BY <1>1, <1>10, LaunchOwners, HolderType DEF RescheduleCommit
  <1>11. ASSUME RescheduleAborted PROVE OwnersKept /\ HandleMove
    BY <1>1, <1>3, <1>11 DEF RescheduleAborted
  <1>12. ASSUME NEW j \in Jobs, DeleteJob(j) PROVE OwnersKept /\ HandleMove
    <2>1. OwnersKept
      BY <1>3, <1>12 DEF DeleteJob
    <2>2. HandleMove
      BY <1>12 DEF DeleteJob, HandleMove
    <2> QED
      BY <2>1, <2>2
  <1>13. ASSUME NEW r \in Runs, RegisterTimer(r) \/ SendOnClosed(r)
         PROVE  OwnersKept /\ HandleMove
    BY <1>1, <1>2, <1>13 DEF RegisterTimer, SendOnClosed
  <1>14. ASSUME NEW r \in Runs, TimerFire(r) \/ TimerCallback(r) \/ SkipRun(r)
         PROVE  OwnersKept /\ HandleMove
    BY <1>1, <1>4, <1>14 DEF TimerFire, TimerCallback, SkipRun
  <1>15. ASSUME NEW r \in Runs, BeginRun(r) \/ EndRun(r) \/ SettleResult(r)
                                \/ LeakResult(r) \/ RetireResult(r)
         PROVE  OwnersKept
    <2>1. runState[r] # "idle" /\ UNCHANGED runJob /\ met \subseteq met'
      BY <1>15 DEF BeginRun, EndRun, SettleResult, LeakResult, RetireResult
    <2>2. \E s : runState' = [runState EXCEPT ![r] = s]
      BY <1>15 DEF BeginRun, EndRun, SettleResult, LeakResult, RetireResult
    <2> QED
      BY <1>4, <2>1, <2>2
  <1>16. ASSUME TakeResult PROVE OwnersKept
    BY <1>4, <1>16, QueuedHead DEF TakeResult
  <1>17. ASSUME TakeUpdate \/ ShuttingDown \/ UNCHANGED vars
         PROVE  OwnersKept /\ HandleMove
    <2>1. OwnersKept
      BY <1>2, <1>17 DEF TakeUpdate, ShuttingDown, BeginShutdown, DrainDone,
                         DrainTimeout, CloseStore, vars
    <2>2. HandleMove
      BY <1>17 DEF TakeUpdate, ShuttingDown, BeginShutdown, DrainDone,
                   DrainTimeout, CloseStore, vars, HandleMove
    <2> QED
      BY <2>1, <2>2
  <1> QED
    BY <1>5, <1>6, <1>7, <1>8, <1>9, <1>10, <1>11, <1>12, <1>13, <1>14, <1>15, <1>16,
       <1>17
       DEF Next, Operation, Machine, Terminated, StartJob, StopRead, ResumeRead,
           RescheduleRead, ResultMove

\* While no run gets into flight nobody meets anybody.
LEMMA TogetherKept ==
    ASSUME TypeOK, TogetherIsMet, NoneJoins, met \subseteq met'
    PROVE  TogetherIsMet'
PROOF BY DEF TogetherIsMet, NoneJoins

LEMMA HandlesQuiet ==
    ASSUME TypeOK, HandleInv, OwnersKept, PendingMove, HandleMove
    PROVE  HandleInv'
PROOF
  <1>1. /\ \A r \in Runs : runState'[r] = "running" <=> runState[r] = "running"
        /\ \A r \in Runs : runState[r] \notin Pending => runState'[r] = runState[r]
        /\ \A r \in Runs : runState'[r] \notin Pending => runState'[r] = runState[r]
    BY DEF PendingMove, Pending
  <1>2. TogetherIsMet'
    <2>1. NoneJoins
      BY <1>1 DEF NoneJoins, InFlight, OwnersKept, Pending
    <2> QED
      BY <2>1, TogetherKept DEF HandleInv, OwnersKept
  <1>3. RunsHaveJobs'
    BY DEF HandleInv, RunsHaveJobs, OwnersKept
  <1>4. \A j \in Jobs : runningJobs'[j] # NoRun => runningJobs'[j] = runningJobs[j]
    BY DEF HandleMove, WithoutHandle, cancelVars, TypeOK
  <1>5. HandleIsCurrent'
    <2> SUFFICES ASSUME NEW j \in Jobs, runningJobs'[j] # NoRun
                 PROVE  /\ runJob'[runningJobs'[j]] = j
                        /\ runState'[runningJobs'[j]] \in
                             {"running", "queued", "recorded", "settled", "leaked", "dropped"}
      BY DEF HandleIsCurrent
    <2>1. runningJobs'[j] = runningJobs[j] /\ runningJobs[j] \in Runs
      BY <1>4 DEF TypeOK
    <2>2. /\ runJob[runningJobs[j]] = j
          /\ runState[runningJobs[j]] \in
               {"running", "queued", "recorded", "settled", "leaked", "dropped"}
      BY <2>1 DEF HandleInv, HandleIsCurrent
    <2> QED
      BY <1>1, <2>1, <2>2 DEF OwnersKept, Pending
  <1>6. cancelled \subseteq cancelled' /\ met \subseteq met'
    BY DEF HandleMove, WithCancel, cancelVars, OwnersKept
  <1>7. ASSUME NEW r \in Runs, runState[r] = "running", r \notin cancelled'
        PROVE  \/ runningJobs'[runJob[r]] = r /\ (sd # "up" \/ sd' = "up")
               \/ r \in met
    <2>1. runJob[r] \in Jobs /\ r \notin cancelled
      BY <1>6, <1>7 DEF HandleInv, RunsHaveJobs
    <2>2. CASE runningJobs[runJob[r]] # r
      BY <1>7, <2>1, <2>2 DEF HandleInv, EscapeNeedsOverlap
    <2>3. CASE runningJobs[runJob[r]] = r
      <3>1. CASE UNCHANGED cancelVars /\ (sd' = sd \/ sd # "up")
        BY <2>3, <3>1 DEF cancelVars
      <3>2. ASSUME UNCHANGED sd, NEW j \in Jobs,
                   cancelled' = WithCancel({runningJobs[j]}),
                   runningJobs' = WithoutHandle(j)
            PROVE  runningJobs'[runJob[r]] = r /\ (sd # "up" \/ sd' = "up")
        BY <1>7, <2>1, <2>3, <3>2 DEF WithCancel, WithoutHandle, TypeOK
      <3>3. CASE cancelled' = WithCancel({runningJobs[j] : j \in Jobs})
        BY <1>7, <2>1, <2>3, <3>3 DEF WithCancel
      <3> QED
        BY <3>1, <3>2, <3>3 DEF HandleMove
    <2> QED
      BY <2>2, <2>3
  <1>8. EscapeNeedsOverlap'
    BY <1>1, <1>6, <1>7 DEF EscapeNeedsOverlap, OwnersKept
  <1>9. ShutdownReaches'
    <2> SUFFICES ASSUME sd' # "up", NEW r \in Runs, runState'[r] = "running",
                        r \notin cancelled'
                 PROVE  r \in met
      BY <1>6 DEF ShutdownReaches
    <2>1. runState[r] = "running"
      BY <1>1
    <2> QED
      BY <1>6, <1>7, <2>1 DEF HandleInv, ShutdownReaches
  <1> QED
    BY <1>2, <1>3, <1>5, <1>8, <1>9 DEF HandleInv

\* A run goes on towards the end of its life and keeps its place in the table.
LEMMA HandlesProgress ==
    ASSUME TypeOK, HandleInv, NEW q \in Runs,
           runState[q] \in {"running", "queued", "recorded"},
           NEW s \in {"queued", "recorded", "settled", "leaked", "dropped"},
           runState' = [runState EXCEPT ![q] = s],
           UNCHANGED <<runningJobs, runJob, met, sd>>,
           \A r \in cancelled \ {q} : r \in cancelled'
    PROVE  HandleInv'
PROOF
  <1>1. TogetherIsMet'
    <2>1. NoneJoins
      BY DEF NoneJoins, InFlight, TypeOK
    <2> QED
      BY <2>1, TogetherKept DEF HandleInv
  <1>2. \A r \in Runs : runState'[r] = "running" => runState[r] = "running" /\ r # q
    BY DEF TypeOK
  <1>3. RunsHaveJobs'
    BY DEF HandleInv, RunsHaveJobs, TypeOK
  <1>4. HandleIsCurrent'
    BY DEF HandleInv, HandleIsCurrent, TypeOK
  <1>5. EscapeNeedsOverlap'
    BY <1>2 DEF HandleInv, EscapeNeedsOverlap
  <1>6. ShutdownReaches'
    BY <1>2 DEF HandleInv, ShutdownReaches
  <1> QED
    BY <1>1, <1>3, <1>4, <1>5, <1>6 DEF HandleInv

\* BeginRun meets every run of its job that is in flight.
LEMMA HandlesMeet ==
    ASSUME TypeOK, HandleInv, NEW q \in Runs, BeginRun(q)
    PROVE  /\ TogetherIsMet'
           /\ met \subseteq met'
           /\ InFlight(runJob[q]) \subseteq met'
PROOF
  <1> DEFINE O == InFlight(runJob[q])
  <1>1. /\ runState[q] = "spawned" /\ UNCHANGED runJob
        /\ runState' = [runState EXCEPT ![q] = "running"]
    BY DEF BeginRun
  <1>2. /\ O = {} => met' = met
        /\ O # {} => met' = met \cup O \cup {q}
    BY DEF BeginRun
  <1>3. \A j \in Jobs : InFlight(j)' \subseteq InFlight(j) \cup {q}
    BY <1>1 DEF InFlight, TypeOK
  <1>4. TogetherIsMet'
    <2> SUFFICES ASSUME NEW j \in Jobs, NEW r \in InFlight(j)', NEW p \in InFlight(j)',
                        r # p
                 PROVE  r \in met'
      BY DEF TogetherIsMet
    <2>1. r \in InFlight(j) \cup {q} /\ p \in InFlight(j) \cup {q}
      BY <1>3
    <2>2. CASE r # q /\ p # q
      BY <1>2, <2>1, <2>2 DEF HandleInv, TogetherIsMet
    <2>3. CASE r = q \/ p = q
      <3>1. runJob[q] = j
        BY <1>1, <2>3 DEF InFlight
      <3>2. \E x \in O : x = r \/ x = p
        BY <2>1, <2>3, <3>1
      <3> QED
        BY <1>2, <2>1, <3>1, <3>2
    <2> QED
      BY <2>2, <2>3
  <1> QED
    BY <1>2, <1>4

\* The cancel function that BeginRun replaces is that of a run it meets, or of one
\* that has left Job.Run.
LEMMA HandlesBegin ==
    ASSUME TypeOK, HandleInv, NEW q \in Runs, BeginRun(q)
    PROVE  HandleInv'
PROOF
  <1> DEFINE j == runJob[q]
  <1>1. /\ runState[q] = "spawned" /\ j \in Jobs /\ sd' = "up"
        /\ runningJobs' = [runningJobs EXCEPT ![j] = q]
        /\ runState' = [runState EXCEPT ![q] = "running"]
        /\ UNCHANGED <<runJob, cancelled>>
    BY DEF BeginRun, MayRun, shutVars, TypeOK
  <1>2. TogetherIsMet' /\ met \subseteq met' /\ InFlight(j) \subseteq met'
    BY HandlesMeet
  <1>3. RunsHaveJobs'
    BY <1>1 DEF HandleInv, RunsHaveJobs, TypeOK
  <1>4. HandleIsCurrent'
    BY <1>1 DEF HandleInv, HandleIsCurrent, TypeOK
  <1>5. EscapeNeedsOverlap'
    <2> SUFFICES ASSUME NEW r \in Runs, runState'[r] = "running",
                        runningJobs'[runJob[r]] # r, r \notin cancelled
                 PROVE  r \in met'
      BY <1>1 DEF EscapeNeedsOverlap
    <2>1. r # q /\ runState[r] = "running"
      BY <1>1 DEF TypeOK
    <2>2. CASE runJob[r] = j
      BY <1>2, <2>1, <2>2 DEF InFlight
    <2>3. CASE runJob[r] # j
      <3>1. runJob[r] \in Jobs
        BY <2>1 DEF HandleInv, RunsHaveJobs
      <3>2. runningJobs[runJob[r]] # r
        BY <1>1, <2>3, <3>1 DEF TypeOK
      <3> QED
        BY <1>2, <2>1, <3>2 DEF HandleInv, EscapeNeedsOverlap
    <2> QED
      BY <2>2, <2>3
  <1>6. ShutdownReaches'
    BY <1>1 DEF ShutdownReaches
  <1> QED
    BY <1>2, <1>3, <1>4, <1>5, <1>6 DEF HandleInv

\* The processor forgets the cancel function kept for the job of q: its own, or
\* that of a run that has been in flight with it.
LEMMA HandlesRetire ==
    ASSUME TypeOK, HandleInv, NEW q \in Runs, RetireResult(q)
    PROVE  HandleInv'
PROOF
  <1> DEFINE j == runJob[q]
  <1>1. /\ runState[q] = "settled" /\ sd' = sd
        /\ runningJobs' = WithoutHandle(j)
        /\ runState' = [runState EXCEPT ![q] = "done"]
        /\ UNCHANGED <<runJob, met, cancelled>>
    BY DEF RetireResult, launchVars, shutVars
  <1>2. TogetherIsMet'
    <2>1. NoneJoins
      BY <1>1 DEF NoneJoins, InFlight, TypeOK
    <2> QED
      BY <1>1, <2>1, TogetherKept DEF HandleInv
  <1>3. \A r \in Runs : runState'[r] = "running" => runState[r] = "running" /\ r # q
    BY <1>1 DEF TypeOK
  <1>4. RunsHaveJobs'
    BY <1>1 DEF HandleInv, RunsHaveJobs, TypeOK
  <1>5. HandleIsCurrent'
    <2> SUFFICES ASSUME NEW k \in Jobs, runningJobs'[k] # NoRun
                 PROVE  /\ runJob[runningJobs'[k]] = k
                        /\ runState'[runningJobs'[k]] \in
                             {"running", "queued", "recorded", "settled", "leaked", "dropped"}
      BY <1>1 DEF HandleIsCurrent
    <2>1. k # j /\ runningJobs'[k] = runningJobs[k]
      BY <1>1 DEF WithoutHandle, TypeOK
    <2>2. runJob[runningJobs[k]] = k /\ runningJobs[k] # q
      BY <2>1 DEF HandleInv, HandleIsCurrent
    <2> QED
      BY <1>1, <2>1, <2>2 DEF HandleInv, HandleIsCurrent, TypeOK
  <1>6. EscapeNeedsOverlap'
    <2> SUFFICES ASSUME NEW r \in Runs, runState'[r] = "running",
                        runningJobs'[runJob[r]] # r, r \notin cancelled
                 PROVE  r \in met
      BY <1>1 DEF EscapeNeedsOverlap
    <2>1. r # q /\ runState[r] = "running"
      BY <1>3
    <2>2. runJob[r] \in Jobs
      BY <2>1 DEF HandleInv, RunsHaveJobs
    <2>3. CASE runJob[r] = j
      <3>1. r \in InFlight(j) /\ q \in InFlight(j)
        BY <1>1, <2>1, <2>3 DEF InFlight
      <3> QED
        BY <2>1, <2>2, <2>3, <3>1 DEF HandleInv, TogetherIsMet
    <2>4. CASE runJob[r] # j
      <3>1. runningJobs[runJob[r]] # r
        BY <1>1, <2>2, <2>4 DEF WithoutHandle, TypeOK
      <3> QED
        BY <2>1, <3>1 DEF HandleInv, EscapeNeedsOverlap
    <2> QED
      BY <2>3, <2>4
  <1>7. ShutdownReaches'
    BY <1>1, <1>3 DEF HandleInv, ShutdownReaches
  <1> QED
    BY <1>2, <1>4, <1>5, <1>6, <1>7 DEF HandleInv

LEMMA HandleStep == RunInv /\ HandleInv /\ [Next]_vars => HandleInv'
PROOF
  <1> SUFFICES ASSUME RunInv, HandleInv, [Next]_vars PROVE HandleInv'
    OBVIOUS
  <1> USE DEF RunInv
  <1>1. OwnersKept /\ (HandleMove \/ ResultMove)
    BY HandleCases
  <1>2. CASE HandleMove /\ PendingMove
    BY <1>1, <1>2, HandlesQuiet
  <1>3. CASE TakeResult
    <2>1. /\ runState' = [runState EXCEPT ![Head(results)] = "recorded"]
          /\ UNCHANGED <<runningJobs, runJob, met, sd, cancelled>>
      BY <1>3 DEF TakeResult, cancelVars, launchVars, shutVars
    <2>2. Head(results) \in Runs /\ runState[Head(results)] = "queued"
      BY <1>3, QueuedHead DEF TakeResult
    <2> QED
      BY <2>1, <2>2, HandlesProgress
  <1>4. ASSUME NEW q \in Runs, EndRun(q) \/ SettleResult(q) \/ LeakResult(q)
        PROVE  HandleInv'
    <2>1. /\ runState[q] \in {"running", "recorded"}
          /\ \E s \in {"queued", "dropped", "settled", "leaked"} :
               runState' = [runState EXCEPT ![q] = s]
      BY <1>4 DEF EndRun, SettleResult, LeakResult
    <2>2. /\ UNCHANGED <<runningJobs, runJob, met, sd>>
          /\ \A r \in cancelled \ {q} : r \in cancelled'
      BY <1>4 DEF EndRun, SettleResult, LeakResult, cancelVars, launchVars, shutVars
    <2> QED
      BY <2>1, <2>2, HandlesProgress
  <1>5. ASSUME NEW q \in Runs, BeginRun(q) \/ RetireResult(q) PROVE HandleInv'
    BY <1>5, HandlesBegin, HandlesRetire
  <1> QED
    BY <1>1, <1>2, <1>3, <1>4, <1>5, StepCases DEF ResultMove

\* Who may cancel what, through overlapping runs, stops, deletes and Shutdown.
THEOREM HandleInvariant == Spec => []HandleInv
PROOF
  <1>1. Init => HandleInv
    BY DEF Init, HandleInv, RunsHaveJobs, HandleIsCurrent, TogetherIsMet, InFlight,
           EscapeNeedsOverlap, ShutdownReaches
  <1> QED
    BY <1>1, HandleStep, RunInvariant, PTL DEF Spec

\* A cancel function in m.runningJobs is that of a run of this job.
THEOREM HandleCorrect == Spec => []HandleIsCurrent
PROOF
  <1>1. HandleInv => HandleIsCurrent
    BY DEF HandleInv
  <1> QED
    BY <1>1, HandleInvariant, PTL

\* A run that StopJob and DeleteJob cannot reach has been in flight together with
\* another run of its job.
THEOREM EscapeCorrect == Spec => []EscapeNeedsOverlap
PROOF
  <1>1. HandleInv => EscapeNeedsOverlap
    BY DEF HandleInv
  <1> QED
    BY <1>1, HandleInvariant, PTL

\* Shutdown cancels every run that has not been in flight with another of its job.
THEOREM ShutdownCorrect == Spec => []ShutdownReaches
PROOF
  <1>1. HandleInv => ShutdownReaches
    BY DEF HandleInv
  <1> QED
    BY <1>1, HandleInvariant, PTL

-----------------------------------------------------------------------------
(* Timers.                                                                  *)

\* A run whose timer ticks, has fired or waits to be stored was launched for a
\* timer; a number that is not in use has no origin.
TimersKnown ==
    \A r \in Runs :
        /\ runState[r] = "idle" => runOrigin[r] = "none"
        /\ runState[r] \in {"armed", "fired"} \/ r \in unregistered =>
             runState[r] # "idle" /\ runOrigin[r] = "timer" /\ runJob[r] \in Jobs

\* What LooseTimerNeedsTimer says of a step.
LooseForATimer ==
    \A r \in Runs : ~Loose(r) /\ Loose(r)' =>
      \E q \in Runs \ {r} :
         /\ runJob[q] = runJob[r]
         /\ \/ q \in unregistered \ unregistered'
            \/ runState[q] = "fired" /\ runState'[q] = "spawned"

\* What runs may do without touching the table of timers.
TimersKept ==
    \A r \in Runs :
        /\ runState[r] # "idle" =>
             runState'[r] # "idle" /\ runJob'[r] = runJob[r] /\ runOrigin'[r] = runOrigin[r]
        /\ runState'[r] = "idle" => runOrigin'[r] = runOrigin[r]
        /\ runState'[r] = "armed" => runState[r] = "armed"
        /\ runState'[r] = "fired" => runState[r] \in {"armed", "fired"}

LEMMA TimersQuiet ==
    ASSUME TypeOK, TimersKnown, TimersKept, UNCHANGED timerVars
    PROVE  TimersKnown' /\ LooseForATimer
PROOF
  <1>1. TimersKnown'
    BY DEF TimersKnown, TimersKept, timerVars
  <1>2. ASSUME NEW r \in Runs, Loose(r)' PROVE Loose(r)
    <2>1. runState[r] = "armed" /\ runJob'[r] = runJob[r]
      BY <1>2 DEF Loose, TimersKept
    <2> QED
      BY <1>2, <2>1 DEF Loose, timerVars
  <1> QED
    BY <1>1, <1>2 DEF LooseForATimer

\* The timer kept for j is stopped and forgotten: it does not tick on.
LEMMA TimersStopped ==
    ASSUME TypeOK, TimersKnown, NEW j \in Jobs, runState' = WithTimerStopped(j),
           scheduledJobs' = [scheduledJobs EXCEPT ![j] = NoRun],
           UNCHANGED <<unregistered, runJob, runOrigin>>
    PROVE  TimersKnown' /\ LooseForATimer
PROOF
  <1>1. \A r \in Runs : /\ runState'[r] = "idle" <=> runState[r] = "idle"
                        /\ runState'[r] = "fired" <=> runState[r] = "fired"
                        /\ runState'[r] = "armed" => runState[r] = "armed" /\ r # scheduledJobs[j]
    BY DEF WithTimerStopped, TypeOK
  <1>2. TimersKnown'
    BY <1>1 DEF TimersKnown
  <1>3. ASSUME NEW r \in Runs, Loose(r)' PROVE Loose(r)
    BY <1>1, <1>3 DEF Loose, TimersKnown, TypeOK
  <1> QED
    BY <1>2, <1>3 DEF LooseForATimer

\* A timer is armed, in RescheduleJob after the old one has been stopped; its
\* goroutine has yet to store it.
LEMMA TimersArmed ==
    ASSUME TypeOK, Unused, TimersKnown, NEW j \in Jobs, NEW base,
           \/ base = runState /\ UNCHANGED scheduledJobs
           \/ /\ base = WithTimerStopped(j)
              /\ scheduledJobs' = [scheduledJobs EXCEPT ![j] = NoRun],
           Launch(j, "armed", "timer", base),
           unregistered' = unregistered \cup {launched + 1}
    PROVE  TimersKnown' /\ LooseForATimer
PROOF
  <1> DEFINE n == launched + 1
  <1>1. n \in Runs /\ launched \in Nat
    BY BoundsAssumption DEF TypeOK, Launch, Runs
  <1>2. runState[n] = "idle" /\ runOrigin[n] = "none"
    BY <1>1 DEF Unused, TimersKnown
  <1>3. /\ runJob' = [runJob EXCEPT ![n] = j]
        /\ runState' = [base EXCEPT ![n] = "armed"]
        /\ runOrigin' = [runOrigin EXCEPT ![n] = "timer"]
    BY DEF Launch
  <1>4. /\ base \in [Runs -> RunStates]
        /\ \A r \in Runs : /\ base[r] = "idle" <=> runState[r] = "idle"
                           /\ base[r] = "fired" => runState[r] = "fired"
                           /\ base[r] = "armed" => runState[r] = "armed"
    BY DEF WithTimerStopped, TypeOK, RunStates
  <1>5. \A r \in Runs \ {n} : /\ runState'[r] = base[r] /\ runJob'[r] = runJob[r]
                              /\ runOrigin'[r] = runOrigin[r]
    BY <1>1, <1>3, <1>4 DEF TypeOK
  <1>6. runState'[n] = "armed" /\ runJob'[n] = j /\ runOrigin'[n] = "timer"
    BY <1>1, <1>3, <1>4 DEF TypeOK
  <1>7. TimersKnown'
    BY <1>4, <1>5, <1>6 DEF TimersKnown
  <1>8. ASSUME NEW r \in Runs, Loose(r)' PROVE Loose(r)
    <2>1. runState'[r] = "armed" /\ r \notin unregistered' /\ scheduledJobs'[runJob'[r]] # r
      BY <1>8 DEF Loose
    <2>2. r # n /\ base[r] = "armed" /\ runState[r] = "armed" /\ runJob'[r] = runJob[r]
      BY <1>4, <1>5, <2>1
    <2>3. runJob[r] \in Jobs
      BY <2>2 DEF TimersKnown
    <2>4. scheduledJobs[runJob[r]] # r
      BY <2>1, <2>2, <2>3 DEF WithTimerStopped, TypeOK
    <2> QED
      BY <2>1, <2>2, <2>4 DEF Loose
  <1> QED
    BY <1>7, <1>8 DEF LooseForATimer

\* The place in the table goes to the timer that is stored, or is emptied by the
\* callback of one that has fired: a timer that loses it is another one.
LEMMA TimersReplaced ==
    ASSUME TypeOK, TimersKnown, NEW q \in Runs, RegisterTimer(q) \/ TimerCallback(q)
    PROVE  TimersKnown' /\ LooseForATimer
PROOF
  <1>1. runJob[q] \in Jobs
    BY DEF RegisterTimer, TimerCallback, TimersKnown
  <1>2. /\ UNCHANGED <<runJob, runOrigin>>
        /\ \A k \in Jobs \ {runJob[q]} : scheduledJobs'[k] = scheduledJobs[k]
        /\ unregistered' \subseteq unregistered
        /\ unregistered \subseteq unregistered' \cup {q}
    BY DEF RegisterTimer, TimerCallback, launchVars, TypeOK
  <1>3. \A r \in Runs : /\ runState'[r] = "idle" <=> runState[r] = "idle"
                        /\ runState'[r] \in {"armed", "fired"} => runState'[r] = runState[r]
    BY DEF RegisterTimer, TimerCallback, TypeOK
  <1>4. RegisterTimer(q) => /\ scheduledJobs'[runJob[q]] = q
                            /\ q \in unregistered \ unregistered'
    BY <1>1 DEF RegisterTimer, TypeOK
  <1>5. TimerCallback(q) => runState[q] = "fired" /\ runState'[q] = "spawned"
    BY DEF TimerCallback, TypeOK
  <1>6. TimersKnown'
    BY <1>2, <1>3 DEF TimersKnown
  <1>7. ASSUME NEW r \in Runs, ~Loose(r), Loose(r)'
        PROVE  r # q /\ runJob[q] = runJob[r]
    <2>1. runState'[r] = "armed" /\ r \notin unregistered' /\ scheduledJobs'[runJob[r]] # r
      BY <1>2, <1>7 DEF Loose
    <2>2. r # q
      BY <1>4, <1>5, <2>1
    <2>3. runState[r] = "armed" /\ r \notin unregistered
      BY <1>2, <1>3, <2>1, <2>2
    <2>4. runJob[r] \in Jobs
      BY <2>3 DEF TimersKnown
    <2>5. scheduledJobs[runJob[r]] = r
      BY <1>7, <2>3 DEF Loose
    <2> QED
      BY <1>2, <2>1, <2>2, <2>4, <2>5
  <1>8. LooseForATimer
    BY <1>4, <1>5, <1>7 DEF LooseForATimer
  <1> QED
    BY <1>6, <1>8

LEMMA TimersSpawned ==
    ASSUME TypeOK, Unused, TimersKnown, NEW j, NEW o, Launch(j, "spawned", o, runState)
    PROVE  TimersKept
PROOF
  <1>1. launched + 1 \in Runs /\ launched \in Nat
    BY BoundsAssumption DEF TypeOK, Launch, Runs
  <1>2. runState[launched + 1] = "idle"
    BY <1>1 DEF Unused
  <1> QED
    BY <1>1, <1>2 DEF Launch, TimersKept, TypeOK

LEMMA TimerStep ==
    RunInv /\ TimersKnown /\ [Next]_vars => TimersKnown' /\ LooseForATimer
PROOF
  <1> SUFFICES ASSUME RunInv, TimersKnown, [Next]_vars
               PROVE  TimersKnown' /\ LooseForATimer
    OBVIOUS
  <1> USE DEF RunInv, coreVars, workVars, cancelVars, timerVars, launchVars,
              queueVars, shutVars
  <1>1. ASSUME UNCHANGED <<runState, runJob, runOrigin, timerVars>> PROVE TimersKnown' /\ LooseForATimer
    BY <1>1, TimersQuiet DEF TimersKept
  <1>2. ASSUME NEW r \in Runs, runState[r] # "idle",
               NEW s \in RunStates \ {"idle", "armed"},
               s = "fired" => runState[r] = "armed",
               runState' = [runState EXCEPT ![r] = s],
               UNCHANGED <<runJob, runOrigin, timerVars>>
        PROVE  TimersKnown' /\ LooseForATimer
    <2>1. TimersKept
      BY <1>2 DEF TimersKept, TypeOK
    <2> QED
      BY <1>2, <2>1, TimersQuiet
  <1>3. ASSUME NEW j \in Jobs, \/ \E sched \in {"none", "set"} : SetupJob(j, sched)
                               \/ StartPeriodic(j) \/ StartAborted(j)
                               \/ \E op \in {"stop", "resume", "reschedule"} : Read(op, j)
                               \/ PauseJob(j)
        PROVE  TimersKnown' /\ LooseForATimer
    BY <1>1, <1>3 DEF SetupJob, StartPeriodic, StartAborted, Read, PauseJob
  <1>4. ASSUME NEW j \in Jobs, StartNow(j) \/ TriggerJobNow(j) \/ CronFire(j)
        PROVE  TimersKnown' /\ LooseForATimer
    <2>1. UNCHANGED timerVars /\ \E o : Launch(j, "spawned", o, runState)
      BY <1>4 DEF StartNow, TriggerJobNow, CronFire
    <2> QED
      BY <2>1, TimersSpawned, TimersQuiet
  <1>5. ASSUME NEW j \in Jobs, StartLater(j) PROVE TimersKnown' /\ LooseForATimer
    BY <1>5, TimersArmed DEF StartLater
  <1>6. ASSUME StopCommit PROVE TimersKnown' /\ LooseForATimer
    <2>1. mu.job \in Jobs /\ UNCHANGED <<unregistered, runJob, runOrigin>>
      BY <1>6, HolderType DEF StopCommit
    <2>2. \/ /\ runState' = WithTimerStopped(mu.job)
             /\ scheduledJobs' = [scheduledJobs EXCEPT ![mu.job] = NoRun]
          \/ UNCHANGED <<runState, scheduledJobs>>
      BY <1>6 DEF StopCommit
    <2> QED
      BY <1>1, <2>1, <2>2, TimersStopped
  <1>7. ASSUME ResumeCommit PROVE TimersKnown' /\ LooseForATimer
    BY <1>1, <1>7 DEF ResumeCommit
  <1>8. ASSUME RescheduleCommit PROVE TimersKnown' /\ LooseForATimer
    BY <1>8, TimersArmed, HolderType DEF RescheduleCommit
  <1>9. ASSUME RescheduleAborted PROVE TimersKnown' /\ LooseForATimer
    BY <1>9, TimersStopped, HolderType DEF RescheduleAborted
  <1>10. ASSUME NEW j \in Jobs, DeleteJob(j) PROVE TimersKnown' /\ LooseForATimer
    BY <1>10, TimersStopped DEF DeleteJob
  <1>11. ASSUME NEW r \in Runs, RegisterTimer(r) \/ TimerCallback(r) PROVE TimersKnown' /\ LooseForATimer
    BY <1>11, TimersReplaced
  <1>12. ASSUME NEW r \in Runs, \/ TimerFire(r) \/ SkipRun(r) \/ BeginRun(r) \/ EndRun(r)
                                \/ SettleResult(r) \/ LeakResult(r) \/ RetireResult(r)
         PROVE  TimersKnown' /\ LooseForATimer
    <2>1. /\ runState[r] # "idle" /\ UNCHANGED <<runJob, runOrigin, timerVars>>
          /\ \E s \in RunStates \ {"idle", "armed"} :
               /\ s = "fired" => runState[r] = "armed"
               /\ runState' = [runState EXCEPT ![r] = s]
      BY <1>12 DEF TimerFire, SkipRun, BeginRun, EndRun, SettleResult, LeakResult,
                   RetireResult, RunStates
    <2> QED
      BY <1>2, <2>1
  <1>13. ASSUME NEW r \in Runs, SendOnClosed(r) PROVE TimersKnown' /\ LooseForATimer
    BY <1>1, <1>13 DEF SendOnClosed
  <1>14. ASSUME TakeResult PROVE TimersKnown' /\ LooseForATimer
    BY <1>2, <1>14, QueuedHead DEF TakeResult, RunStates
  <1>15. ASSUME TakeUpdate \/ ShuttingDown \/ UNCHANGED vars PROVE TimersKnown' /\ LooseForATimer
    BY <1>1, <1>15 DEF TakeUpdate, ShuttingDown, BeginShutdown, DrainDone,
                       DrainTimeout, CloseStore, vars
  <1> QED
    BY <1>3, <1>4, <1>5, <1>6, <1>7, <1>8, <1>9, <1>10, <1>11, <1>12, <1>13, <1>14,
       <1>15
       DEF Next, Operation, Machine, Terminated, StartJob, StopRead, ResumeRead,
           RescheduleRead

\* A timer gets out of reach of StopJob, RescheduleJob and DeleteJob only in the
\* step in which the goroutine or the callback of another timer of its job takes its
\* place in m.scheduledJobs, or empties it.
THEOREM TimersCorrect == Spec => LooseTimerNeedsTimer
PROOF
  <1>1. Init => TimersKnown
    BY DEF Init, TimersKnown
  <1>2. RunInv /\ TimersKnown /\ [Next]_vars => TimersKnown'
    BY TimerStep
  <1>3. RunInv /\ TimersKnown /\ [Next]_vars =>
          [\A r \in Runs : ~Loose(r) /\ Loose(r)' =>
             \E q \in Runs \ {r} :
                /\ runJob[q] = runJob[r]
                /\ \/ q \in unregistered \ unregistered'
                   \/ runState[q] = "fired" /\ runState'[q] = "spawned"]_vars
    BY TimerStep DEF LooseForATimer
  <1> QED
    BY <1>1, <1>2, <1>3, RunInvariant, PTL DEF Spec, LooseTimerNeedsTimer

-----------------------------------------------------------------------------
(* Scheduled jobs.                                                          *)

\* What the newest timer of a scheduled job has come to.
KeptStates == DueStates \cup {"dropped"}

\* Timers are for one-time jobs, and the one kept for a job is one of its own:
\* stopping it takes no timer from another job.
TimersOwned ==
    /\ \A r \in Runs : runOrigin[r] = "timer" => runJob[r] \notin Periodic
    /\ \A j \in Jobs : scheduledJobs[j] # NoRun =>
         /\ runJob[scheduledJobs[j]] = j
         /\ runOrigin[scheduledJobs[j]] = "timer"

ScheduleInv == TimersOwned /\ ScheduledHasTimer

\* A step in which no row becomes scheduled, and a timer's run leaves its due
\* states only if the row of its job does not say scheduled any more.
LEMMA ScheduleKept ==
    ASSUME TypeOK, ScheduleInv,
           sd' = "up" => sd = "up",
           \A k \in jobs' : status'[k] = "scheduled" => k \in jobs /\ status[k] = "scheduled",
           \A r \in Runs : runOrigin'[r] = "timer" <=> runOrigin[r] = "timer",
           \A r \in Runs : runOrigin[r] = "timer" => runJob'[r] = runJob[r],
           \A r \in Runs : runOrigin[r] = "timer" /\ runState[r] \in KeptStates =>
              \/ runState'[r] \in KeptStates
              \/ runJob[r] \notin jobs' \/ status'[runJob[r]] # "scheduled"
              \/ sd' # "up" \/ StoreMayFail,
           \A j \in Jobs : \/ scheduledJobs'[j] \in {NoRun, scheduledJobs[j]}
                           \/ /\ scheduledJobs'[j] \in Runs
                              /\ runJob[scheduledJobs'[j]] = j
                              /\ runOrigin[scheduledJobs'[j]] = "timer"
    PROVE  ScheduleInv'
PROOF
  <1>1. TimersOwned'
    BY DEF ScheduleInv, TimersOwned, TypeOK
  <1>2. ScheduledHasTimer'
    <2> SUFFICES ASSUME sd' = "up", ~StoreMayFail, NEW j \in jobs', status'[j] = "scheduled"
                 PROVE  \E r \in Runs : NewestTimer(j, r)' /\ runState'[r] \in KeptStates
      BY DEF ScheduledHasTimer, KeptStates
    <2>1. PICK r \in Runs : NewestTimer(j, r) /\ runState[r] \in KeptStates
      BY DEF ScheduleInv, ScheduledHasTimer, KeptStates
    <2>2. NewestTimer(j, r)'
      BY <2>1 DEF NewestTimer
    <2>3. runState'[r] \in KeptStates
      BY <2>1 DEF NewestTimer
    <2> QED
      BY <2>2, <2>3
  <1> QED
    BY <1>1, <1>2 DEF ScheduleInv

\* A timer is armed for a one-time job, after the old one has been stopped or
\* while there may be another.
LEMMA ScheduleArmed ==
    ASSUME TypeOK, Unused, TimersKnown, ScheduleInv, NEW j \in Jobs \ Periodic, NEW base,
           \/ base = runState /\ UNCHANGED scheduledJobs
           \/ /\ base = WithTimerStopped(j)
              /\ scheduledJobs' = [scheduledJobs EXCEPT ![j] = NoRun],
           Launch(j, "armed", "timer", base), UNCHANGED <<jobs, sd>>,
           \A k \in Jobs \ {j} : status'[k] = status[k]
    PROVE  ScheduleInv'
PROOF
  <1> DEFINE n == launched + 1
  <1>1. n \in Runs /\ launched \in Nat
    BY BoundsAssumption DEF TypeOK, Launch, Runs
  <1>2. /\ runState[n] = "idle" /\ runOrigin[n] = "none"
        /\ \A q \in Runs : q > n => runOrigin[q] = "none"
    BY <1>1, RunsFacts DEF Unused, TimersKnown
  <1>3. /\ runJob' = [runJob EXCEPT ![n] = j]
        /\ runState' = [base EXCEPT ![n] = "armed"]
        /\ runOrigin' = [runOrigin EXCEPT ![n] = "timer"]
    BY DEF Launch
  <1>4. base \in [Runs -> RunStates]
    BY DEF WithTimerStopped, TypeOK, RunStates
  <1>5. /\ \A r \in Runs \ {n} : /\ runState'[r] = base[r] /\ runJob'[r] = runJob[r]
                                 /\ runOrigin'[r] = runOrigin[r]
        /\ runState'[n] = "armed" /\ runJob'[n] = j /\ runOrigin'[n] = "timer"
    BY <1>1, <1>3, <1>4 DEF TypeOK
  <1>6. TimersOwned'
    <2>1. \A r \in Runs : runOrigin'[r] = "timer" => runJob'[r] \notin Periodic
      BY <1>5 DEF ScheduleInv, TimersOwned
    <2>2. ASSUME NEW k \in Jobs, scheduledJobs'[k] # NoRun
          PROVE  runJob'[scheduledJobs'[k]] = k /\ runOrigin'[scheduledJobs'[k]] = "timer"
      <3>1. scheduledJobs'[k] = scheduledJobs[k] /\ scheduledJobs[k] \in Runs
        BY <2>2 DEF TypeOK
      <3>2. runJob[scheduledJobs[k]] = k /\ runOrigin[scheduledJobs[k]] = "timer"
        BY <2>2, <3>1 DEF ScheduleInv, TimersOwned
      <3>3. scheduledJobs[k] # n
        BY <1>2, <3>2
      <3> QED
        BY <1>5, <3>1, <3>2, <3>3
    <2> QED
      BY <2>1, <2>2 DEF TimersOwned
  <1>7. ScheduledHasTimer'
    <2> SUFFICES ASSUME sd' = "up", ~StoreMayFail, NEW k \in jobs', status'[k] = "scheduled"
                 PROVE  \E r \in Runs : NewestTimer(k, r)' /\ runState'[r] \in KeptStates
      BY DEF ScheduledHasTimer, KeptStates
    <2>1. CASE k = j
      <3>1. PICK m \in Runs : m = n
        BY <1>1
      <3>2. NewestTimer(j, m)'
        BY <1>2, <1>5, <3>1, RunsFacts DEF NewestTimer
      <3> QED
        BY <1>5, <2>1, <3>1, <3>2 DEF KeptStates, DueStates
    <2>2. CASE k # j
      <3>1. k \in Jobs /\ status[k] = "scheduled"
        BY <2>2 DEF TypeOK
      <3>2. PICK r \in Runs : NewestTimer(k, r) /\ runState[r] \in KeptStates
        BY <3>1 DEF ScheduleInv, ScheduledHasTimer, KeptStates
      <3>3. r # n
        BY <1>2, <3>2 DEF NewestTimer
      <3>4. base[r] = runState[r]
        <4>1. scheduledJobs[j] = r => runJob[r] = j
          BY RunsFacts DEF ScheduleInv, TimersOwned
        <4> QED
          BY <2>2, <3>2, <4>1 DEF NewestTimer, WithTimerStopped
      <3>5. NewestTimer(k, r)'
        BY <1>5, <2>2, <3>2, <3>3 DEF NewestTimer
      <3> QED
        BY <1>5, <3>2, <3>3, <3>4, <3>5
    <2> QED
      BY <2>1, <2>2
  <1> QED
    BY <1>6, <1>7 DEF ScheduleInv

LEMMA ScheduleStep ==
    RunInv /\ TimersKnown /\ CronInv /\ ScheduleInv /\ [Next]_vars => ScheduleInv'
PROOF
  <1> SUFFICES ASSUME RunInv, TimersKnown, CronInv, ScheduleInv, [Next]_vars
               PROVE  ScheduleInv'
    OBVIOUS
  <1> USE DEF RunInv, coreVars, workVars, storeVars, cancelVars, timerVars,
              launchVars, queueVars, shutVars
  <1> DEFINE NoneScheduled ==
               \A k \in jobs' : status'[k] = "scheduled" => k \in jobs /\ status[k] = "scheduled"
  <1>1. ASSUME UNCHANGED <<runState, runJob, runOrigin, scheduledJobs>>,
               sd' = "up" => sd = "up", NoneScheduled
        PROVE  ScheduleInv'
    BY <1>1, ScheduleKept
  <1>2. ASSUME UNCHANGED jobs, \/ UNCHANGED status
                               \/ \E k, s : s # "scheduled" /\ status' = WithStatus(k, s)
        PROVE  NoneScheduled
    BY <1>2 DEF WithStatus, TypeOK
  <1>3. ASSUME NEW j \in Jobs, NEW sched, SetupJob(j, sched) PROVE ScheduleInv'
    <2>1. NoneScheduled
      BY <1>3 DEF SetupJob, TypeOK
    <2> QED
      BY <1>1, <1>3, <2>1 DEF SetupJob
  <1>4. ASSUME NEW j \in Jobs, StartPeriodic(j) \/ StartAborted(j) \/ PauseJob(j)
        PROVE  ScheduleInv'
    <2>1. /\ UNCHANGED <<jobs, workVars>>
          /\ \/ UNCHANGED status
             \/ \E s \in {"running", "paused"} : status' = WithStatus(j, s)
      BY <1>4 DEF StartPeriodic, StartAborted, PauseJob
    <2> QED
      BY <1>1, <1>2, <2>1
  <1>5. ASSUME NEW j \in Jobs, NEW op, Read(op, j) PROVE ScheduleInv'
    BY <1>1, <1>2, <1>5 DEF Read
  <1>6. ASSUME NEW j \in Jobs, StartNow(j) \/ TriggerJobNow(j) \/ CronFire(j)
        PROVE  ScheduleInv'
    <2> DEFINE n == launched + 1
    <2>1. /\ UNCHANGED <<jobs, sd, scheduledJobs>>
          /\ UNCHANGED status \/ status' = WithStatus(j, "running")
          /\ \E o \in {"go", "cron"} : Launch(j, "spawned", o, runState)
      BY <1>6 DEF StartNow, TriggerJobNow, CronFire
    <2>2. n \in Runs /\ runState[n] = "idle" /\ runOrigin[n] = "none"
      <3>1. n \in Runs /\ launched \in Nat
        BY <2>1, BoundsAssumption DEF Launch, TypeOK, Runs
      <3> QED
        BY <3>1 DEF Unused, TimersKnown
    <2>3. /\ runOrigin'[n] # "timer"
          /\ \A r \in Runs \ {n} : /\ runOrigin'[r] = runOrigin[r] /\ runJob'[r] = runJob[r]
                                   /\ runState'[r] = runState[r]
      BY <2>1, <2>2 DEF Launch, TypeOK
    <2> QED
      BY <1>2, <2>1, <2>2, <2>3, ScheduleKept
  <1>7. ASSUME NEW j \in Jobs, StartLater(j) PROVE ScheduleInv'
    <2>1. \A k \in Jobs \ {j} : status'[k] = status[k]
      BY <1>7 DEF StartLater, WithStatus, TypeOK
    <2> QED
      BY <1>7, <2>1, ScheduleArmed DEF StartLater
  <1>8. ASSUME StopCommit PROVE ScheduleInv'
    <2> DEFINE j == mu.job
    <2>1. j \in Jobs /\ j \in jobs /\ status[j] # "absent"
      BY <1>8, HolderType DEF StopCommit, CronInv, HolderInv, MemoryBacked
    <2>2. /\ UNCHANGED <<jobs, sd, runJob, runOrigin>>
          /\ runState' = WithTimerStopped(j) \/ UNCHANGED runState
          /\ scheduledJobs' \in {scheduledJobs, [scheduledJobs EXCEPT ![j] = NoRun]}
      BY <1>8 DEF StopCommit
    <2>3. StopStatus(j, mu.seen) # "scheduled"
      BY DEF StopStatus
    <2>4. \/ StoreMayFail /\ UNCHANGED status
          \/ status' = WithStatus(j, StopStatus(j, mu.seen))
      BY <1>8, StoreAssumption DEF StopCommit, StoreOutcomes
    <2>5. StoreMayFail \/ status'[j] # "scheduled"
      BY <2>1, <2>3, <2>4 DEF WithStatus, TypeOK
    <2>6. NoneScheduled
      BY <1>2, <2>2, <2>3, <2>4
    <2>7. \A r \in Runs : runState'[r] = runState[r] \/ r = scheduledJobs[j]
      BY <2>2 DEF WithTimerStopped
    <2>8. \A r \in Runs : r = scheduledJobs[j] => runJob[r] = j
      BY <2>1, RunsFacts DEF ScheduleInv, TimersOwned
    <2>9. \A k \in Jobs : scheduledJobs'[k] \in {NoRun, scheduledJobs[k]}
      BY <2>2 DEF TypeOK
    <2> QED
      BY <2>2, <2>5, <2>6, <2>7, <2>8, <2>9, ScheduleKept
  <1>9. ASSUME ResumeCommit PROVE ScheduleInv'
    <2>1. /\ UNCHANGED <<jobs, workVars>>
          /\ UNCHANGED status \/ status' = WithStatus(mu.job, "running")
      BY <1>9 DEF ResumeCommit
    <2> QED
      BY <1>1, <1>2, <2>1
  <1>10. ASSUME RescheduleCommit PROVE ScheduleInv'
    <2>1. mu.job \in Jobs \ Periodic
      BY <1>10, HolderType DEF RescheduleCommit, CronInv, HolderInv
    <2>2. \A k \in Jobs \ {mu.job} : status'[k] = status[k]
      BY <1>10 DEF RescheduleCommit, TypeOK
    <2> QED
      BY <1>10, <2>1, <2>2, ScheduleArmed DEF RescheduleCommit
  <1>11. ASSUME RescheduleAborted PROVE ScheduleInv'
    <2>1. /\ StoreMayFail /\ UNCHANGED <<runJob, runOrigin>>
          /\ scheduledJobs' = [scheduledJobs EXCEPT ![mu.job] = NoRun]
      BY <1>11 DEF RescheduleAborted
    <2>2. TimersOwned'
      BY <2>1 DEF ScheduleInv, TimersOwned, TypeOK
    <2> QED
      BY <2>1, <2>2 DEF ScheduleInv, ScheduledHasTimer
  <1>12. ASSUME NEW j \in Jobs, DeleteJob(j) PROVE ScheduleInv'
    <2>1. /\ jobs' = jobs \ {j} /\ UNCHANGED <<sd, runJob, runOrigin>>
          /\ runState' = WithTimerStopped(j)
          /\ scheduledJobs' = [scheduledJobs EXCEPT ![j] = NoRun]
          /\ \A k \in Jobs \ {j} : status'[k] = status[k]
      BY <1>12 DEF DeleteJob, Unloaded, TypeOK
    <2>2. NoneScheduled
      BY <2>1 DEF TypeOK
    <2>3. \A r \in Runs : runState'[r] = runState[r] \/ r = scheduledJobs[j]
      BY <2>1 DEF WithTimerStopped
    <2>4. \A r \in Runs : r = scheduledJobs[j] => runJob[r] = j
      BY RunsFacts DEF ScheduleInv, TimersOwned
    <2>5. \A k \in Jobs : scheduledJobs'[k] \in {NoRun, scheduledJobs[k]}
      BY <2>1 DEF TypeOK
    <2> QED
      BY <2>1, <2>2, <2>3, <2>4, <2>5, ScheduleKept
  <1>13. ASSUME NEW r \in Runs, RegisterTimer(r) \/ TimerCallback(r) PROVE ScheduleInv'
    <2>1. /\ UNCHANGED <<jobs, status, sd, runJob, runOrigin>>
          /\ \A q \in Runs : runState[q] \in KeptStates => runState'[q] \in KeptStates
      BY <1>13 DEF RegisterTimer, TimerCallback, KeptStates, DueStates, TypeOK
    <2>2. r \in unregistered => runJob[r] \in Jobs /\ runOrigin[r] = "timer"
      BY DEF TimersKnown
    <2>3. \A j \in Jobs : \/ scheduledJobs'[j] \in {NoRun, scheduledJobs[j]}
                          \/ /\ scheduledJobs'[j] \in Runs
                             /\ runJob[scheduledJobs'[j]] = j
                             /\ runOrigin[scheduledJobs'[j]] = "timer"
      BY <1>13, <2>2 DEF RegisterTimer, TimerCallback, TypeOK
    <2> QED
      BY <1>2, <2>1, <2>3, ScheduleKept
  <1>14. ASSUME NEW r \in Runs, \/ TimerFire(r) \/ BeginRun(r) \/ EndRun(r)
                                \/ SendOnClosed(r) \/ RetireResult(r)
         PROVE  ScheduleInv'
    <2>1. UNCHANGED <<jobs, status, sd, runJob, runOrigin, scheduledJobs>>
      BY <1>14 DEF TimerFire, BeginRun, EndRun, SendOnClosed, RetireResult
    <2>2. \A q \in Runs : runState[q] \in KeptStates => runState'[q] \in KeptStates
      BY <1>14 DEF TimerFire, BeginRun, EndRun, SendOnClosed, RetireResult, KeptStates, DueStates,
                   TypeOK
    <2> QED
      BY <1>2, <2>1, <2>2, ScheduleKept
  <1>15. ASSUME NEW r \in Runs, SkipRun(r) PROVE ScheduleInv'
    <2>1. /\ UNCHANGED <<jobs, status, sd, runJob, runOrigin, scheduledJobs>>
          /\ sd # "up" \/ runJob[r] \notin jobs
          /\ \A q \in Runs \ {r} : runState'[q] = runState[q]
      BY <1>15 DEF SkipRun, MayRun, TypeOK
    <2> QED
      BY <1>2, <2>1, ScheduleKept
  <1>16. ASSUME TakeResult PROVE ScheduleInv'
    <2>1. UNCHANGED <<jobs, status, sd, runJob, runOrigin, scheduledJobs>>
      BY <1>16 DEF TakeResult
    <2>2. \A q \in Runs : runState[q] \in KeptStates => runState'[q] \in KeptStates
      BY <1>16 DEF TakeResult, KeptStates, DueStates, TypeOK
    <2> QED
      BY <1>2, <2>1, <2>2, ScheduleKept
  <1>17. ASSUME NEW r \in Runs, SettleResult(r) PROVE ScheduleInv'
    <2>1. /\ UNCHANGED <<jobs, sd, runJob, runOrigin, scheduledJobs>>
          /\ status[runJob[r]] # "absent" /\ runState[r] = "recorded"
          /\ \A q \in Runs \ {r} : runState'[q] = runState[q]
      BY <1>17 DEF SettleResult, TypeOK
    <2>2. outcome[r] \in Outcomes
      BY <2>1 DEF QueueInv
    <2>3. UNCHANGED status \/ status' = WithStatus(runJob[r], outcome[r])
      BY <1>17 DEF SettleResult
    <2>4. NoneScheduled
      BY <1>2, <2>1, <2>2, <2>3 DEF Outcomes
    <2>5. ASSUME runOrigin[r] = "timer", ~StoreMayFail
          PROVE  runJob[r] \notin jobs \/ status'[runJob[r]] # "scheduled"
      <3>1. WritesStatus(r)
        BY <2>5 DEF ScheduleInv, TimersOwned, WritesStatus
      <3>2. status' = WithStatus(runJob[r], outcome[r])
        BY <1>17, <2>5, <3>1 DEF SettleResult, StoreOutcomes
      <3> QED
        BY <2>1, <2>2, <3>2 DEF WithStatus, Outcomes, TypeOK
    <2> QED
      BY <2>1, <2>4, <2>5, ScheduleKept
  <1>18. ASSUME NEW r \in Runs, LeakResult(r) PROVE ScheduleInv'
    <2>1. /\ UNCHANGED <<jobs, status, sd, runJob, runOrigin, scheduledJobs>>
          /\ StoreMayFail \/ status[runJob[r]] = "absent"
          /\ \A q \in Runs \ {r} : runState'[q] = runState[q]
      BY <1>18 DEF LeakResult, TypeOK
    <2> QED
      BY <1>2, <2>1, ScheduleKept
  <1>19. ASSUME TakeUpdate \/ ShuttingDown \/ UNCHANGED vars PROVE ScheduleInv'
    <2>1. /\ UNCHANGED <<jobs, status, runState, runJob, runOrigin, scheduledJobs>>
          /\ sd' = "up" => sd = "up"
      BY <1>19 DEF TakeUpdate, ShuttingDown, BeginShutdown, DrainDone, DrainTimeout,
                   CloseStore, vars
    <2> QED
      BY <1>1, <1>2, <2>1
  <1> QED
    BY <1>3, <1>4, <1>5, <1>6, <1>7, <1>8, <1>9, <1>10, <1>11, <1>12, <1>13, <1>14,
       <1>15, <1>16, <1>17, <1>18, <1>19
       DEF Next, Operation, Machine, Terminated, StartJob, StopRead, ResumeRead,
           RescheduleRead

\* With a store that works, the newest timer of a job whose row says scheduled has yet
\* to fire, or its run is under way, or the full channel has dropped the result of
\* that very run: nothing else leaves a scheduled job waiting.
THEOREM ScheduledCorrect == Spec => []ScheduledHasTimer
PROOF
  <1>1. Init => TimersKnown /\ ScheduleInv
    BY DEF Init, TimersKnown, TimersKnown, ScheduleInv, TimersOwned, ScheduledHasTimer
  <1>2. ScheduleInv => ScheduledHasTimer
    BY DEF ScheduleInv
  <1> QED
    BY <1>1, <1>2, TimerStep, ScheduleStep, RunInvariant, CronInvariant, PTL DEF Spec

-----------------------------------------------------------------------------
(* Statuses and results.                                                   *)

\* What RescheduleJob writes back is no outcome, and a result the processor has
\* in hand was recorded, if its job has a row.
ResultInv ==
    /\ StatusHasResult
    /\ mu # Free /\ mu.op = "reschedule" => mu.seen \notin Outcomes
    /\ \A r \in Runs :
         runState[r] = "recorded" /\ status[runJob[r]] # "absent" =>
           outcome[r] \in history[runJob[r]]

\* A run that is recorded after the step was so before, for the same job.
ResultsStay ==
    \A r \in Runs : runState'[r] = "recorded" =>
        /\ runState[r] = "recorded"
        /\ runJob'[r] = runJob[r] /\ outcome'[r] = outcome[r]

\* No outcome is written, and no row is made.
NoOutcomeWritten ==
    \A j \in Jobs : \/ status'[j] = status[j]
                    \/ status[j] # "absent" /\ status'[j] \notin Outcomes

LEMMA WrittenFacts ==
    ASSUME TypeOK, NEW j \in Jobs, NEW s, s \notin Outcomes,
           \/ status' = WithStatus(j, s)
           \/ status[j] # "absent" /\ status' = [status EXCEPT ![j] = s]
    PROVE  NoOutcomeWritten
PROOF
  <1>1. status' = status \/ (status[j] # "absent" /\ status' = [status EXCEPT ![j] = s])
    BY DEF WithStatus
  <1>2. DOMAIN status = Jobs
    BY DEF TypeOK
  <1> QED
    BY <1>1, <1>2 DEF NoOutcomeWritten

LEMMA ResultsKept ==
    ASSUME RunsHaveJobs, ResultInv, ResultsStay, NoOutcomeWritten, UNCHANGED history,
           \/ mu' = Free
           \/ mu' = mu
           \/ (mu'.op = "reschedule" => mu'.seen \notin Outcomes)
    PROVE  ResultInv'
PROOF
  <1>1. StatusHasResult'
    BY DEF ResultInv, StatusHasResult, NoOutcomeWritten
  <1>2. mu' # Free /\ mu'.op = "reschedule" => mu'.seen \notin Outcomes
    BY DEF ResultInv
  <1>3. ASSUME NEW r \in Runs, runState'[r] = "recorded", status'[runJob'[r]] # "absent"
        PROVE  outcome'[r] \in history'[runJob'[r]]
    <2>1. /\ runState[r] = "recorded" /\ runJob'[r] = runJob[r]
          /\ outcome'[r] = outcome[r] /\ runJob[r] \in Jobs
      BY <1>3 DEF ResultsStay, RunsHaveJobs
    <2>2. status[runJob[r]] # "absent"
      BY <1>3, <2>1 DEF NoOutcomeWritten
    <2> QED
      BY <2>1, <2>2 DEF ResultInv
  <1> QED
    BY <1>1, <1>2, <1>3 DEF ResultInv

LEMMA ResultStep ==
    /\ StoreMayFail = FALSE /\ RunInv /\ CronInv /\ HandleInv /\ ResultInv
    /\ [Next]_vars /\ [\A j \in jobs' \ jobs : ~InHand(j)]_vars
    => ResultInv'
PROOF
  <1> SUFFICES ASSUME StoreMayFail = FALSE, RunInv, CronInv, HandleInv, ResultInv,
                      [Next]_vars, \A j \in jobs' \ jobs : ~InHand(j)
               PROVE  ResultInv'
    BY DEF vars, coreVars
  <1> USE DEF coreVars, workVars, storeVars, cronVars, cancelVars, timerVars,
              launchVars, queueVars, shutVars
  <1>1. /\ TypeOK /\ QueueInv /\ Unused /\ RunsHaveJobs
        /\ OwnersKept /\ (PendingMove \/ ResultMove)
    BY StepCases, HandleCases DEF RunInv, HandleInv
  <1>2. ASSUME PendingMove PROVE ResultsStay
    <2>1. \A r \in Runs : runState'[r] = "recorded" => runState[r] = "recorded"
      BY <1>2 DEF PendingMove, Pending
    <2>2. outcome' = outcome
      BY <1>2 DEF PendingMove
    <2>3. \A r \in Runs : runState[r] = "recorded" => runJob'[r] = runJob[r]
      BY <1>1 DEF OwnersKept
    <2> QED
      BY <2>1, <2>2, <2>3 DEF ResultsStay
  <1>3. ASSUME UNCHANGED status PROVE NoOutcomeWritten
    BY <1>3 DEF NoOutcomeWritten
  <1>4. ASSUME PendingMove, NEW j \in Jobs, NEW sched, SetupJob(j, sched)
        PROVE  ResultInv'
    <2>1. /\ UNCHANGED <<history, mu>> /\ ResultsStay
          /\ status' = [status EXCEPT ![j] = "created"]
          /\ j \in jobs' \ jobs
      BY <1>2, <1>4 DEF SetupJob
    <2>2. StatusHasResult'
      BY <1>1, <2>1 DEF ResultInv, StatusHasResult, Outcomes, TypeOK
    <2>3. mu' # Free /\ mu'.op = "reschedule" => mu'.seen \notin Outcomes
      BY <2>1 DEF ResultInv
    <2>4. ASSUME NEW r \in Runs, runState'[r] = "recorded", status'[runJob'[r]] # "absent"
          PROVE  outcome'[r] \in history'[runJob'[r]]
      <3>1. /\ runState[r] = "recorded" /\ runJob'[r] = runJob[r]
            /\ outcome'[r] = outcome[r] /\ runJob[r] \in Jobs
        BY <1>1, <2>1, <2>4 DEF ResultsStay, RunsHaveJobs
      <3>2. runJob[r] # j
        BY <2>1, <3>1 DEF InHand
      <3>3. status[runJob[r]] # "absent"
        BY <1>1, <2>1, <2>4, <3>1, <3>2 DEF TypeOK
      <3> QED
        BY <2>1, <3>1, <3>3 DEF ResultInv
    <2> QED
      BY <2>2, <2>3, <2>4 DEF ResultInv
  <1>5. ASSUME PendingMove, NEW j \in Jobs,
               \/ StartPeriodic(j) \/ StartNow(j) \/ StartLater(j) \/ StartAborted(j)
               \/ PauseJob(j) \/ TriggerJobNow(j) \/ CronFire(j)
        PROVE  ResultInv'
    <2>1. /\ UNCHANGED <<history, mu>>
          /\ \/ UNCHANGED status
             \/ \E s \in {"running", "scheduled", "paused"} : status' = WithStatus(j, s)
      BY <1>5 DEF StartPeriodic, StartNow, StartLater, StartAborted, PauseJob,
                  TriggerJobNow, CronFire
    <2>2. NoOutcomeWritten
      BY <1>1, <1>3, <2>1, WrittenFacts DEF Outcomes
    <2> QED
      BY <1>1, <1>2, <1>5, <2>1, <2>2, ResultsKept
  <1>6. ASSUME PendingMove, NEW j \in Jobs, NEW op,
               Read(op, j), op = "reschedule" => status[j] \in {"scheduled", "created"}
        PROVE  ResultInv'
    <2>1. /\ UNCHANGED <<history, status>>
          /\ mu'.op = "reschedule" => mu'.seen \notin Outcomes
      BY <1>6 DEF Read, Outcomes
    <2> QED
      BY <1>1, <1>2, <1>3, <1>6, <2>1, ResultsKept
  <1>7. ASSUME PendingMove, StopCommit \/ ResumeCommit \/ RescheduleCommit
               \/ RescheduleAborted
        PROVE  ResultInv'
    <2> DEFINE j == mu.job
    <2>1. j \in Jobs /\ status[j] # "absent"
      BY <1>1, <1>7, HolderType
         DEF StopCommit, ResumeCommit, RescheduleCommit, RescheduleAborted,
             CronInv, HolderInv, MemoryBacked
    <2>2. UNCHANGED history /\ mu' = Free
      BY <1>7 DEF StopCommit, ResumeCommit, RescheduleCommit, RescheduleAborted
    <2>3. CASE StopCommit
      <3>1. status' = WithStatus(j, StopStatus(j, mu.seen)) \/ UNCHANGED status
        BY <2>3 DEF StopCommit
      <3>2. StopStatus(j, mu.seen) \notin Outcomes
        BY DEF StopStatus, Outcomes
      <3>3. NoOutcomeWritten
        BY <1>1, <1>3, <2>1, <3>1, <3>2, WrittenFacts
      <3> QED
        BY <1>1, <1>2, <1>7, <2>2, <3>3, ResultsKept
    <2>4. CASE ResumeCommit
      <3>1. status' = WithStatus(j, "running") \/ UNCHANGED status
        BY <2>4 DEF ResumeCommit
      <3>2. NoOutcomeWritten
        BY <1>1, <1>3, <2>1, <3>1, WrittenFacts DEF Outcomes
      <3> QED
        BY <1>1, <1>2, <1>7, <2>2, <3>2, ResultsKept
    <2>5. CASE RescheduleCommit \/ RescheduleAborted
      <3>1. status' = [status EXCEPT ![j] = mu.seen] \/ UNCHANGED status
        BY <2>5 DEF RescheduleCommit, RescheduleAborted
      <3>2. mu.seen \notin Outcomes
        BY <2>5 DEF ResultInv, RescheduleCommit, RescheduleAborted
      <3>3. NoOutcomeWritten
        BY <1>1, <1>3, <2>1, <3>1, <3>2, WrittenFacts
      <3> QED
        BY <1>1, <1>2, <1>7, <2>2, <3>3, ResultsKept
    <2> QED
      BY <1>7, <2>3, <2>4, <2>5
  <1>8. ASSUME PendingMove, NEW j \in Jobs, DeleteJob(j) PROVE ResultInv'
    <2>1. /\ UNCHANGED mu /\ ResultsStay
          /\ status' = [status EXCEPT ![j] = "absent"]
          /\ history' = [history EXCEPT ![j] = {}]
      BY <1>2, <1>8 DEF DeleteJob, StoreOutcomes
    <2>2. StatusHasResult'
      BY <1>1, <2>1 DEF ResultInv, StatusHasResult, Outcomes, TypeOK
    <2>3. mu' # Free /\ mu'.op = "reschedule" => mu'.seen \notin Outcomes
      BY <2>1 DEF ResultInv
    <2>4. ASSUME NEW r \in Runs, runState'[r] = "recorded", status'[runJob'[r]] # "absent"
          PROVE  outcome'[r] \in history'[runJob'[r]]
      <3>1. /\ runState[r] = "recorded" /\ runJob'[r] = runJob[r]
            /\ outcome'[r] = outcome[r] /\ runJob[r] \in Jobs
        BY <1>1, <2>1, <2>4 DEF ResultsStay, RunsHaveJobs
      <3>2. runJob[r] # j /\ status[runJob[r]] # "absent"
        BY <1>1, <2>1, <2>4, <3>1 DEF TypeOK
      <3>3. history'[runJob[r]] = history[runJob[r]]
        BY <1>1, <2>1, <3>1, <3>2 DEF TypeOK
      <3> QED
        BY <3>1, <3>2, <3>3 DEF ResultInv
    <2> QED
      BY <2>2, <2>3, <2>4 DEF ResultInv
  <1>9. ASSUME PendingMove, \/ \E r \in Runs : \/ RegisterTimer(r) \/ TimerFire(r)
                                              \/ TimerCallback(r) \/ SkipRun(r)
                                              \/ SendOnClosed(r)
                            \/ TakeUpdate \/ ShuttingDown \/ UNCHANGED vars
        PROVE  ResultInv'
    <2>1. UNCHANGED <<history, status, mu>>
      BY <1>9 DEF RegisterTimer, TimerFire, TimerCallback, SkipRun, SendOnClosed,
                  TakeUpdate, ShuttingDown, BeginShutdown, DrainDone, DrainTimeout,
                  CloseStore, vars
    <2> QED
      BY <1>1, <1>2, <1>3, <1>9, <2>1, ResultsKept
  <1>10. ASSUME NEW r \in Runs, BeginRun(r) \/ EndRun(r) \/ LeakResult(r) \/ RetireResult(r)
         PROVE  ResultInv'
    <2>1. /\ UNCHANGED <<history, status, mu, runJob>>
          /\ \E s \in RunStates \ {"recorded"} : runState' = [runState EXCEPT ![r] = s]
          /\ \A q \in Runs \ {r} : outcome'[q] = outcome[q]
      BY <1>1, <1>10 DEF BeginRun, EndRun, LeakResult, RetireResult, RunStates, TypeOK
    <2>2. ResultsStay
      BY <1>1, <2>1 DEF ResultsStay, TypeOK
    <2> QED
      BY <1>1, <1>3, <2>1, <2>2, ResultsKept
  <1>11. ASSUME TakeResult PROVE ResultInv'
    <2> DEFINE r == Head(results)
    <2>1. /\ r \in Runs /\ runState[r] = "queued" /\ runJob[r] \in Jobs
          /\ UNCHANGED <<status, mu, runJob, outcome>>
          /\ runState' = [runState EXCEPT ![r] = "recorded"]
          /\ history' = Recorded(r)
      BY <1>1, <1>11, QueuedHead DEF TakeResult, StoreOutcomes, RunsHaveJobs
    <2> HIDE DEF r
    <2>2. \A j \in Jobs : history[j] \subseteq history'[j]
      BY <1>1, <2>1 DEF Recorded, TypeOK
    <2>3. status[runJob[r]] # "absent" => outcome[r] \in history'[runJob[r]]
      BY <1>1, <2>1 DEF Recorded, TypeOK
    <2>4. StatusHasResult'
      BY <2>1, <2>2 DEF ResultInv, StatusHasResult
    <2>5. ASSUME NEW q \in Runs, runState'[q] = "recorded", status'[runJob'[q]] # "absent"
          PROVE  outcome'[q] \in history'[runJob'[q]]
      <3>1. CASE q = r
        BY <2>1, <2>3, <2>5, <3>1
      <3>2. CASE q # r
        <4>1. runState[q] = "recorded" /\ runJob[q] \in Jobs
          BY <1>1, <2>1, <2>5, <3>2 DEF RunsHaveJobs, TypeOK
        <4> QED
          BY <2>1, <2>2, <2>5, <4>1 DEF ResultInv
      <3> QED
        BY <3>1, <3>2
    <2> QED
      BY <2>1, <2>4, <2>5 DEF ResultInv
  <1>12. ASSUME NEW r \in Runs, SettleResult(r) PROVE ResultInv'
    <2>1. /\ runState[r] = "recorded" /\ status[runJob[r]] # "absent" /\ runJob[r] \in Jobs
          /\ UNCHANGED <<history, mu, runJob>>
          /\ \A q \in Runs \ {r} : outcome'[q] = outcome[q]
          /\ runState' = [runState EXCEPT ![r] = "settled"]
          /\ UNCHANGED status \/ status' = [status EXCEPT ![runJob[r]] = outcome[r]]
      BY <1>1, <1>12 DEF SettleResult, WithStatus, RunsHaveJobs, TypeOK
    <2>2. outcome[r] \in history[runJob[r]]
      BY <2>1 DEF ResultInv
    <2>3. outcome[r] \in Outcomes /\ outcome[r] # "absent"
      BY <1>1, <2>1 DEF QueueInv, Outcomes
    <2>4. StatusHasResult'
      BY <1>1, <2>1, <2>2 DEF ResultInv, StatusHasResult, TypeOK
    <2>5. ASSUME NEW q \in Runs, runState'[q] = "recorded", status'[runJob'[q]] # "absent"
          PROVE  outcome'[q] \in history'[runJob'[q]]
      <3>1. runState[q] = "recorded" /\ q # r /\ runJob[q] \in Jobs
        BY <1>1, <2>1, <2>5 DEF RunsHaveJobs, TypeOK
      <3>2. status[runJob[q]] # "absent"
        BY <1>1, <2>1, <2>5, <3>1 DEF TypeOK
      <3> QED
        BY <2>1, <3>1, <3>2 DEF ResultInv
    <2> QED
      BY <2>1, <2>4, <2>5 DEF ResultInv
  <1>13. ASSUME ResultMove PROVE ResultInv'
    BY <1>10, <1>11, <1>12, <1>13 DEF ResultMove
  <1> QED
    BY <1>1, <1>4, <1>5, <1>6, <1>7, <1>8, <1>9, <1>13
       DEF Next, Operation, Machine, Terminated, StartJob, StopRead, ResumeRead,
           RescheduleRead, ResultMove

\* With a store that works, and no id set up again while the processor has a
\* result of it in hand, a row says complete or failed only of a job that has a
\* result of that outcome: the status the processor writes without m.mu and those
\* the handlers write over it never claim an end that did not happen.
THEOREM StatusCorrect ==
    StoreMayFail = FALSE /\ Spec /\ NoReuseInHand => []StatusHasResult
PROOF
  <1> SUFFICES ASSUME StoreMayFail = FALSE
               PROVE  Spec /\ NoReuseInHand => []StatusHasResult
    OBVIOUS
  <1>1. Init => ResultInv
    BY DEF Init, ResultInv, StatusHasResult, Outcomes
  <1>2. ResultInv => StatusHasResult
    BY DEF ResultInv
  <1>3. /\ RunInv /\ CronInv /\ HandleInv /\ ResultInv
        /\ [Next]_vars /\ [\A j \in jobs' \ jobs : ~InHand(j)]_vars
        => ResultInv'
    BY ResultStep
  <1> QED
    BY <1>1, <1>2, <1>3, RunInvariant, CronInvariant, HandleInvariant, PTL
       DEF Spec, NoReuseInHand

=============================================================================
