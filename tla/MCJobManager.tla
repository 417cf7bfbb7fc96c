---------------------------- MODULE MCJobManager ----------------------------
(* Small instances of JobManager for TLC. *)
EXTENDS JobManager, TLC

EntrySymmetry == Permutations(EntryIds)

\* Callers that register, trigger, stop and delete jobs: what a shutdown has to
\* drain, with the timers and Pause and Resume left to the safety runs.
DrainOperation ==
    \/ \E j \in Jobs : SetupJob(j, "set") \/ TriggerJobNow(j) \/ DeleteJob(j)
    \/ \E j \in Periodic : StartPeriodic(j) \/ StopRead(j)
    \/ StopCommit

\* Callers that schedule, reschedule, pause, resume, trigger, stop and delete
\* jobs while the manager is up, and keep to NoReuseInHand: what moves timers and
\* the statuses around them.
TimerOperation ==
    \/ \E j \in Jobs : \/ ~InHand(j) /\ SetupJob(j, "set")
                       \/ StartLater(j) \/ DeleteJob(j)
                       \/ StopRead(j) \/ RescheduleRead(j) \/ PauseJob(j)
                       \/ ResumeRead(j) \/ TriggerJobNow(j)
    \/ StopCommit
    \/ ResumeCommit
    \/ RescheduleCommit

DrainSpec ==
    /\ Init
    /\ [][\/ ~Halted /\ (DrainOperation \/ Machine \/ ShuttingDown)
          \/ Terminated]_vars
    /\ Fairness /\ CancelledReturn

TimerSpec ==
    /\ Init
    /\ [][\/ ~Halted /\ (TimerOperation \/ Machine)
          \/ Terminated]_vars
    /\ Fairness /\ RunsReturn
=============================================================================
