------------------------------- MODULE JobRun -------------------------------
(***************************************************************************)
(* One execution: BaseJob.Run, which waits for the work, the cancellation  *)
(* and the time limit, and the goroutine that works, as ScheduledJob and   *)
(* LoggingJob define it.  A select with several ready cases takes any.     *)
(***************************************************************************)
EXTENDS Integers, Sequences

\* The kinds of work: a remote endpoint is triggered, a Go function is called,
\* the definition has neither (Call is nil), or it is a LoggingJob.
Kinds == {"endpoint", "function", "nothing", "logging"}

\* What the worker hands over, and what Run may return instead.  "unexecuted":
\* the limit passed before the function was called.
Results == {"done", "error", "interrupted", "unexecuted"}
Answers == Results \cup {"none", "canceled", "overdue"}
\* Faulty: a cancellation passes for an end without an error.
MutErrors == {"error", "interrupted", "overdue"}
Errors == {"error", "interrupted", "canceled", "overdue"}

Timers == {"off", "ticking", "fired"}

VARIABLES
    kind, limited,   \* the job: its work, and whether maxWorkTime > 0
    run,             \* Run: at its select, in the inner one, or returned
    answer,          \* what Run returned
    maxTimer,        \* Run's timer
    grace,           \* Run's grace period after it
    worker,
    own,             \* the worker's timer
    called,          \* the work itself has begun
    msg,             \* the worker's result before it is sent
    resultCh,        \* capacity 1
    cancelled,       \* the context
    crashed          \* a nil function was called: the process is gone

vars == <<kind, limited, run, answer, maxTimer, grace, worker, own, called, msg,
          resultCh, cancelled, crashed>>
jobVars    == <<kind, limited>>
runVars    == <<run, answer, maxTimer, grace>>
workerVars == <<worker, own, called, msg>>

TypeOK ==
    /\ kind \in Kinds /\ limited \in BOOLEAN
    /\ run \in {"select", "grace", "returned"}
    /\ answer \in Answers
    /\ maxTimer \in Timers /\ grace \in Timers /\ own \in Timers
    /\ worker \in {"spawned", "checking", "calling", "logging", "handing", "ended"}
    /\ called \in BOOLEAN
    /\ msg \in Results \cup {"none"}
    /\ resultCh \in Seq(Results)
    /\ cancelled \in BOOLEAN /\ crashed \in BOOLEAN

Init ==
    /\ kind \in Kinds /\ limited \in BOOLEAN
    /\ run = "select" /\ answer = "none"
    /\ maxTimer = (IF limited THEN "ticking" ELSE "off")
    /\ grace = "off"
    /\ worker = "spawned" /\ own = "off" /\ called = FALSE /\ msg = "none"
    /\ resultCh = <<>>
    /\ cancelled = FALSE /\ crashed = FALSE

-----------------------------------------------------------------------------
(* The worker. *)

\* Faulty: the result is sent before it is filled in.
MutHandOver(result) == worker' = "handing" /\ msg' = "none"

HandOver(result) ==
    /\ worker' = "handing"
    /\ msg' = result

\* The goroutine starts.  An endpoint is triggered without a look at the
\* context; a LoggingJob has a timer in any case, of zero without a limit.
StartWork ==
    /\ worker = "spawned"
    /\ CASE kind = "endpoint" -> worker' = "calling" /\ UNCHANGED own
         [] kind = "logging"  -> worker' = "logging" /\ own' = "ticking"
         [] OTHER -> /\ worker' = "checking"
                     /\ own' = IF limited THEN "ticking" ELSE "off"
    /\ called' = (kind \in {"endpoint", "logging"})
    /\ UNCHANGED <<jobVars, runVars, msg, resultCh, cancelled, crashed>>

\* scheduledRun does not begin if the context or its timer is done.
GiveUp ==
    /\ worker = "checking"
    /\ \/ cancelled /\ HandOver("interrupted")
       \/ own = "fired" /\ HandOver("unexecuted")
    /\ UNCHANGED <<jobVars, runVars, own, called, resultCh, cancelled, crashed>>

Call ==
    /\ worker = "checking"
    /\ ~cancelled /\ own # "fired"
    /\ IF kind = "nothing"
         THEN crashed' = TRUE /\ UNCHANGED <<worker, called>>
         ELSE worker' = "calling" /\ called' = TRUE /\ UNCHANGED crashed
    /\ UNCHANGED <<jobVars, runVars, own, msg, resultCh, cancelled>>

\* The function or the request returns; nobody can make it.
CallReturns ==
    /\ worker = "calling"
    /\ \E result \in {"done", "error"} : HandOver(result)
    /\ UNCHANGED <<jobVars, runVars, own, called, resultCh, cancelled, crashed>>

\* loggingWork leaves its loop.
StopLogging ==
    /\ worker = "logging"
    /\ \/ cancelled /\ HandOver("interrupted")
       \/ own = "fired" /\ HandOver("done")
    /\ UNCHANGED <<jobVars, runVars, own, called, resultCh, cancelled, crashed>>

\* Faulty: the channel has no buffer.
MutNoBuffer == run # "returned" /\ resultCh = <<>>

Room == Len(resultCh) < 1

Send ==
    /\ worker = "handing"
    /\ Room
    /\ resultCh' = Append(resultCh, msg)
    /\ worker' = "ended"
    /\ UNCHANGED <<jobVars, runVars, own, called, msg, cancelled, crashed>>

-----------------------------------------------------------------------------
(* Run. *)

Return(what) == run' = "returned" /\ answer' = what

OnCancel ==
    /\ run = "select" /\ cancelled
    /\ Return("canceled")
    /\ UNCHANGED <<jobVars, maxTimer, grace, workerVars, resultCh, cancelled, crashed>>

\* Faulty: Run returns at the limit as if the work were done.
MutNoGrace == Return("done") /\ UNCHANGED grace

GoOnWaiting == run' = "grace" /\ grace' = "ticking" /\ UNCHANGED answer

OnLimit ==
    /\ run = "select" /\ maxTimer = "fired"
    /\ GoOnWaiting
    /\ UNCHANGED <<jobVars, maxTimer, workerVars, resultCh, cancelled, crashed>>

OnResult ==
    /\ run \in {"select", "grace"} /\ resultCh # <<>>
    /\ Return(Head(resultCh))
    /\ resultCh' = Tail(resultCh)
    /\ UNCHANGED <<jobVars, maxTimer, grace, workerVars, cancelled, crashed>>

\* Faulty: the inner select waits for the result alone.
MutNoGraceEnd == FALSE

GraceEnded == grace = "fired"

\* The inner select looks at neither the context nor the worker.
OnGraceEnd ==
    /\ run = "grace" /\ GraceEnded
    /\ Return("overdue")
    /\ UNCHANGED <<jobVars, maxTimer, grace, workerVars, resultCh, cancelled, crashed>>

-----------------------------------------------------------------------------
(* The context and the timers; Run's timer is stopped when it returns. *)

Cancel ==
    /\ cancelled' = TRUE
    /\ UNCHANGED <<jobVars, runVars, workerVars, resultCh, crashed>>

MaxTimerFires ==
    /\ run = "select" /\ maxTimer = "ticking"
    /\ maxTimer' = "fired"
    /\ UNCHANGED <<jobVars, run, answer, grace, workerVars, resultCh, cancelled, crashed>>

GraceFires ==
    /\ run = "grace" /\ grace = "ticking"
    /\ grace' = "fired"
    /\ UNCHANGED <<jobVars, run, answer, maxTimer, workerVars, resultCh, cancelled, crashed>>

OwnFires ==
    /\ worker \in {"checking", "logging"} /\ own = "ticking"
    /\ own' = "fired"
    /\ UNCHANGED <<jobVars, runVars, worker, called, msg, resultCh, cancelled, crashed>>

-----------------------------------------------------------------------------

RunStep == OnCancel \/ OnLimit \/ OnResult \/ OnGraceEnd
WorkerStep == StartWork \/ GiveUp \/ Call \/ StopLogging \/ Send
TimerStep == MaxTimerFires \/ GraceFires \/ OwnFires

Next == ~crashed /\ (RunStep \/ WorkerStep \/ CallReturns \/ TimerStep \/ Cancel)

\* Goroutines and timers go on; that the work returns is not assumed.
Spec ==
    /\ Init /\ [][Next]_vars
    /\ WF_vars(~crashed /\ RunStep)
    /\ WF_vars(~crashed /\ WorkerStep)
    /\ WF_vars(~crashed /\ MaxTimerFires) /\ WF_vars(~crashed /\ GraceFires)
    /\ WF_vars(~crashed /\ OwnFires)

-----------------------------------------------------------------------------

Contract == INSTANCE JobContract WITH returned <- run = "returned" \/ crashed

\* Run keeps the contract of JobContract though the work may never return and
\* though a cancellation in the grace period is not looked at.
ContractKept == Contract!Spec

\* The manager's verdict on an answer (executeJob).
Outcome == IF answer \in Errors THEN "failed" ELSE "complete"

\* An execution is recorded as complete only if its work has been done without
\* an error, or its time was up before the function could be called.
CompleteIsTrue ==
    run = "returned" /\ Outcome = "complete" =>
        /\ worker = "ended"
        /\ \/ called /\ msg = "done"
           \/ own = "fired" /\ msg = "unexecuted"

\* Only an execution that is reported as canceled or as overdue leaves a worker
\* behind: after any other answer the job has no goroutine left.
NoStrayWork ==
    run = "returned" /\ answer \notin {"canceled", "overdue"} => worker = "ended"

\* A worker that has finished its work ends, when Run has long returned too: no
\* goroutine is left blocked on the result.
WorkerEnds == worker = "handing" ~> worker = "ended"

=============================================================================
