---------------------------- MODULE JobRunProofs ----------------------------
(***************************************************************************)
(* Proofs about JobRun.  It has no constants; the theorems hold for runs   *)
(* of any length, and the last one is the step simulation of JobContract.  *)
(***************************************************************************)
EXTENDS JobRun, TLAPS

\* The channel holds nothing but the one result of a worker that has ended.
ChannelInv ==
    /\ Len(resultCh) <= 1
    /\ resultCh # <<>> => worker = "ended" /\ resultCh = <<msg>>

\* What the worker has to say is known once it has stopped working, and is true.
WorkInv ==
    /\ worker \in {"handing", "ended"} => msg \in Results
    /\ worker \in {"spawned", "checking", "calling", "logging"} => msg = "none"
    /\ worker \in {"calling", "logging"} => called
    /\ msg = "done" => called
    /\ msg = "unexecuted" => own = "fired"

\* Run has returned what the worker handed over, or one of its own two answers.
AnswerInv ==
    IF run = "returned"
      THEN answer \in {"canceled", "overdue"} \/ (worker = "ended" /\ answer = msg)
      ELSE answer = "none"

IInv == TypeOK /\ ChannelInv /\ WorkInv /\ AnswerInv

-----------------------------------------------------------------------------

\* The result that Run takes from the channel.
LEMMA TakenResult ==
    ASSUME TypeOK, ChannelInv, resultCh # <<>>
    PROVE  Head(resultCh) = msg /\ Tail(resultCh) = <<>> /\ worker = "ended" /\ msg \in Results
PROOF BY DEF TypeOK, ChannelInv

LEMMA SentResult ==
    ASSUME TypeOK, Send
    PROVE  resultCh = <<>> /\ resultCh' = <<msg>>
PROOF
  <1>1. resultCh \in Seq(Results) /\ Len(resultCh) = 0
    BY DEF TypeOK, Send, Room
  <1>2. resultCh = <<>>
    BY <1>1
  <1> QED
    BY <1>2 DEF Send

LEMMA StepHolds == IInv /\ [Next]_vars => IInv'
PROOF
  <1> SUFFICES ASSUME IInv, [Next]_vars PROVE IInv'
    OBVIOUS
  <1> USE DEF IInv, TypeOK, WorkInv, AnswerInv, Kinds, Results, Answers, Timers,
              jobVars, runVars, workerVars
  <1>1. CASE StartWork
    <2>1. /\ worker = "spawned" /\ worker' \in {"calling", "logging", "checking"}
          /\ own' \in Timers
          /\ worker' \in {"calling", "logging"} => kind \in {"endpoint", "logging"}
      BY <1>1 DEF StartWork
    <2>2. called' \in BOOLEAN /\ (kind \in {"endpoint", "logging"} => called')
      <3> DEFINE straight == kind \in {"endpoint", "logging"}
      <3>1. called' = straight
        BY <1>1 DEF StartWork
      <3>2. straight \in BOOLEAN
        OBVIOUS
      <3> HIDE DEF straight
      <3>3. called' \in BOOLEAN /\ (straight => called')
        BY <3>1, <3>2, Zenon
      <3> QED
        BY <3>3 DEF straight
    <2>3. /\ msg = "none" /\ msg' = "none" /\ resultCh = <<>>
          /\ UNCHANGED <<jobVars, runVars, resultCh, cancelled, crashed>>
      BY <1>1, <2>1 DEF StartWork, ChannelInv
    <2> QED
      BY <2>1, <2>2, <2>3 DEF ChannelInv
  <1>2. CASE GiveUp
    BY <1>2 DEF GiveUp, HandOver, ChannelInv
  <1>3. CASE Call
    <2>1. /\ worker = "checking" /\ worker' \in {"checking", "calling"}
          /\ called' \in BOOLEAN /\ (worker' = "calling" => called') /\ crashed' \in BOOLEAN
          /\ UNCHANGED <<jobVars, runVars, own, msg, resultCh, cancelled>>
      BY <1>3 DEF Call
    <2> QED
      BY <2>1 DEF ChannelInv
  <1>4. CASE CallReturns
    BY <1>4 DEF CallReturns, HandOver, ChannelInv
  <1>5. CASE StopLogging
    BY <1>5 DEF StopLogging, HandOver, ChannelInv
  <1>6. CASE Send
    <2>1. msg \in Results /\ resultCh' = <<msg>> /\ worker' = "ended"
      BY <1>6, SentResult DEF Send
    <2>2. resultCh' \in Seq(Results) /\ ChannelInv'
      BY <1>6, <2>1 DEF Send, ChannelInv
    <2> QED
      BY <1>6, <2>1, <2>2 DEF Send
  <1>7. CASE OnResult
    <2>1. answer' = msg /\ resultCh' = <<>> /\ worker = "ended" /\ msg \in Results
      BY <1>7, TakenResult DEF OnResult, Return
    <2>2. resultCh' \in Seq(Results) /\ ChannelInv'
      BY <2>1 DEF ChannelInv
    <2> QED
      BY <1>7, <2>1, <2>2 DEF OnResult, Return
  <1>8. CASE OnCancel \/ OnLimit \/ OnGraceEnd
    BY <1>8 DEF OnCancel, OnLimit, OnGraceEnd, GoOnWaiting, Return, ChannelInv
  <1>9. CASE TimerStep
    BY <1>9 DEF TimerStep, MaxTimerFires, GraceFires, OwnFires, ChannelInv
  <1>10. CASE Cancel \/ UNCHANGED vars
    <2>1. cancelled' \in BOOLEAN
      BY <1>10 DEF Cancel, vars
    <2> QED
      BY <1>10, <2>1 DEF Cancel, vars, ChannelInv
  <1> QED
    BY <1>1, <1>2, <1>3, <1>4, <1>5, <1>6, <1>7, <1>8, <1>9, <1>10 DEF Next, RunStep, WorkerStep

LEMMA InitHolds == Init => IInv
PROOF
  <1> SUFFICES ASSUME Init PROVE IInv
    OBVIOUS
  <1>1. resultCh \in Seq(Results) /\ ChannelInv
    BY DEF Init, ChannelInv
  <1>2. maxTimer \in Timers /\ called \in BOOLEAN /\ cancelled \in BOOLEAN /\ crashed \in BOOLEAN
    BY DEF Init, Timers
  <1> QED
    BY <1>1, <1>2 DEF Init, IInv, TypeOK, WorkInv, AnswerInv, Answers, Timers

\* The inductive invariant: what worker, channel and answer know of each other.
THEOREM RunInvariant == Spec => []IInv
PROOF BY InitHolds, StepHolds, PTL DEF Spec

\* The variables keep their types; the channel holds results only.
THEOREM RunTypeCorrect == Spec => []TypeOK
PROOF
  <1>1. IInv => TypeOK
    BY DEF IInv
  <1> QED
    BY RunInvariant, <1>1, PTL

\* What the manager records as complete has been done without an error, or its
\* time was up before it could begin, whatever raced with it.
THEOREM CompleteCorrect == Spec => []CompleteIsTrue
PROOF
  <1>1. IInv => CompleteIsTrue
    BY DEF IInv, TypeOK, WorkInv, AnswerInv, CompleteIsTrue, Outcome, Errors, Results, Answers
  <1> QED
    BY RunInvariant, <1>1, PTL

\* Run leaves a worker behind only when it answers canceled or overdue.
THEOREM NoStrayCorrect == Spec => []NoStrayWork
PROOF
  <1>1. IInv => NoStrayWork
    BY DEF IInv, AnswerInv, NoStrayWork
  <1> QED
    BY RunInvariant, <1>1, PTL

-----------------------------------------------------------------------------

\* The safety part of ContractKept: Run starts as the contract says, returns at
\* most once, and changes nothing else that the manager sees.
THEOREM RunKeepsContract == Spec => Contract!Init /\ [][Contract!Cancel \/ Contract!Return]_(Contract!vars)
PROOF
  <1>1. Init => Contract!Init
    BY DEF Init, Contract!Init
  <1>2. [Next]_vars => [Contract!Cancel \/ Contract!Return]_(Contract!vars)
    <2> SUFFICES ASSUME [Next]_vars
                 PROVE  [Contract!Cancel \/ Contract!Return]_(Contract!vars)
      OBVIOUS
    <2> USE DEF Contract!Cancel, Contract!Return, Contract!vars, jobVars, runVars, workerVars
    <2>1. CASE Cancel /\ ~crashed
      BY <2>1 DEF Cancel
    <2>2. CASE RunStep /\ ~crashed
      BY <2>2 DEF RunStep, OnCancel, OnLimit, OnResult, OnGraceEnd, GoOnWaiting, Return
    <2>3. CASE WorkerStep /\ ~crashed
      BY <2>3 DEF WorkerStep, StartWork, GiveUp, Call, StopLogging, Send
    <2>4. CASE CallReturns \/ TimerStep \/ UNCHANGED vars
      BY <2>4 DEF CallReturns, TimerStep, MaxTimerFires, GraceFires, OwnFires, vars
    <2> HIDE DEF Contract!Cancel, Contract!Return, Contract!vars, jobVars, runVars, workerVars
    <2> QED
      BY <2>1, <2>2, <2>3, <2>4 DEF Next
  <1> QED
    BY <1>1, <1>2, PTL DEF Spec

=============================================================================
