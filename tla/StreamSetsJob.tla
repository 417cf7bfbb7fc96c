---------------------------- MODULE StreamSetsJob ----------------------------
(***************************************************************************)
(* The StreamSets plugin: RunJob starts a job of a remote Control Hub and  *)
(* polls it to its end (plugins/streamsets).  The hub is external: it      *)
(* takes a start and acts on it later, an answer of it may be an error or  *)
(* be lost, and others may call RunJob for the same job.                   *)
(***************************************************************************)
EXTENDS Integers, FiniteSets

CONSTANTS
    Callers,         \* calls of RunJob
    ActivePolls,     \* 13 in the code: one every 10 s while waitSeconds <= 120
    CompletionPolls  \* 31 in the code: the same to 300

ASSUME CallersAssumption == IsFiniteSet(Callers)
ASSUME PollsAssumption == ActivePolls \in Nat \ {0} /\ CompletionPolls \in Nat \ {0}

\* The statuses the client tells apart; any other is as good as ACTIVATING.
ActivationErrors == {"INACTIVE_ERROR", "ACTIVATION_ERROR"}
finalStatuses == {"INACTIVE", "FINISHED", "FINISHING", "FINISHED_WITH_ERRORS",
                  "FAILED", "ERROR", "INACTIVE_ERROR"}
Statuses == finalStatuses \cup ActivationErrors \cup {"ACTIVATING", "ACTIVE", "DEACTIVATING"}

\* GRAY and GREEN are good.
Colors == {"good", "bad"}

\* What RunJob returns: nil, or one of its errors.
Answers == {"none", "success", "refused", "activation", "timeout", "failure", "unexpected"}

VARIABLES
    status, color,  \* the remote job
    pending,        \* a start has been taken that the status does not show
    started,        \* remote runs so far, which are numbered
    good,           \* those that ended without an error
    pc, answer,     \* each RunJob
    own,            \* the remote run it started
    polls,          \* polls of the loop it is in
    known           \* lastStatus is not nil

hubVars == <<status, color, pending, started, good>>
vars == <<hubVars, pc, answer, own, polls, known>>

RunIds == 1..Cardinality(Callers)

TypeOK ==
    /\ status \in Statuses /\ color \in Colors
    /\ pending \in BOOLEAN
    /\ started \in 0..Cardinality(Callers)
    /\ good \subseteq RunIds
    /\ pc \in [Callers -> {"finding", "found", "checking", "starting", "activating",
                           "monitoring", "returned", "panicked"}]
    /\ answer \in [Callers -> Answers]
    /\ own \in [Callers -> {0} \cup RunIds]
    /\ polls \in [Callers -> 0..(ActivePolls + CompletionPolls)]
    /\ known \in [Callers -> BOOLEAN]

Init ==
    /\ status \in {"INACTIVE", "ACTIVE"} /\ color \in Colors
    /\ pending = FALSE /\ started = 0 /\ good = {}
    /\ pc = [c \in Callers |-> "finding"]
    /\ answer = [c \in Callers |-> "none"]
    /\ own = [c \in Callers |-> 0]
    /\ polls = [c \in Callers |-> 0]
    /\ known = [c \in Callers |-> FALSE]

-----------------------------------------------------------------------------
(* The hub. *)

Becomes(s) == status' = s /\ UNCHANGED <<pc, answer, own, polls, known>>

Activate ==
    /\ pending
    /\ pending' = FALSE
    /\ Becomes("ACTIVATING")
    /\ UNCHANGED <<color, started, good>>

Activated ==
    /\ status = "ACTIVATING"
    /\ \/ Becomes("ACTIVE") /\ UNCHANGED color
       \/ Becomes("ACTIVATION_ERROR") /\ color' = "bad"
    /\ UNCHANGED <<pending, started, good>>

\* A run ends, at once or by way of DEACTIVATING.
Ended ==
    /\ status \in {"ACTIVE", "DEACTIVATING"}
    /\ \/ status = "ACTIVE" /\ Becomes("DEACTIVATING") /\ UNCHANGED <<color, good>>
       \/ /\ \E s \in {"INACTIVE", "FINISHED", "FINISHING"} : Becomes(s)
          /\ color' = "good" /\ good' = (good \cup {started}) \ {0}
       \/ /\ \E s \in finalStatuses : Becomes(s)
          /\ color' = "bad" /\ UNCHANGED good
    /\ UNCHANGED <<pending, started>>

\* What a run has left behind is acknowledged.
Acknowledged ==
    /\ status \in (finalStatuses \cup ActivationErrors) \ {"INACTIVE"}
    /\ Becomes("INACTIVE")
    /\ UNCHANGED <<color, pending, started, good>>

-----------------------------------------------------------------------------
(* RunJob. *)

Return(c, what) ==
    /\ pc' = [pc EXCEPT ![c] = "returned"]
    /\ answer' = [answer EXCEPT ![c] = what]

\* A question whose answer is of no more interest; it may fail.
Ask(c, at, next) ==
    /\ pc[c] = at
    /\ \/ pc' = [pc EXCEPT ![c] = next] /\ UNCHANGED answer
       \/ Return(c, "refused")
    /\ UNCHANGED <<hubVars, own, polls, known>>

FindJobByName(c) == Ask(c, "finding", "found")
GetJob(c) == Ask(c, "found", "checking")

\* getJobStatus: the job must be inactive.
CheckStatus(c) ==
    /\ pc[c] = "checking"
    /\ \/ /\ status = "INACTIVE"
          /\ pc' = [pc EXCEPT ![c] = "starting"]
          /\ UNCHANGED answer
       \/ Return(c, "refused")
    /\ UNCHANGED <<hubVars, own, polls, known>>

\* startJob.  The hub takes a start of a job that is at rest; the answer may be
\* lost all the same.
StartJob(c) ==
    /\ pc[c] = "starting"
    /\ \/ /\ status = "INACTIVE" /\ ~pending
          /\ pending' = TRUE /\ started' = started + 1
          /\ own' = [own EXCEPT ![c] = started + 1]
          /\ \/ pc' = [pc EXCEPT ![c] = "activating"] /\ UNCHANGED answer
             \/ Return(c, "refused")
       \/ Return(c, "refused") /\ UNCHANGED <<pending, started, own>>
    /\ UNCHANGED <<status, color, good, polls, known>>

\* Faulty: after a poll that failed the waiting starts over.
MutStartsOver(c, failed) == [polls EXCEPT ![c] = IF failed THEN 0 ELSE @ + 1]
\* Faulty: `waitSeconds > Max` is never so.
MutNoLimit(c, limit) == FALSE
\* Faulty: a job that is not running may have completed already.
MutAlsoInactive == {"ACTIVE", "DEACTIVATING", "INACTIVE"}

\* One tick more.
Counted(c, failed) == [polls EXCEPT ![c] = @ + 1]
LastPoll(c, limit) == polls[c] + 1 >= limit
ActiveStatuses == {"ACTIVE", "DEACTIVATING"}

\* One turn of the loop of waitForJobActive; an error of the poll is logged.
WaitForJobActive(c) ==
    /\ pc[c] = "activating"
    /\ \/ /\ status \in ActiveStatuses
          /\ pc' = [pc EXCEPT ![c] = "monitoring"]
          /\ polls' = [polls EXCEPT ![c] = 0]
          /\ UNCHANGED answer
       \/ status \in ActivationErrors /\ Return(c, "activation") /\ UNCHANGED polls
       \/ \E failed \in BOOLEAN :
            /\ failed \/ status \notin ActiveStatuses \cup ActivationErrors
            /\ polls' = Counted(c, failed)
            /\ IF LastPoll(c, ActivePolls) THEN Return(c, "timeout") ELSE UNCHANGED <<pc, answer>>
    /\ UNCHANGED <<hubVars, own, known>>

\* What RunJob makes of the final status.
Verdict ==
    CASE status = "INACTIVE" /\ color = "good" -> "success"
      [] status \notin {"FINISHED", "FINISHING"} /\ color = "bad" -> "failure"
      [] OTHER -> "unexpected"

\* After the last turn monitorJobCompletion returns a timeout, or, if no poll
\* has been answered, neither a status nor an error: RunJob reads its fields.
TimedOut(c, seen) ==
    IF seen THEN Return(c, "timeout")
            ELSE pc' = [pc EXCEPT ![c] = "panicked"] /\ UNCHANGED answer

\* One turn of its loop.
MonitorJobCompletion(c) ==
    /\ pc[c] = "monitoring"
    /\ \/ status \in finalStatuses /\ Return(c, Verdict) /\ UNCHANGED <<polls, known>>
       \/ \E failed \in BOOLEAN :
            /\ failed \/ status \notin finalStatuses
            /\ known' = [known EXCEPT ![c] = @ \/ ~failed]
            /\ polls' = Counted(c, failed)
            /\ IF LastPoll(c, CompletionPolls) THEN TimedOut(c, known'[c])
                                               ELSE UNCHANGED <<pc, answer>>
    /\ UNCHANGED <<hubVars, own>>

-----------------------------------------------------------------------------

RunJob(c) ==
    \/ FindJobByName(c) \/ GetJob(c) \/ CheckStatus(c) \/ StartJob(c)
    \/ WaitForJobActive(c) \/ MonitorJobCompletion(c)

Crashed == \E c \in Callers : pc[c] = "panicked"

Next ==
    /\ ~Crashed
    /\ \/ \E c \in Callers : RunJob(c)
       \/ Activate \/ Activated \/ Ended \/ Acknowledged

\* Every request is answered or times out after 30 s, and the ticker ticks.
\* Nothing is assumed of the hub.
Spec == Init /\ [][Next]_vars /\ \A c \in Callers : WF_vars(~Crashed /\ RunJob(c))

-----------------------------------------------------------------------------

\* RunJob reports a success only if a run has ended without an error that is its
\* own or a later one: never on the word of the run before its own, though the
\* hub shows that one's status and color until it acts on the start.
SuccessIsReal ==
    \A c \in Callers : answer[c] = "success" =>
        own[c] # 0 /\ \E r \in own[c]..started : r \in good

\* RunJob ends, whatever the hub does and however many of its answers fail.
CallEnds == \A c \in Callers : <>(Crashed \/ pc[c] = "returned")

\* "Continue polling instead of failing immediately": failed polls end in an
\* answer of RunJob, at the latest in that of the "Timeout case".
PollsEndInAnswer == \A c \in Callers : pc[c] # "panicked"

=============================================================================
