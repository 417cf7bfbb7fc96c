------------------------------ MODULE Lifecycle ------------------------------
(***************************************************************************)
(* The life of the process around the job manager (main.go, jobpro/init.go *)
(* and register.go, shutdown/service.go): opening the store, loading the   *)
(* jobs the backend defines, the shutdown service with its hooks, the end  *)
(* of the process, and the next life on the same file.                     *)
(*                                                                         *)
(* The manager appears as what JobManager is proved to implement: the      *)
(* ledger of its executions (RunLedger), whose phase is the progress of    *)
(* JobMgr.Shutdown.                                                        *)
(***************************************************************************)
EXTENDS Integers, Sequences

CONSTANTS
    Ids,           \* job ids the backend may define
    AutoStart,     \* those it defines with AutoStart
    NoJob,
    Runs,          \* the executions of one life
    Manager,       \* the manager's hook
    Conns,         \* event-stream connections, and their hooks
    MaxConfigs,    \* bound: definitions in one answer of the backend
    MaxLives,      \* bound: lives of the process
    MayFail        \* may a definition be bad, and a call of the open store fail

ASSUME IdsAssumption == AutoStart \subseteq Ids /\ NoJob \notin Ids
ASSUME HooksAssumption == Manager \notin Conns
ASSUME CountsAssumption == MaxConfigs \in Nat /\ MaxLives \in Nat
ASSUME FailureAssumption == MayFail \in BOOLEAN

Hooks == Conns \cup {Manager}

\* What the backend may answer: the order counts, and an id may come twice.
Answers == UNION {[1..n -> Ids] : n \in 0..MaxConfigs}

VARIABLES
    main,      \* where main is; "off": there is no process
    exit,      \* how the last process ended
    lives,
    defined,   \* ids in this life's answer of the backend
    todo,      \* definitions LoadJobs has not set up yet
    starting,  \* the job setupJob has set up and is about to start
    loaded,    \* m.jobs
    started,   \* jobs whose row this life has claimed, deleted ones included
    rows,      \* table jobs, which survives: "claimed" is scheduled or running
    service,   \* the shutdown service
    hook,      \* each hook; "late": registered after the hooks were fired
    gaveUp,    \* the service's grace period ended first
    phase, active, finished, overdue, crashed   \* the manager's ledger

mainVars   == <<main, exit, lives>>
loadVars   == <<defined, todo, starting, loaded, started, rows>>
hookVars   == <<service, hook, gaveUp>>
ledgerVars == <<phase, active, finished, overdue, crashed>>
vars       == <<mainVars, loadVars, hookVars, ledgerVars>>

Ledger == INSTANCE RunLedger

Alive == main # "off"

TypeOK ==
    /\ main \in {"off", "opening", "headstart", "loading", "ready"}
    /\ exit \in {"none", "clean", "failed", "killed"}
    /\ lives \in 0..MaxLives
    /\ defined \subseteq Ids
    /\ todo \in Seq(Ids)
    /\ starting \in Ids \cup {NoJob}
    /\ loaded \subseteq Ids /\ started \subseteq Ids
    /\ rows \in [Ids -> {"absent", "created", "claimed", "settled"}]
    /\ service \in {"waiting", "holding", "done"}
    /\ hook \in [Hooks -> {"none", "registered", "late", "fired", "returned"}]
    /\ gaveUp \in BOOLEAN
    /\ phase \in {"open", "draining", "closing", "stopped"}
    /\ active \subseteq Runs /\ finished \subseteq Runs
    /\ overdue \in BOOLEAN /\ crashed \in BOOLEAN

Init ==
    /\ main = "off" /\ exit = "none" /\ lives = 0
    /\ defined = {} /\ todo = <<>> /\ starting = NoJob
    /\ loaded = {} /\ started = {}
    /\ rows = [j \in Ids |-> "absent"]
    /\ service = "waiting"
    /\ hook = [h \in Hooks |-> "none"]
    /\ gaveUp = FALSE
    /\ Ledger!Init

-----------------------------------------------------------------------------
(* main *)

\* InitShutdownService comes first, then jobpro.Init.  All but the file is new.
Boot ==
    /\ ~Alive /\ lives < MaxLives
    /\ main' = "opening" /\ lives' = lives + 1 /\ exit' = "none"
    /\ defined' = {} /\ todo' = <<>> /\ starting' = NoJob
    /\ loaded' = {} /\ started' = {} /\ rows' = rows
    /\ service' = "waiting"
    /\ hook' = [h \in Hooks |-> "none"]
    /\ gaveUp' = FALSE
    /\ phase' = "open" /\ active' = {} /\ finished' = {}
    /\ overdue' = FALSE /\ crashed' = FALSE

\* The process ends, whatever its goroutines are doing.
Die(how) ==
    /\ main' = "off" /\ exit' = how
    /\ UNCHANGED <<lives, loadVars, hookVars>>

\* RegisterHook appends to a slice that the service reads once.
Registered == IF service = "waiting" THEN "registered" ELSE "late"

\* The store is open and the manager's hook registered; the web server starts.
OpenStore ==
    /\ main = "opening"
    /\ main' = "headstart"
    /\ hook' = [hook EXCEPT ![Manager] = Registered]
    /\ UNCHANGED <<exit, lives, loadVars, service, gaveUp, ledgerVars>>

\* The backend has answered.
FetchConfigs ==
    /\ main = "headstart"
    /\ main' = "loading"
    /\ \E answer \in Answers :
         /\ todo' = answer
         /\ defined' = {answer[i] : i \in DOMAIN answer}
    /\ UNCHANGED <<exit, lives, starting, loaded, started, rows, hookVars, ledgerVars>>

\* os.Exit(1): the store does not open.
OpenFails ==
    /\ main = "opening"
    /\ Die("failed")
    /\ UNCHANGED ledgerVars

\* os.Exit(1): the backend refuses, or its answer is no use.
FetchFails ==
    /\ main = "headstart"
    /\ Die("failed")
    /\ UNCHANGED ledgerVars

\* Faulty: the row of an earlier life is left as it is.
MutRowStays(j) == IF rows[j] = "absent" THEN "created" ELSE rows[j]
\* Faulty: the row is saved before its status is set.
MutNoStatus(j) == ""

\* SaveJob's upsert writes the status SetupJob gives it.
SavedRow(j) == "created"

NextConfig == main = "loading" /\ starting = NoJob /\ todo # <<>>

\* SetupJob of the next definition.
SetUpNext ==
    /\ NextConfig
    /\ phase = "open"
    /\ Head(todo) \notin loaded
    /\ rows' = [rows EXCEPT ![Head(todo)] = SavedRow(Head(todo))]
    /\ loaded' = loaded \cup {Head(todo)}
    /\ todo' = Tail(todo)
    /\ starting' = IF Head(todo) \in AutoStart THEN Head(todo) ELSE NoJob
    /\ UNCHANGED <<mainVars, defined, started, hookVars, ledgerVars>>

\* SetupJob refuses: the manager shuts down, the id is there already, or the
\* definition is bad.  LoadJobs gives up, and main with it: os.Exit(1).
SetUpFails ==
    /\ NextConfig
    /\ phase # "open" \/ Head(todo) \in loaded \/ MayFail
    /\ Die("failed")
    /\ UNCHANGED ledgerVars

\* StartJob writes the status of a job that the manager has; it may still fail
\* behind that.
Start(j) ==
    /\ phase = "open" /\ j \in loaded
    /\ rows' = [rows EXCEPT ![j] = "claimed"]
    /\ started' = started \cup {j}

\* setupJob only logs an error of StartJob.
AutoStartNext ==
    /\ starting # NoJob
    /\ main = "loading"
    /\ starting' = NoJob
    /\ \/ Start(starting)
       \/ /\ phase # "open" \/ starting \notin loaded \/ MayFail
          /\ UNCHANGED <<rows, started>>
    /\ UNCHANGED <<mainVars, defined, todo, loaded, hookVars, ledgerVars>>

AllLoaded ==
    /\ main = "loading" /\ starting = NoJob /\ todo = <<>>
    /\ main' = "ready"
    /\ UNCHANGED <<exit, lives, loadVars, hookVars, ledgerVars>>

\* `<-done`: main returns, and the process ends.
MainReturns ==
    /\ main = "ready" /\ service = "done"
    /\ Die("clean")
    /\ UNCHANGED ledgerVars

-----------------------------------------------------------------------------
(* Web requests and the manager's executions. *)

WebUp == main \in {"headstart", "loading", "ready"}

Connect(c) ==
    /\ WebUp
    /\ hook[c] = "none"
    /\ hook' = [hook EXCEPT ![c] = Registered]
    /\ UNCHANGED <<mainVars, loadVars, service, gaveUp, ledgerVars>>

\* A request starts or resumes a loaded job, or deletes it; DeleteJob works on
\* when the manager shuts down, and takes the job out of m.jobs even if the store
\* then fails to remove the row.
Operate(j) ==
    /\ WebUp
    /\ \/ Start(j) /\ UNCHANGED loaded
       \/ /\ j \in loaded
          /\ loaded' = loaded \ {j}
          /\ \/ phase # "stopped" /\ rows' = [rows EXCEPT ![j] = "absent"]
             \/ (phase = "stopped" \/ MayFail) /\ rows' = rows
          /\ UNCHANGED started
    /\ UNCHANGED <<mainVars, defined, todo, starting, hookVars, ledgerVars>>

\* A result or a request ends what the row of j claims.
Settle(j) ==
    /\ Alive /\ phase # "stopped"
    /\ j \in started /\ rows[j] = "claimed"
    /\ rows' = [rows EXCEPT ![j] = "settled"]
    /\ UNCHANGED <<mainVars, defined, todo, starting, loaded, started, hookVars,
                   ledgerVars>>

BeginRun(r) ==
    /\ Alive /\ loaded # {}
    /\ Ledger!Begin(r)
    /\ UNCHANGED <<mainVars, loadVars, hookVars>>

FinishRun(r) ==
    /\ Alive
    /\ Ledger!Finish(r)
    /\ UNCHANGED <<mainVars, loadVars, hookVars>>

\* A result comes after the channel was closed: the sender panics.
LateResult ==
    /\ Alive /\ phase \in {"closing", "stopped"}
    /\ active # {}
    /\ crashed' = TRUE
    /\ Die("killed")
    /\ UNCHANGED <<phase, active, finished, overdue>>

\* kill -9, a panic in a job, the power.
Kill ==
    /\ Alive
    /\ Die("killed")
    /\ UNCHANGED ledgerVars

-----------------------------------------------------------------------------
(* The shutdown service. *)

\* Faulty: the goroutines share one loop variable.
MutLastHook(h) == hook[h] = "registered" /\ (h = Manager => \A c \in Conns : hook[c] # "registered")

Fires(h) == hook[h] = "registered"

\* A signal arrives: every hook registered by now runs in a goroutine of its own.
FireHooks ==
    /\ Alive /\ service = "waiting"
    /\ service' = "holding"
    /\ hook' = [h \in Hooks |-> IF Fires(h) THEN "fired" ELSE hook[h]]
    /\ UNCHANGED <<mainVars, loadVars, gaveUp, ledgerVars>>

\* The manager's hook is JobMgr.Shutdown.
DrainManager ==
    /\ Alive /\ hook[Manager] = "fired"
    /\ Ledger!Drain \/ Ledger!Close
    /\ UNCHANGED <<mainVars, loadVars, hookVars>>

StopManager ==
    /\ Alive /\ hook[Manager] = "fired"
    /\ Ledger!Stop
    /\ hook' = [hook EXCEPT ![Manager] = "returned"]
    /\ UNCHANGED <<mainVars, loadVars, service, gaveUp>>

CloseConn(c) ==
    /\ Alive /\ hook[c] = "fired"
    /\ hook' = [hook EXCEPT ![c] = "returned"]
    /\ UNCHANGED <<mainVars, loadVars, service, gaveUp, ledgerVars>>

\* Faulty: wg.Add is forgotten; the service waits without a limit.
MutNoWait == TRUE
MutNoLimit == FALSE

\* wg.Wait of the service returns.
AllReturned == \A h \in Hooks : hook[h] # "fired"

\* time.After(gracePeriod), the same period the manager is given.
GraceOver == gaveUp' = TRUE

ServiceDone ==
    /\ Alive /\ service = "holding"
    /\ service' = "done"
    /\ (AllReturned /\ UNCHANGED gaveUp) \/ GraceOver
    /\ UNCHANGED <<mainVars, loadVars, hook, ledgerVars>>

-----------------------------------------------------------------------------

\* What main does by itself, and what it waits for the backend to answer.
MainWork ==
    \/ OpenStore \/ OpenFails
    \/ SetUpNext \/ SetUpFails \/ AutoStartNext \/ AllLoaded
    \/ MainReturns

BackendAnswers == FetchConfigs \/ FetchFails

Next ==
    \/ Boot
    \/ MainWork \/ BackendAnswers
    \/ \E c \in Conns : Connect(c) \/ CloseConn(c)
    \/ \E j \in Ids : Operate(j) \/ Settle(j)
    \/ \E r \in Runs : BeginRun(r) \/ FinishRun(r)
    \/ LateResult \/ Kill
    \/ FireHooks \/ DrainManager \/ StopManager \/ ServiceDone

\* main and the service run on, but nothing is assumed of the backend: the fetch
\* has no timeout.  Nor of hooks, executions, requests or signals.
Spec == Init /\ [][Next]_vars /\ WF_vars(MainWork) /\ WF_vars(ServiceDone)

-----------------------------------------------------------------------------

\* A process that leaves through `<-done`, after a signal that found the
\* manager's hook registered and before any limit of the service, has closed the
\* store, and has cut off no execution unless the manager's own wait timed out.
CleanExitDrained ==
    ~Alive /\ exit = "clean" /\ ~gaveUp /\ hook[Manager] # "late" =>
        /\ phase = "stopped"
        /\ overdue \/ active = {}

\* When the service is done without having given up, every hook that was
\* registered before the signal has returned, however many there are.
HooksAnswered ==
    service = "done" /\ ~gaveUp =>
        \A h \in Hooks : hook[h] \notin {"registered", "fired"}

\* A row says scheduled or running on the word of this life only, through
\* crashes and restarts: once its job is loaded, and when main has dealt with all
\* that the backend defines also for a job whose row a failed delete has left.
ClaimsAreOfThisLife ==
    Alive =>
        /\ \A j \in loaded : rows[j] = "claimed" => j \in started
        /\ main = "ready" => \A j \in defined : rows[j] = "claimed" => j \in started

\* A signal ends the process even if a hook never returns, whatever main is doing
\* when it comes but one thing: waiting for the backend's answer.
SignalEnds == Alive /\ service # "waiting" ~> ~Alive \/ main = "headstart"

\* "The main application automatically handles SIGINT and SIGTERM signals,
\* allowing for graceful shutdown of running jobs": a process that was told to
\* end by a signal, and ended by itself with nobody out of patience, has cut off
\* no execution.
SignalIsGraceful ==
    ~Alive /\ exit \in {"clean", "failed"} /\ service # "waiting" /\ ~gaveUp /\ ~overdue =>
        active = {}

=============================================================================
