--------------------------- MODULE LifecycleProofs ---------------------------
(***************************************************************************)
(* Proofs about Lifecycle, for any jobs, executions and connections, any   *)
(* answer of the backend and any number of lives.                          *)
(***************************************************************************)
EXTENDS Lifecycle, TLAPS

\* Where the manager's hook is tells how far Shutdown has come: the ledger of
\* an earlier life is read only before Boot resets it.
HookInv ==
    /\ Alive => exit = "none"
    /\ hook[Manager] \in {"none", "registered", "late"} => phase = "open"
    /\ hook[Manager] = "returned" => phase = "stopped"
    /\ main = "opening" => hook[Manager] = "none"
    /\ main \in {"headstart", "loading", "ready"} => hook[Manager] # "none"
    /\ phase \in {"closing", "stopped"} => overdue \/ active = {}

\* The service has fired all that was registered, and waits for all of it.
ServiceInv ==
    /\ service = "waiting" => \A h \in Hooks : hook[h] \in {"none", "registered"}
    /\ service # "waiting" => \A h \in Hooks : hook[h] # "registered"
    /\ HooksAnswered

\* A row that was claimed in an earlier life has yet to be set up.
RowsInv ==
    /\ \A j \in loaded : rows[j] = "claimed" => j \in started
    /\ main \in {"loading", "ready"} =>
         \A j \in defined \ started :
            rows[j] = "claimed" => main = "loading" /\ \E i \in DOMAIN todo : todo[i] = j

IInv == TypeOK /\ HookInv /\ ServiceInv /\ CleanExitDrained /\ RowsInv

-----------------------------------------------------------------------------

LEMMA ManagerIsHook == Manager \in Hooks
PROOF BY DEF Hooks

LEMMA TypeStep == TypeOK /\ [Next]_vars => TypeOK'
PROOF
  <1> SUFFICES ASSUME TypeOK, [Next]_vars PROVE TypeOK'
    OBVIOUS
  <1> USE DEF TypeOK, Alive, Die
  <1>1. CASE Boot
    <2>1. lives' \in 0..MaxLives
      BY <1>1, CountsAssumption DEF Boot
    <2>2. <<>> \in Seq(Ids)
      OBVIOUS
    <2>3. rows' \in [Ids -> {"absent", "created", "claimed", "settled"}]
      BY <1>1 DEF Boot
    <2>4. hook' \in [Hooks -> {"none", "registered", "late", "fired", "returned"}]
      BY <1>1 DEF Boot
    <2> QED
      BY <1>1, <2>1, <2>2, <2>3, <2>4 DEF Boot
  <1>2. CASE OpenStore
    BY <1>2, ManagerIsHook DEF OpenStore, Registered, loadVars, ledgerVars
  <1>3. CASE FetchConfigs
    <2>1. PICK answer \in Answers :
            todo' = answer /\ defined' = {answer[i] : i \in DOMAIN answer}
      BY <1>3 DEF FetchConfigs
    <2>2. PICK n \in 0..MaxConfigs : answer \in [1..n -> Ids]
      BY DEF Answers
    <2>3. answer \in Seq(Ids)
      BY <2>2, CountsAssumption
    <2>4. defined' \subseteq Ids
      BY <2>1, <2>2
    <2> QED
      BY <1>3, <2>1, <2>3, <2>4 DEF FetchConfigs, hookVars, ledgerVars
  <1>4. CASE OpenFails \/ FetchFails
    BY <1>4 DEF OpenFails, FetchFails, loadVars, hookVars, ledgerVars
  <1>5. CASE SetUpNext
    <2>1. Head(todo) \in Ids /\ Tail(todo) \in Seq(Ids)
      BY <1>5 DEF SetUpNext, NextConfig
    <2> QED
      BY <1>5, <2>1 DEF SetUpNext, NextConfig, SavedRow, mainVars, hookVars, ledgerVars
  <1>6. CASE SetUpFails
    BY <1>6 DEF SetUpFails, loadVars, hookVars, ledgerVars
  <1>7. CASE AutoStartNext
    BY <1>7 DEF AutoStartNext, Start, mainVars, hookVars, ledgerVars
  <1>8. CASE AllLoaded
    BY <1>8 DEF AllLoaded, loadVars, hookVars, ledgerVars
  <1>9. CASE MainReturns
    BY <1>9 DEF MainReturns, loadVars, hookVars, ledgerVars
  <1>10. ASSUME NEW c \in Conns, Connect(c) \/ CloseConn(c) PROVE TypeOK'
    BY <1>10 DEF Connect, CloseConn, Registered, Hooks, mainVars, loadVars, ledgerVars
  <1>11. ASSUME NEW j \in Ids, Operate(j) PROVE TypeOK'
    BY <1>11 DEF Operate, Start, mainVars, hookVars, ledgerVars
  <1>12. ASSUME NEW j \in Ids, Settle(j) PROVE TypeOK'
    BY <1>12 DEF Settle, mainVars, hookVars, ledgerVars
  <1>13. ASSUME NEW r \in Runs, BeginRun(r) \/ FinishRun(r) PROVE TypeOK'
    BY <1>13 DEF BeginRun, FinishRun, Ledger!Begin, Ledger!Finish, mainVars, loadVars, hookVars
  <1>14. CASE LateResult \/ Kill
    BY <1>14 DEF LateResult, Kill, loadVars, hookVars, ledgerVars
  <1>15. CASE FireHooks
    BY <1>15 DEF FireHooks, Fires, mainVars, loadVars, ledgerVars
  <1>16. CASE DrainManager
    <2>1. /\ phase' \in {"draining", "closing"} /\ overdue' \in BOOLEAN
          /\ UNCHANGED <<active, finished, crashed>>
      BY <1>16 DEF DrainManager, Ledger!Drain, Ledger!Close
    <2>2. UNCHANGED <<mainVars, loadVars, hookVars>>
      BY <1>16 DEF DrainManager
    <2> QED
      BY <2>1, <2>2 DEF mainVars, loadVars, hookVars
  <1>17. CASE StopManager
    BY <1>17, ManagerIsHook DEF StopManager, Ledger!Stop, mainVars, loadVars
  <1>18. CASE ServiceDone
    <2>1. service' = "done" /\ gaveUp' \in BOOLEAN
      BY <1>18 DEF ServiceDone, GraceOver
    <2>2. UNCHANGED <<mainVars, loadVars, hook, ledgerVars>>
      BY <1>18 DEF ServiceDone
    <2> QED
      BY <2>1, <2>2 DEF mainVars, loadVars, ledgerVars
  <1>19. CASE UNCHANGED vars
    BY <1>19 DEF vars, mainVars, loadVars, hookVars, ledgerVars
  <1> QED
    BY <1>1, <1>2, <1>3, <1>4, <1>5, <1>6, <1>7, <1>8, <1>9, <1>10, <1>11, <1>12,
       <1>13, <1>14, <1>15, <1>16, <1>17, <1>18, <1>19 DEF Next, MainWork, BackendAnswers

-----------------------------------------------------------------------------
(* The manager's hook and the ledger. *)

LEMMA HookStep == TypeOK /\ HookInv /\ ServiceInv /\ [Next]_vars => HookInv'
PROOF
  <1> SUFFICES ASSUME TypeOK, HookInv, ServiceInv, [Next]_vars PROVE HookInv'
    OBVIOUS
  <1> USE ManagerIsHook DEF HookInv, Alive, Die
  <1>1. CASE Boot
    BY <1>1 DEF Boot
  <1>2. CASE OpenStore
    BY <1>2 DEF OpenStore, Registered, TypeOK, ledgerVars
  <1>3. CASE FetchConfigs \/ OpenFails \/ FetchFails \/ SetUpNext \/ SetUpFails \/ AutoStartNext
             \/ AllLoaded \/ MainReturns
    BY <1>3 DEF FetchConfigs, OpenFails, FetchFails, SetUpNext, NextConfig, SetUpFails, AutoStartNext,
                AllLoaded, MainReturns, mainVars, loadVars, hookVars, ledgerVars
  <1>4. ASSUME NEW c \in Conns, Connect(c) \/ CloseConn(c) PROVE HookInv'
    <2>1. hook'[Manager] = hook[Manager]
      BY <1>4, HooksAssumption DEF Connect, CloseConn, TypeOK
    <2> QED
      BY <1>4, <2>1 DEF Connect, CloseConn, mainVars, ledgerVars
  <1>5. ASSUME NEW j \in Ids, Operate(j) \/ Settle(j) PROVE HookInv'
    BY <1>5 DEF Operate, Settle, mainVars, hookVars, ledgerVars
  <1>6. ASSUME NEW r \in Runs, BeginRun(r) \/ FinishRun(r) PROVE HookInv'
    BY <1>6 DEF BeginRun, FinishRun, Ledger!Begin, Ledger!Finish, mainVars, hookVars
  <1>7. CASE LateResult \/ Kill
    BY <1>7 DEF LateResult, Kill, loadVars, hookVars, ledgerVars
  <1>8. CASE FireHooks
    <2>1. hook'[Manager] \in {"fired", "none"} /\ (hook'[Manager] = "none" <=> hook[Manager] = "none")
      BY <1>8 DEF FireHooks, Fires, ServiceInv
    <2> QED
      BY <1>8, <2>1 DEF FireHooks, mainVars, ledgerVars
  <1>9. CASE DrainManager
    BY <1>9 DEF DrainManager, Ledger!Drain, Ledger!Close, mainVars, hookVars
  <1>10. CASE StopManager
    BY <1>10 DEF StopManager, Ledger!Stop, mainVars, TypeOK
  <1>11. CASE ServiceDone \/ UNCHANGED vars
    BY <1>11 DEF ServiceDone, vars, mainVars, hookVars, ledgerVars
  <1> QED
    BY <1>1, <1>2, <1>3, <1>4, <1>5, <1>6, <1>7, <1>8, <1>9, <1>10, <1>11
       DEF Next, MainWork, BackendAnswers

\* A step of anything but the hooks and the service leaves what ServiceInv says.
LEMMA ServiceStep == TypeOK /\ ServiceInv /\ [Next]_vars => ServiceInv'
PROOF
  <1> SUFFICES ASSUME TypeOK, ServiceInv, [Next]_vars PROVE ServiceInv'
    OBVIOUS
  <1> USE ManagerIsHook DEF ServiceInv, HooksAnswered
  <1>1. CASE UNCHANGED hookVars
    BY <1>1 DEF hookVars
  <1>2. CASE Boot
    BY <1>2 DEF Boot
  <1>3. ASSUME NEW h \in Hooks, hook' = [hook EXCEPT ![h] = Registered],
               UNCHANGED <<service, gaveUp>>
        PROVE  ServiceInv'
    BY <1>3 DEF Registered, TypeOK
  <1>4. ASSUME NEW h \in Hooks, hook[h] = "fired", hook' = [hook EXCEPT ![h] = "returned"],
               UNCHANGED <<service, gaveUp>>
        PROVE  ServiceInv'
    BY <1>4 DEF TypeOK
  <1>5. CASE FireHooks
    BY <1>5 DEF FireHooks, Fires
  <1>6. CASE ServiceDone
    BY <1>6 DEF ServiceDone, AllReturned, GraceOver
  <1>7. CASE OpenStore
    BY <1>3, <1>7 DEF OpenStore
  <1>8. ASSUME NEW c \in Conns, Connect(c) \/ CloseConn(c) PROVE ServiceInv'
    BY <1>3, <1>4, <1>8 DEF Connect, CloseConn, Hooks
  <1>9. CASE StopManager
    BY <1>4, <1>9 DEF StopManager
  <1>10. CASE (MainWork \/ BackendAnswers) /\ ~OpenStore
    BY <1>1, <1>10 DEF MainWork, BackendAnswers, FetchConfigs, OpenFails, FetchFails, SetUpNext, SetUpFails,
                       AutoStartNext, AllLoaded, MainReturns, Die, hookVars
  <1>11. CASE \/ \E j \in Ids : Operate(j) \/ Settle(j)
              \/ \E r \in Runs : BeginRun(r) \/ FinishRun(r)
              \/ LateResult \/ Kill \/ DrainManager \/ UNCHANGED vars
    BY <1>1, <1>11 DEF Operate, Settle, BeginRun, FinishRun, LateResult, Kill, Die,
                       DrainManager, vars, hookVars
  <1> QED
    BY <1>2, <1>5, <1>6, <1>7, <1>8, <1>9, <1>10, <1>11 DEF Next

\* Only MainReturns ends a process cleanly, and nothing but Boot happens then.
LEMMA ExitStep == IInv /\ [Next]_vars => CleanExitDrained'
PROOF
  <1> SUFFICES ASSUME IInv, [Next]_vars, (~Alive /\ exit = "clean" /\ ~gaveUp)',
                      (hook[Manager] # "late")'
               PROVE  (phase = "stopped" /\ (overdue \/ active = {}))'
    BY DEF CleanExitDrained
  <1>1. exit' = exit \/ exit' \in {"none", "failed", "killed"} \/ MainReturns
    BY DEF Next, MainWork, BackendAnswers, Boot, OpenStore, FetchConfigs, OpenFails, FetchFails, SetUpNext, SetUpFails,
           AutoStartNext, AllLoaded, MainReturns, Connect, CloseConn, Operate, Settle,
           BeginRun, FinishRun, LateResult, Kill, FireHooks, DrainManager, StopManager,
           ServiceDone, Die, mainVars, vars
  <1>2. CASE MainReturns
    <2>1. UNCHANGED <<hookVars, ledgerVars>> /\ main = "ready" /\ service = "done"
      BY <1>2 DEF MainReturns, Die
    <2>2. hook[Manager] \notin {"none", "late", "registered", "fired"}
      BY <2>1, ManagerIsHook DEF IInv, HookInv, ServiceInv, HooksAnswered, hookVars
    <2>3. hook[Manager] = "returned"
      BY <2>2, ManagerIsHook DEF IInv, TypeOK
    <2> QED
      BY <2>1, <2>3 DEF IInv, HookInv, ledgerVars
  <1>3. CASE exit' = exit
    <2>1. ~Alive
      BY <1>3 DEF IInv, HookInv, Alive
    <2>2. UNCHANGED vars
      BY <1>3, <2>1 DEF Next, MainWork, BackendAnswers, Boot, OpenStore, FetchConfigs, OpenFails, FetchFails,
           SetUpNext, NextConfig, SetUpFails, AutoStartNext, AllLoaded, MainReturns, WebUp, Connect,
           CloseConn, Operate, Settle, BeginRun, FinishRun, LateResult, Kill, FireHooks,
           DrainManager, StopManager, ServiceDone, Alive
    <2> QED
      BY <2>1, <2>2 DEF IInv, CleanExitDrained, vars, mainVars, hookVars, ledgerVars, Alive
  <1> QED
    BY <1>1, <1>2, <1>3 DEF Alive

-----------------------------------------------------------------------------
(* The rows and the jobs in memory. *)

\* What is left of the definitions when the first one has been dealt with.
LEMMA RestOfTodo ==
    ASSUME TypeOK, todo # <<>>, NEW j \in Ids, j # Head(todo),
           \E i \in DOMAIN todo : todo[i] = j
    PROVE  \E i \in DOMAIN Tail(todo) : Tail(todo)[i] = j
PROOF
  <1>1. PICK i \in DOMAIN todo : todo[i] = j
    OBVIOUS
  <1>2. todo \in Seq(Ids) /\ i \in 1..Len(todo) /\ i # 1
    BY <1>1 DEF TypeOK
  <1>3. i - 1 \in DOMAIN Tail(todo) /\ Tail(todo)[i - 1] = todo[i]
    BY <1>2
  <1> QED
    BY <1>1, <1>3

LEMMA RowsStep == TypeOK /\ RowsInv /\ [Next]_vars => RowsInv'
PROOF
  <1> SUFFICES ASSUME TypeOK, RowsInv, [Next]_vars PROVE RowsInv'
    OBVIOUS
  <1> USE DEF RowsInv
  <1>1. CASE Boot
    BY <1>1 DEF Boot
  <1>2. CASE OpenStore \/ OpenFails \/ FetchFails \/ SetUpFails \/ MainReturns \/ LateResult \/ Kill
    BY <1>2 DEF OpenStore, OpenFails, FetchFails, SetUpFails, MainReturns, LateResult, Kill, Die,
                loadVars, ledgerVars
  <1>3. CASE FetchConfigs
    <2>1. \A j \in defined' : \E i \in DOMAIN todo' : todo'[i] = j
      BY <1>3 DEF FetchConfigs
    <2> QED
      BY <1>3, <2>1 DEF FetchConfigs
  <1>4. CASE SetUpNext
    <2> DEFINE first == Head(todo)
    <2>1. /\ first \in Ids /\ first \notin loaded
          /\ todo # <<>> /\ main = "loading" /\ phase = "open"
          /\ loaded' = loaded \cup {first} /\ todo' = Tail(todo)
          /\ rows' = [rows EXCEPT ![first] = "created"]
          /\ UNCHANGED <<main, defined, started, phase>>
      BY <1>4 DEF SetUpNext, NextConfig, SavedRow, mainVars, ledgerVars, TypeOK
    <2>2. \A j \in Ids : j # first => rows'[j] = rows[j]
      BY <2>1 DEF TypeOK
    <2>3. rows'[first] = "created"
      BY <2>1 DEF TypeOK
    <2>4. \A j \in loaded' : rows'[j] = "claimed" => j \in started'
      BY <2>1, <2>2, <2>3 DEF TypeOK
    <2>5. ASSUME NEW j \in defined' \ started', rows'[j] = "claimed"
          PROVE  \E i \in DOMAIN todo' : todo'[i] = j
      <3>1. j \in Ids /\ j # first /\ j \in defined \ started /\ rows[j] = "claimed"
        BY <2>1, <2>2, <2>3, <2>5 DEF TypeOK
      <3>2. \E i \in DOMAIN todo : todo[i] = j
        BY <2>1, <3>1
      <3> QED
        BY <2>1, <3>1, <3>2, RestOfTodo
    <2> QED
      BY <2>1, <2>4, <2>5
  <1>5. ASSUME NEW j \in Ids, Start(j), UNCHANGED <<main, defined, todo, loaded, phase>>
        PROVE  RowsInv'
    BY <1>5 DEF Start, TypeOK
  <1>6. CASE AutoStartNext
    <2>1. CASE Start(starting)
      BY <1>5, <1>6, <2>1 DEF AutoStartNext, TypeOK, mainVars, ledgerVars
    <2> QED
      BY <1>6, <2>1 DEF AutoStartNext, mainVars, ledgerVars
  <1>7. CASE AllLoaded
    BY <1>7 DEF AllLoaded, loadVars, ledgerVars
  <1>8. ASSUME NEW j \in Ids, Operate(j) PROVE RowsInv'
    <2>1. CASE Start(j) /\ UNCHANGED loaded
      BY <1>5, <1>8, <2>1 DEF Operate, mainVars, ledgerVars
    <2>2. CASE /\ loaded' = loaded \ {j} /\ UNCHANGED started
               /\ rows' = rows \/ rows' = [rows EXCEPT ![j] = "absent"]
      BY <1>8, <2>2 DEF Operate, TypeOK, mainVars, ledgerVars
    <2> QED
      BY <1>8, <2>1, <2>2 DEF Operate
  <1>9. ASSUME NEW j \in Ids, Settle(j) PROVE RowsInv'
    BY <1>9 DEF Settle, TypeOK, mainVars, ledgerVars
  <1>10. ASSUME NEW r \in Runs, BeginRun(r) \/ FinishRun(r) PROVE RowsInv'
    BY <1>10 DEF BeginRun, FinishRun, Ledger!Begin, Ledger!Finish, mainVars, loadVars
  <1>11. CASE DrainManager \/ StopManager
    BY <1>11 DEF DrainManager, StopManager, Ledger!Drain, Ledger!Close, Ledger!Stop, mainVars,
                 loadVars
  <1>12. ASSUME NEW c \in Conns, Connect(c) \/ CloseConn(c) PROVE RowsInv'
    BY <1>12 DEF Connect, CloseConn, mainVars, loadVars, ledgerVars
  <1>13. CASE FireHooks \/ ServiceDone \/ UNCHANGED vars
    BY <1>13 DEF FireHooks, ServiceDone, vars, mainVars, loadVars, ledgerVars
  <1> QED
    BY <1>1, <1>2, <1>3, <1>4, <1>6, <1>7, <1>8, <1>9, <1>10, <1>11, <1>12, <1>13
       DEF Next, MainWork, BackendAnswers

-----------------------------------------------------------------------------

LEMMA InitHolds == Init => IInv
PROOF
  <1> SUFFICES ASSUME Init PROVE IInv
    OBVIOUS
  <1> USE ManagerIsHook DEF Init, Ledger!Init
  <1>1. TypeOK
    <2>1. lives \in 0..MaxLives
      BY CountsAssumption
    <2>2. todo \in Seq(Ids)
      OBVIOUS
    <2> QED
      BY <2>1, <2>2 DEF TypeOK
  <1>2. HookInv /\ ServiceInv /\ CleanExitDrained /\ RowsInv
    BY DEF HookInv, ServiceInv, HooksAnswered, CleanExitDrained, RowsInv, Alive
  <1> QED
    BY <1>1, <1>2 DEF IInv

\* The inductive invariant: types, the progress of the hooks, and the rows.
THEOREM LifeInvariant == Spec => []IInv
PROOF
  <1>1. IInv /\ [Next]_vars => IInv'
    <2> SUFFICES ASSUME IInv, [Next]_vars PROVE IInv'
      OBVIOUS
    <2>1. TypeOK' /\ HookInv' /\ ServiceInv' /\ RowsInv'
      BY TypeStep, HookStep, ServiceStep, RowsStep DEF IInv
    <2>2. CleanExitDrained'
      BY ExitStep
    <2> QED
      BY <2>1, <2>2 DEF IInv
  <1> QED
    BY InitHolds, <1>1, PTL DEF Spec

\* The variables keep their types through any number of lives.
THEOREM LifeTypeCorrect == Spec => []TypeOK
PROOF
  <1>1. IInv => TypeOK
    BY DEF IInv
  <1> QED
    BY LifeInvariant, <1>1, PTL

\* main leaves through `<-done` with the store closed and, unless somebody ran
\* out of patience or the signal came before the hook, no execution cut off.
THEOREM CleanExitCorrect == Spec => []CleanExitDrained
PROOF
  <1>1. IInv => CleanExitDrained
    BY DEF IInv
  <1> QED
    BY LifeInvariant, <1>1, PTL

\* The service does not pass its wait group before every hook that was
\* registered when the signal came has returned, for any number of connections.
THEOREM HooksCorrect == Spec => []HooksAnswered
PROOF
  <1>1. IInv => HooksAnswered
    BY DEF IInv, ServiceInv
  <1> QED
    BY LifeInvariant, <1>1, PTL

\* No row of a loaded job, and once main has loaded the jobs no row of a job the
\* backend defines, deleted or not, claims a timer or an execution of an earlier
\* life.
THEOREM ClaimsCorrect == Spec => []ClaimsAreOfThisLife
PROOF
  <1>1. IInv => ClaimsAreOfThisLife
    BY DEF IInv, RowsInv, ClaimsAreOfThisLife
  <1> QED
    BY LifeInvariant, <1>1, PTL

-----------------------------------------------------------------------------
(* The manager of each life. *)

\* A panic ends the process: what is crashed is an earlier life.
AliveInv == Alive => ~crashed

LEMMA AliveStep == AliveInv /\ [Next]_vars => AliveInv'
PROOF
  <1> SUFFICES ASSUME AliveInv, [Next]_vars PROVE AliveInv'
    OBVIOUS
  <1> USE DEF AliveInv, Alive, Die
  <1>1. CASE Boot
    BY <1>1 DEF Boot
  <1>2. CASE MainWork \/ BackendAnswers
    BY <1>2 DEF MainWork, BackendAnswers, OpenStore, FetchConfigs, OpenFails, FetchFails, SetUpNext, NextConfig,
                SetUpFails, AutoStartNext, AllLoaded, MainReturns, mainVars, ledgerVars
  <1>3. ASSUME NEW c \in Conns, Connect(c) \/ CloseConn(c) PROVE AliveInv'
    BY <1>3 DEF Connect, CloseConn, mainVars, ledgerVars
  <1>4. ASSUME NEW j \in Ids, Operate(j) \/ Settle(j) PROVE AliveInv'
    BY <1>4 DEF Operate, Settle, mainVars, ledgerVars
  <1>5. ASSUME NEW r \in Runs, BeginRun(r) \/ FinishRun(r) PROVE AliveInv'
    BY <1>5 DEF BeginRun, FinishRun, Ledger!Begin, Ledger!Finish, mainVars
  <1>6. CASE LateResult \/ Kill
    BY <1>6 DEF LateResult, Kill
  <1>7. CASE FireHooks \/ ServiceDone
    BY <1>7 DEF FireHooks, ServiceDone, mainVars, ledgerVars
  <1>8. CASE DrainManager \/ StopManager
    BY <1>8 DEF DrainManager, StopManager, Ledger!Drain, Ledger!Close, Ledger!Stop, mainVars
  <1>9. CASE UNCHANGED vars
    BY <1>9 DEF vars, mainVars, ledgerVars
  <1> QED
    BY <1>1, <1>2, <1>3, <1>4, <1>5, <1>6, <1>7, <1>8, <1>9 DEF Next

\* A step begins another life with a new ledger, comes after the manager's Shutdown
\* has returned, or is one that the ledger allows.
LedgerKept == Boot \/ phase = "stopped" \/ Ledger!Next \/ UNCHANGED ledgerVars

LEMMA LedgerStep == HookInv /\ AliveInv /\ [Next]_vars => LedgerKept
PROOF
  <1> SUFFICES ASSUME HookInv, AliveInv, [Next]_vars, ~Boot, phase # "stopped",
                      ~UNCHANGED ledgerVars
               PROVE  Ledger!Next
    BY DEF LedgerKept
  <1> USE DEF AliveInv
  <1>1. CASE MainWork \/ BackendAnswers
    BY <1>1 DEF MainWork, BackendAnswers, OpenStore, FetchConfigs, OpenFails, FetchFails, SetUpNext,
                SetUpFails, AutoStartNext, AllLoaded, MainReturns
  <1>2. ASSUME NEW c \in Conns, Connect(c) \/ CloseConn(c) PROVE FALSE
    BY <1>2 DEF Connect, CloseConn
  <1>3. ASSUME NEW j \in Ids, Operate(j) \/ Settle(j) PROVE FALSE
    BY <1>3 DEF Operate, Settle
  <1>4. ASSUME NEW r \in Runs, BeginRun(r) \/ FinishRun(r) PROVE Ledger!Next
    BY <1>4 DEF BeginRun, FinishRun, Ledger!Next
  <1>5. CASE LateResult
    BY <1>5 DEF LateResult, HookInv, Ledger!Next, Ledger!Panic
  <1>6. CASE DrainManager \/ StopManager
    BY <1>6 DEF DrainManager, StopManager, Ledger!Next
  <1>7. CASE Kill \/ FireHooks \/ ServiceDone \/ UNCHANGED vars
    BY <1>7 DEF Kill, FireHooks, ServiceDone, vars
  <1> QED
    BY <1>1, <1>2, <1>3, <1>4, <1>5, <1>6, <1>7 DEF Next

\* Every life runs the manager's ledger as RunLedger allows, from a new one to
\* the return of Shutdown: a result that panics, at whatever moment of the end of
\* the process it comes, is one that Shutdown has lost patience with.
THEOREM LivesKeepLedger ==
    Spec => /\ Ledger!Init
            /\ [][Boot => Ledger!Init']_vars
            /\ [][LedgerKept]_vars
PROOF
  <1>1. Init => Ledger!Init /\ AliveInv
    BY DEF Init, AliveInv, Alive
  <1>2. Spec => []AliveInv
    BY <1>1, AliveStep, PTL DEF Spec
  <1>3. Boot => Ledger!Init'
    BY DEF Boot, Ledger!Init
  <1>4. IInv => HookInv
    BY DEF IInv
  <1> QED
    BY <1>1, <1>2, <1>3, <1>4, LedgerStep, LifeInvariant, PTL DEF Spec

=============================================================================
