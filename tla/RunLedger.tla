------------------------------ MODULE RunLedger ------------------------------
(* What the job manager promises about the executions it counts, in the words *)
(* of its wait group alone: executions enter the ledger while it is open and  *)
(* leave it once, and it is closed when it is empty or when the patience of   *)
(* Shutdown ends.  JobManager implements it (LedgerSpec there).               *)

CONSTANT Runs

VARIABLES
    phase,      \* "open", then the stages of Shutdown
    active,     \* begun and not accounted for
    finished,   \* accounted for, for good
    overdue,    \* Shutdown gave up waiting
    crashed     \* a goroutine handed in its result too late

vars == <<phase, active, finished, overdue, crashed>>

Init ==
    /\ phase = "open"
    /\ active = {} /\ finished = {}
    /\ overdue = FALSE /\ crashed = FALSE

\* wg.Add(1): only while the ledger is open, and once for each execution.
Begin(r) ==
    /\ phase = "open"
    /\ r \notin active \cup finished
    /\ active' = active \cup {r}
    /\ UNCHANGED <<phase, finished, overdue, crashed>>

\* wg.Done(): in any phase, the results processor outlives the channel.
Finish(r) ==
    /\ r \in active
    /\ active' = active \ {r}
    /\ finished' = finished \cup {r}
    /\ UNCHANGED <<phase, overdue, crashed>>

Drain ==
    /\ phase = "open"
    /\ phase' = "draining"
    /\ UNCHANGED <<active, finished, overdue, crashed>>

\* The channel is closed with nothing outstanding, or in impatience.
Close ==
    /\ phase = "draining"
    /\ phase' = "closing"
    /\ \/ active = {} /\ UNCHANGED overdue
       \/ overdue' = TRUE
    /\ UNCHANGED <<active, finished, crashed>>

\* Only impatience leaves an execution that can panic.
Panic ==
    /\ phase = "closing"
    /\ overdue /\ active # {}
    /\ crashed' = TRUE
    /\ UNCHANGED <<phase, active, finished, overdue>>

Stop ==
    /\ phase = "closing"
    /\ overdue \/ active = {}
    /\ phase' = "stopped"
    /\ UNCHANGED <<active, finished, overdue, crashed>>

Next ==
    /\ ~crashed /\ phase # "stopped"
    /\ \/ \E r \in Runs : Begin(r) \/ Finish(r)
       \/ Drain \/ Close \/ Panic \/ Stop

Spec == Init /\ [][Next]_vars
=============================================================================
