----------------------------- MODULE JobContract -----------------------------
(* What the job manager counts on when it calls Job.Run (the Job interface of *)
(* jobpro/job_core.go): Run returns once; it may do so at any time, and it    *)
(* does if the execution is cancelled or has a time limit.  JobRun implements *)
(* it; JobManager takes Run for this step (EndRun, under RunsReturn).         *)

VARIABLES
    limited,     \* the job has a maxWorkTime
    cancelled,   \* the context given to Run is cancelled
    returned

vars == <<limited, cancelled, returned>>

Init == limited \in BOOLEAN /\ cancelled = FALSE /\ returned = FALSE

Cancel == cancelled' = TRUE /\ UNCHANGED <<limited, returned>>

Return == ~returned /\ returned' = TRUE /\ UNCHANGED <<limited, cancelled>>

Spec ==
    /\ Init
    /\ [][Cancel \/ Return]_vars
    /\ WF_vars((limited \/ cancelled) /\ Return)
=============================================================================
