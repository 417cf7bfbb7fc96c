SPECIFICATION Spec
CHECK_DEADLOCK FALSE
INVARIANT TypeOK
INVARIANT CompleteIsTrue
INVARIANT NoStrayWork
PROPERTY ContractKept
PROPERTY WorkerEnds
