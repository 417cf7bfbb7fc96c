SPECIFICATION Spec
CONSTANTS
  Callers = {c1, c2}
  ActivePolls = 2
  CompletionPolls = 3
CHECK_DEADLOCK FALSE
INVARIANT TypeOK
INVARIANT SuccessIsReal
PROPERTY CallEnds
