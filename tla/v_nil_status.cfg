SPECIFICATION Spec
CONSTANTS
  Callers = {c1}
  ActivePolls = 2
  CompletionPolls = 2
CHECK_DEADLOCK FALSE
INVARIANT PollsEndInAnswer
