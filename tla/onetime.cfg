SPECIFICATION Spec
CONSTANTS
  Jobs = {j1}
  Periodic = {}
  EntryIds = {e1}
  NoEntry = NoEntry
  NoJob = NoJob
  Free = Free
  MaxRuns = 2
  ResultsCap = 1
  StoreMayFail = TRUE
INVARIANT TypeOK
INVARIANT MemoryBacked
PROPERTY LooseTimerNeedsTimer
INVARIANT WaitGroupExact
INVARIANT EscapeNeedsOverlap
