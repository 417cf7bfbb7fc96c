SPECIFICATION DrainSpec
CONSTANTS
  Jobs = {j1}
  Periodic = {j1}
  EntryIds = {e1, e2}
  NoEntry = NoEntry
  NoJob = NoJob
  Free = Free
  MaxRuns = 2
  ResultsCap = 1
  StoreMayFail = FALSE
PROPERTY ResultsLeave
PROPERTY ShutdownReturns
