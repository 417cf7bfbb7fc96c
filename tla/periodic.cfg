SPECIFICATION Spec
CONSTANTS
  Jobs = {j1}
  Periodic = {j1}
  EntryIds = {e1, e2}
  NoEntry = NoEntry
  NoJob = NoJob
  Free = Free
  MaxRuns = 2
  ResultsCap = 1
  StoreMayFail = TRUE
INVARIANT CronEntryKnown
INVARIANT CronMatchesStatus
INVARIANT CloseIsSafe
INVARIANT GracefulLosesNothing
INVARIANT ShutdownReaches
INVARIANT HandleIsCurrent
PROPERTY NoRunAfterShutdown
PROPERTY LedgerSpec
SYMMETRY EntrySymmetry
