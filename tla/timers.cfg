SPECIFICATION TimerSpec
CONSTANTS
  Jobs = {j1}
  Periodic = {}
  EntryIds = {e1}
  NoEntry = NoEntry
  NoJob = NoJob
  Free = Free
  MaxRuns = 2
  ResultsCap = 1
  StoreMayFail = FALSE
INVARIANT StatusHasResult
INVARIANT ScheduledHasTimer
PROPERTY ScheduleHappens
