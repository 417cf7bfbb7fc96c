SPECIFICATION Spec
CONSTANTS
  Ids = {a}
  AutoStart = {a}
  NoJob = NoJob
  Runs = {r1, r2}
  Manager = Manager
  Conns = {c1}
  MaxConfigs = 1
  MaxLives = 1
  MayFail = FALSE
CHECK_DEADLOCK FALSE
INVARIANT SignalIsGraceful
