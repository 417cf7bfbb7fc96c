SPECIFICATION Spec
CONSTANTS
  Ids = {a, b}
  AutoStart = {a}
  NoJob = NoJob
  Runs = {r1, r2}
  Manager = Manager
  Conns = {c1}
  MaxConfigs = 2
  MaxLives = 2
  MayFail = TRUE
CHECK_DEADLOCK FALSE
INVARIANT TypeOK
INVARIANT CleanExitDrained
INVARIANT HooksAnswered
INVARIANT ClaimsAreOfThisLife
PROPERTY SignalEnds
