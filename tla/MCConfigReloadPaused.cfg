SPECIFICATION ReloadSpec
CONSTANTS
  r1 = r1
  r2 = r2
  a = a
  b = b
  k1 = k1
  k2 = k2
  daily = daily
  hourly = hourly
  e1 = e1
  e2 = e2
  NoKey = NoKey
  NoJob = NoJob
  NoSchedule = NoSchedule
  BadSchedule = BadSchedule
  Run <- Runs2
  Name <- Names2
  Key <- Keys2
  Schedule <- Schedules
  Engine <- Engines2
  JobLists <- Lists
  Config <- Configs
  SpareSlots = 1
CHECK_DEADLOCK FALSE
INVARIANT FailedReloadPreservesJobs
