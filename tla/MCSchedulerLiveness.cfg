SPECIFICATION FairSpec
CONSTANTS
  r1 = r1
  r2 = r2
  r3 = r3
  a = a
  b = b
  k1 = k1
  k2 = k2
  daily = daily
  hourly = hourly
  NoKey = NoKey
  NoJob = NoJob
  NoSchedule = NoSchedule
  BadSchedule = BadSchedule
  Name <- Names2
  Key <- Keys2
  Schedule <- Schedules
  SpareSlots = 1
  Run <- Runs3
  JobLists <- LivenessLists
PROPERTIES
  StopReturns
  LocksAreReleased
  RunsLeave
