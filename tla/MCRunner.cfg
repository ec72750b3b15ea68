SPECIFICATION FairSpec
CONSTANTS
  root = root
  p1 = p1
  p2 = p2
  Pid <- Pids3
  Root = root
  InitPid = InitPid
  PsMayFail = TRUE
INVARIANTS
  TypeOK
  OutcomeIsHonest
  SurvivorsEscaped
PROPERTY RunReturns
