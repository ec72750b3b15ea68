SPECIFICATION Spec
CONSTANTS
  r1 = r1
  r2 = r2
  r3 = r3
  x = x
  y = y
  reply = reply
  null = null
  Endpoint = {"replies", "tracking", "candidate-backlog", "reply-reviews", "rounds"}
  Row = {r1, r2, r3}
  Unscannable = {r3}
  Platform <- ThePlatforms
  NoPlatform = none
  Identifier = {"items", "other"}
  Existing <- TheTables
  Holds <- TheRows
  QueryPage = {0, 5}
  QueryPerPage = {2, 3}
  MaxPerPage = 2
  DefaultPerPage = 1
  MaxInt = 7
  StatusPlatform = {x, y}
  Type = {reply, null}
  Untyped = null
  Config <- TheConfigs
  MaxActions = 2
  MaxDay = 1
  MaxSteps = 2
  MaxNoise = 1
  MaxCuts = 1
  MaxRuns = 2
  MaxTail = 3
INVARIANTS
  TypeOK
  
  BeyondIsEmpty
  AnswersFromOneConfig
  HealthIsHonest
  BreakdownAddsUp
  SummaryIsComplete
PROPERTY AnswersGrow
