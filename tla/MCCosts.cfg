SPECIFICATION Spec
CONSTANTS
  Configs = {1, 2}
  Jobs <- AllJobs
  Kind <- TheKinds
  Slug <- TheSlugs
  Dir <- TheDirs
  normalizeModel <- TheNormals
  Family <- TheFamilies
  BuiltIn <- TheBuiltIn
  Configured <- TheConfigured
  Mentions <- TheMentions
  Keywords <- TheKeywords
  ClaudeFiles = {"s", "t"}
  CodexFiles = {"u"}
  Ids = {"m", "n"}
  Days = 2
  DayLength = 1
  Scopes <- TheScopes
INVARIANTS
  TypeOK
  SessionsAreCounted
  ReportIsComplete
PROPERTY ReportsGrow
