SPECIFICATION MCSpec
CONSTANTS
  a = a
  b = b
  c = c
  other = other
  slash = slash
  blank = blank
  Text <- Texts
  Blank = blank
  Config <- Configs
  FileNames <- Files
  Programs <- Found
  Dirs <- Directories
  Reloads <- Runnable
INVARIANTS
  CommandTypeOK
  VerdictIsRight
  FollowUpsEnd
  AcceptedJobsStart
