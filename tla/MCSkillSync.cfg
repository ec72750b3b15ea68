SPECIFICATION Spec
CONSTANTS
  d1 = d1
  d2 = d2
  s1 = s1
  s2 = s2
  Dir = {d1, d2}
  Skill = {s1, s2}
  MaxEdits = 1
SYMMETRY Symmetric
INVARIANTS
  TypeOK
  SyncedSkillsAreThere
  OnlyOtherLinksAreLost
PROPERTY RealDirsSurvive
