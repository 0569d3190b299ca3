SPECIFICATION Spec
CONSTANTS
  squads = squads
  fork = fork
  Program <- Programs
  DefaultProgram = squads
  CreateKey = {k1, k2}
  Absent = Absent
SYMMETRY Keys
INVARIANTS
  OverrideIsMerged
CHECK_DEADLOCK FALSE
