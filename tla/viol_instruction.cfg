CONSTANTS
  Clients = {c1, c2}
  k1 = k1
  k2 = k2
  Skills = {k1}
  Suggested <- OneSuggestion
  Turns <- MemoryTurns
  None = None
  MaxSteps = 1
  Recent = 3
  Threshold = 6
  Fit = 2
  Whole = 1
  MaxActive = 2
  Keep = 4
  MaxRuns = 1
  MaxOld = 3
  MaxSent = 12
  MaxElided = 1
  Failing = {}

SPECIFICATION Spec

INVARIANTS
  InstructionKept
CHECK_DEADLOCK FALSE
