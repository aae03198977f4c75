CONSTANTS
  Clients = {c1}
  k1 = k1
  k2 = k2
  Skills = {k1, k2}
  Suggested <- OneSuggestion
  Turns <- WorkTurns
  None = None
  MaxSteps = 2
  Recent = 2
  Threshold = 6
  Fit = 2
  Whole = 1
  MaxActive = 1
  Keep = 2
  MaxRuns = 2
  MaxOld = 6
  MaxSent = 7
  MaxElided = 1
  Failing = {"run"}

SPECIFICATION FairSpec

INVARIANTS
  AgentTypeOK
  SummaryIsExact
  CallsAreAnswered
  EditsAlone
  CompletionHasEvidence
  SkillsAreLogged
PROPERTIES
  MissedOnceOnly
  RunEnds
CHECK_DEADLOCK FALSE
