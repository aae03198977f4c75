CONSTANTS
  Tasks = {t1, t2}
  Workers = {w1, w2}
  Slots = {s1}
  Spaces = {e1, e2, e3, e4, e5}
  None = None
  MaxTrouble = 2

SPECIFICATION FairSpec

INVARIANTS
  EnvTypeOK
  SlotsAccounted
  OneTreePerSlot
  AgentIsAtHome
PROPERTIES
  WorkIsKept
  WaitersAreServed
CHECK_DEADLOCK FALSE
