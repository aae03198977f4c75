CONSTANTS
  Writers = {w1, w2}
  Sockets = {s1}
  Pollers = {c1}
  Page = 2
  Capacity = 2
  MaxEvents = 4
  w1 = w1
  w2 = w2
  s1 = s1
  c1 = c1

SPECIFICATION FairSpec

INVARIANTS
  LogTypeOK
  LogIsGapless
  OnlyCommittedIsShown
PROPERTIES
  ShownInOrder
  ImplementsFeed
  PollersCatchUp
CHECK_DEADLOCK FALSE
