CONSTANTS
  Writers = {w1}
  Sockets = {s1}
  Pollers = {}
  Page = 3
  Capacity = 2
  MaxEvents = 3
  w1 = w1
  s1 = s1

SPECIFICATION Spec

INVARIANT NoPermanentGap
CHECK_DEADLOCK FALSE
