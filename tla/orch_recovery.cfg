SPECIFICATION Spec
CONSTANTS
  p1 = p1
  p2 = p2
  w1 = w1
  w2 = w2
  w3 = w3
  c1 = c1
  c2 = c2
  c3 = c3
  None = None
  Procs = {p1}
  Workers = {w1, w2}
  Clients = {c1}
  Tasks = {t1}
  Callers <- MCCallers
  Home <- MCHome
  Limit <- MCLimit
  SlowExecutions = FALSE
  MaxRetry = 1
  MaxCancel = 1
  MaxCrash = 1
  MaxFault = 1
CHECK_DEADLOCK FALSE
INVARIANT StartedIsCarried
PROPERTY RestartRecovers
