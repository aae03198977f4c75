CONSTANTS
  None = None
  j1 = j1
  j2 = j2
  t1 = t1
  t2 = t2
  p1 = p1
  p2 = p2
  r1 = r1
  a = a
  b = b
  Repos = {r1}
  Jobs = {j1, j2}
  Procs = {p1, p2}
  Contents = {a, b}
  Locks <- LocksOfRepos
  Tree <- TwoVersions
  Task <- SharedTask
  Repo <- SharedRepo
  Home <- SharedHome
  MaxVersion = 1
  MaxTrouble = 2

SPECIFICATION FairSpec

INVARIANTS
  CacheTypeOK
  BuildersAlone
  IndexIsSound
  WorkspaceIsFresh
PROPERTIES
  FinishedFilesStand
  IndexingSparesTheTask
  JobsEnd
CHECK_DEADLOCK FALSE
