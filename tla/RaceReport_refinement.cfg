\* One thread reports races while both enter and leave functions: the
\* runtime against the abstract call-stack service.
CONSTANTS
  t1 = t1  t2 = t2  f = f  g = g  r1 = r1  r2 = r2  NoRace = NoRace
  Threads = {t1, t2}
  Tid <- DistinctTid
  Funcs = {f, g}
  RaceIds = {r1, r2}
  Reporters = {t1}
  MaxDepth = 2
  ExitInFrame = FALSE
SPECIFICATION Spec
INVARIANTS TypeOK CallStackTracksFrames
PROPERTIES ImplementsCallStackSpec
CHECK_DEADLOCK FALSE
