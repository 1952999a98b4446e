\* A thread ends inside an instrumented function (pthread_exit) and a later
\* thread is given the same pthread_t.
CONSTANTS
  t1 = t1  t2 = t2  f = f  g = g  r1 = r1  r2 = r2  NoRace = NoRace
  Threads = {t1, t2}
  Tid <- ReusedTid
  Funcs = {f, g}
  RaceIds = {r1, r2}
  Reporters = {t1, t2}
  MaxDepth = 2
  ExitInFrame = TRUE
SPECIFICATION Spec
INVARIANTS CallStackTracksFrames
CHECK_DEADLOCK FALSE
