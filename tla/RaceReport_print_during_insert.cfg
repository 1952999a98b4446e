\* Two threads reporting: one prints all races while the other inserts.
CONSTANTS
  t1 = t1  t2 = t2  f = f  g = g  r1 = r1  r2 = r2  NoRace = NoRace
  Threads = {t1, t2}
  Tid <- DistinctTid
  Funcs = {f, g}
  RaceIds = {r1}
  Reporters = {t1, t2}
  MaxDepth = 1
  ExitInFrame = FALSE
SPECIFICATION Spec
PROPERTIES NoInsertDuringIteration
CHECK_DEADLOCK FALSE
