\* Two threads reporting races at once into the unlocked std::set.
CONSTANTS
  t1 = t1  t2 = t2  f = f  g = g  r1 = r1  r2 = r2  NoRace = NoRace
  Threads = {t1, t2}
  Tid <- DistinctTid
  Funcs = {f, g}
  RaceIds = {r1, r2}
  Reporters = {t1, t2}
  MaxDepth = 1
  ExitInFrame = FALSE
SPECIFICATION Spec
INVARIANTS NoLostRace
CHECK_DEADLOCK FALSE
