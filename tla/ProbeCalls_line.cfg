CONSTANTS
  StoreBits <- MCStoreBits
  Aligns <- MCAligns
  Lines <- MCLines
  Vals = {0, 1}
  NoCall = NoCall
SPECIFICATION Spec
INVARIANTS LineReachesRuntime
