\* Spec section 9: no read dropped as shadowed across an atomic operation.
CONSTANTS
  Instrs <- SelInstrs
  MaxLen = 3
  Attrs <- SelAttrs
  Builds = {"release"}
SPECIFICATION Spec
INVARIANTS NoDropAcrossAtomic
CHECK_DEADLOCK FALSE
