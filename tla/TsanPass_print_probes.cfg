\* Spec section 8: an access the filter drops gets no probe call.
CONSTANTS
  Instrs <- SelInstrs
  MaxLen = 2
  Attrs <- SelAttrs
  Builds = {"release"}
SPECIFICATION Spec
INVARIANTS NoProbeOnUnselectedAccess
CHECK_DEADLOCK FALSE
