\* The redundancy filter against its forward reference definition.
CONSTANTS
  Instrs <- SelInstrs
  MaxLen = 4
  Attrs <- SelAttrs
  Builds = {"release"}
SPECIFICATION Spec
INVARIANTS SelectionMatchesReference
\* The pass runs once over the function and stops.
CHECK_DEADLOCK FALSE
