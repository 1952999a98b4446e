\* Spec section 7: conflicting attributes in a build without assertions.
CONSTANTS
  Instrs <- SelInstrs
  MaxLen = 2
  Attrs <- ConflictAttrs
  Builds = {"release"}
SPECIFICATION Spec
INVARIANTS NoChecksInsideIgnoreScope
CHECK_DEADLOCK FALSE
