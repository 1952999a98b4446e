\* Function entry/exit synthesis: every exit path, normal or unwinding.
CONSTANTS
  Instrs <- ExitInstrs
  MaxLen = 3
  Attrs <- AllAttrs
  Builds = {"debug"}
SPECIFICATION Spec
INVARIANTS TypeOK ExitCoverage
\* The pass runs once over the function and stops (or aborts on the assert).
CHECK_DEADLOCK FALSE
