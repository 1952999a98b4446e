--------------------------- MODULE MC_ProbeCalls ---------------------------
EXTENDS ProbeCalls

\* Every usual size and an unusual one (i24).
MCStoreBits == {8, 16, 24, 32, 64, 128}
\* Every alignment LLVM writes for these sizes, and none.
MCAligns == {0, 1, 2, 4, 8, 16}
\* A line below 256 and one above.
MCLines == {12, 268}
=============================================================================
