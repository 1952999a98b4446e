--------------------------- MODULE MC_RaceReport ---------------------------
EXTENDS RaceReport, TLC

CONSTANTS t1, t2, f, g, r1, r2

\* Two threads with distinct pthread_self values.
DistinctTid == (t1 :> 1) @@ (t2 :> 2)
\* A thread that ends and a later thread given the same pthread_t.
ReusedTid == (t1 :> 1) @@ (t2 :> 1)

SymmF == Permutations({f, g})
=============================================================================
