---------------------------- MODULE MC_TsanPass ----------------------------
(* Small functions for TsanPass: addresses of every class the pass tells   *)
(* apart, and instruction alphabets for the questions the runs ask.        *)
EXTENDS TsanPass

Addr(n, k, c, s) == [name |-> n, kind |-> k, captured |-> c, sized |-> s]
gM == Addr("gM", "global", TRUE, TRUE)   \* mutable global
gB == Addr("gB", "global", TRUE, FALSE)  \* global of a 3-byte struct type
gC == Addr("gC", "const", TRUE, TRUE)    \* constant global
sL == Addr("sL", "alloca", FALSE, TRUE)  \* stack slot never captured
sE == Addr("sE", "alloca", TRUE, TRUE)   \* stack slot whose address escapes
pg == Addr("pg", "pgo", TRUE, TRUE)      \* PGO counter

I(o, a) == [op |-> o, addr |-> a, vt |-> FALSE]
NoAddr == "none"

\* Loads and stores of every class, calls and block ends, and a fence.
SelInstrs ==
  {I(o, a) : o \in {"load", "store"}, a \in {gM, gC, sL, pg}}
  \cup {I("call", NoAddr), I("br", NoAddr), I("fence", NoAddr),
         [op |-> "store", addr |-> gM, vt |-> TRUE],  \* vptr update
         [op |-> "load", addr |-> gM, vt |-> TRUE]}   \* vptr read
SelAttrs ==
  {[sanitize |-> s, noCheck |-> FALSE, isMain |-> FALSE, nounwind |-> FALSE]
     : s \in BOOLEAN}

\* Calls that may throw, accesses that are and are not instrumented,
\* atomics with and without a probe, a bulk copy.
ExitInstrs ==
  {I("call", NoAddr), I("load", gM), I("store", gB), I("aload", gM),
   I("astore", gM), I("rmw", gM), I("rmwx", gM), I("cas", gM),
   I("sfence", NoAddr), I("memcpy", NoAddr)}
AllAttrs ==
  [sanitize : BOOLEAN, noCheck : BOOLEAN, isMain : BOOLEAN, nounwind : BOOLEAN]
\* Both sanitize_thread and sanitize_thread_no_checking_at_run_time.
ConflictAttrs ==
  {[sanitize |-> TRUE, noCheck |-> TRUE, isMain |-> FALSE, nounwind |-> FALSE]}
=============================================================================
