----------------------------- MODULE TsanPass -----------------------------
(***************************************************************************)
(* The EmbedSanitizer instrumentation pass (ThreadSanitizer::runOnFunction *)
(* in src/unnamed/part_000) applied to one function.                       *)
(*                                                                         *)
(* A function is a flat sequence of instructions; a block ends at a "br"   *)
(* or at the final "ret".  Memory operands are address records (a Value of *)
(* the IR): its kind says what stripInBoundsOffsets/GEP-peeling and        *)
(* GetUnderlyingObject find as the base, "captured" is the answer of       *)
(* PointerMayBeCaptured, "sized" says whether the pointee store size is    *)
(* 8, 16, 32, 64 or 128 bits.  The output IR is kept as the calls inserted *)
(* immediately before each original instruction (before), the fate of the *)
(* instruction (kept, dead, erased), the calls inserted at the top of the  *)
(* entry block (entry), and the cleanup landing pads the EscapeEnumerator  *)
(* creates (pads, unwindTo).                                               *)
(***************************************************************************)
EXTENDS Naturals, Sequences, SequencesExt

CONSTANTS
    Instrs,     \* the instructions a function body is made of
    MaxLen,     \* the longest body, not counting the final ret
    Attrs,      \* the attribute sets a function may carry
    Builds      \* "debug" (assertions on) and/or "release"

Ret == [op |-> "ret", addr |-> "none", vt |-> FALSE]

ASSUME /\ MaxLen \in Nat
       /\ \A i \in Instrs : i.op \in {"load", "store", "aload", "astore",
              "rmw", "rmwx", "cas", "fence", "sfence", "call", "memset",
              "memcpy", "memmove", "br"}
       /\ Builds \subseteq {"debug", "release"}

\* Command-line options, all at their cl::init value (lines 57-72).
ClInstrumentMemoryAccesses == TRUE
ClInstrumentFuncEntryExit == TRUE
ClHandleCxxExceptions == TRUE
ClInstrumentAtomics == TRUE
ClInstrumentMemIntrinsics == TRUE

VARIABLES
    body, attrs, build,        \* the input function and the build of the pass
    pc,                        \* "scan", "loadstore", "atomic", "memintrin",
                               \* "ignores", "entryexit", "done", "aborted"
    idx,                       \* position of the loop of the current phase
    Local, All, Atomics, MemIntrin, \* runOnFunction's SmallVectors
    HasCalls, Res,
    before, fate, entry, pads, unwindTo   \* the output IR

vars == <<body, attrs, build, pc, idx, Local, All, Atomics, MemIntrin,
          HasCalls, Res, before, fate, entry, pads, unwindTo>>

N == Len(body)
Pos == 1..N
Op(i) == body[i].op
AddrOf(i) == body[i].addr

PlainOps == {"load", "store"}
AtomicOps == {"aload", "astore", "rmw", "rmwx", "cas", "fence", "sfence"}
MemOps == {"memset", "memcpy", "memmove"}
CallOps == {"call"} \cup MemOps

-----------------------------------------------------------------------------
(* Address classification.                                                *)

\* shouldInstrumentReadWriteFromAddress: PGO counters, gcov data and
\* non-default address spaces are never instrumented.
ShouldInstrumentReadWriteFromAddress(a) == a.kind \notin {"pgo", "gcov", "as1"}

\* addrPointsToConstantData: a constant global, or a pointer loaded from a
\* vtable-tagged load.
AddrPointsToConstantData(a) == a.kind \in {"const", "vtload"}

\* isa<AllocaInst>(GetUnderlyingObject(Addr)) && !PointerMayBeCaptured(Addr)
NonCapturedAlloca(a) == a.kind = "alloca" /\ ~a.captured

\* isAtomic: cross-thread atomics, read-modify-writes, cmpxchg and fences.
IsAtomic(i) == Op(i) \in AtomicOps

-----------------------------------------------------------------------------
(* chooseInstructionsToInstrument: scan a call-free segment backwards,     *)
(* inserting a __tsan_print_variables call before every access and         *)
(* pushing the accesses to instrument onto All.                            *)

RECURSIVE Choose(_, _, _, _)
Choose(local, wt, all, bef) ==
  IF local = <<>> THEN [all |-> all, before |-> bef]
  ELSE
    LET i    == Last(local)
        a    == AddrOf(i)
        isSt == Op(i) = "store"
        skip == \/ ~ShouldInstrumentReadWriteFromAddress(a)
                \/ ~isSt /\ (a \in wt \/ AddrPointsToConstantData(a))
        wt2  == IF isSt /\ ShouldInstrumentReadWriteFromAddress(a)
                THEN wt \cup {a} ELSE wt
        keep == ~skip /\ ~NonCapturedAlloca(a)
    IN Choose(Front(local), wt2,
              IF keep THEN Append(all, i) ELSE all,
              [bef EXCEPT ![i] = Append(@, "print")])

\* mutant: the segment is not cleared after the scan (Local.clear dropped).
ChooseKeepLocal ==
  LET r == Choose(Local, {}, All, before)
  IN /\ All' = r.all
     /\ before' = r.before
     /\ Local' = Local

ChooseInstructionsToInstrument ==
  LET r == Choose(Local, {}, All, before)
  IN /\ All' = r.all
     /\ before' = r.before
     /\ Local' = <<>>

-----------------------------------------------------------------------------
\* getMemoryAccessFuncIndex(Addr) >= 0: the store size of the pointee is
\* 1, 2, 4, 8 or 16 bytes.
HasAccessIndex(a) == a.sized

\* instrumentLoadOrStore: the probe it inserts, or "none".
LoadOrStoreProbe(i) ==
  LET w == Op(i) = "store" IN
  IF ~HasAccessIndex(AddrOf(i)) THEN "none"
  ELSE IF body[i].vt THEN (IF w THEN "vptr_update" ELSE "vptr_read")
  ELSE IF w THEN "write" ELSE "read"

\* instrumentAtomic: the probe call and what becomes of the instruction.
AtomicProbe(i) ==
  CASE Op(i) \in {"fence", "sfence"} ->
         [p |-> IF Op(i) = "sfence" THEN "signal_fence" ELSE "thread_fence",
          fate |-> "erased"]
    [] ~HasAccessIndex(AddrOf(i)) \/ Op(i) = "rmwx" -> [p |-> "none", fate |-> "kept"]
    [] Op(i) = "aload"  -> [p |-> "atomic_load",  fate |-> "dead"]
    [] Op(i) = "astore" -> [p |-> "atomic_store", fate |-> "erased"]
    [] Op(i) = "rmw"    -> [p |-> "atomic_rmw",   fate |-> "erased"]
    [] Op(i) = "cas"    -> [p |-> "atomic_cas",   fate |-> "erased"]

\* instrumentMemIntrinsic: the library call replacing the intrinsic.
MemProbe(i) == Op(i)

-----------------------------------------------------------------------------
(* EscapeEnumerator(F, name, ClHandleCxxExceptions) followed by a call of  *)
(* probe p at every exit it returns: before each ret, before the resume of *)
(* each existing cleanup pad, and in a new cleanup pad to which every      *)
(* call that may throw is turned into an invoke.                           *)

\* The calls that may throw at position k: the original call, and the
\* __tsan_print_variables calls inserted before it, which initializeCallbacks
\* declares without the NoUnwind attribute its other callbacks get.
Sites == {"call", "print"}
ThrowSites(bef) ==
  {ks \in Pos \X Sites :
     IF ks[2] = "call" THEN Op(ks[1]) = "call" ELSE "print" \in ToSet(bef[ks[1]])}
MayThrowCalls(bef, unw) == {ks \in ThrowSites(bef) : unw[ks] = 0}

\* mutant: existing resume instructions are not treated as exits.
InsertAtRetsOnly(p, bef, pds, unw) ==
  LET bef2 == [k \in Pos |-> IF Op(k) = "ret" THEN Append(bef[k], p)
                                              ELSE bef[k]]
      new  == ClHandleCxxExceptions /\ ~attrs.nounwind /\ MayThrowCalls(bef, unw) # {}
  IN IF new
     THEN [before |-> bef2, pads |-> Append(pds, <<p>>),
           unwindTo |-> [ks \in Pos \X Sites |-> IF ks \in MayThrowCalls(bef, unw)
                                        THEN Len(pds) + 1 ELSE unw[ks]]]
     ELSE [before |-> bef2, pads |-> pds, unwindTo |-> unw]

\* mutant: calls are turned into invokes even when no cleanup pad is made.
InsertAtExitsAlwaysInvoke(p, bef, pds, unw) ==
  LET bef2 == [k \in Pos |-> IF Op(k) = "ret" THEN Append(bef[k], p)
                                              ELSE bef[k]]
      pds2 == [q \in DOMAIN pds |-> Append(pds[q], p)]
      new  == ClHandleCxxExceptions /\ ~attrs.nounwind /\ MayThrowCalls(bef, unw) # {}
  IN [before |-> bef2,
      pads |-> IF new THEN Append(pds2, <<p>>) ELSE pds2,
      unwindTo |-> [ks \in Pos \X Sites |-> IF ks \in MayThrowCalls(bef, unw)
                                   THEN Len(pds2) + 1 ELSE unw[ks]]]

InsertAtExits(p, bef, pds, unw) ==
  LET bef2 == [k \in Pos |-> IF Op(k) = "ret" THEN Append(bef[k], p)
                                              ELSE bef[k]]
      pds2 == [q \in DOMAIN pds |-> Append(pds[q], p)]
      new  == ClHandleCxxExceptions /\ ~attrs.nounwind /\ MayThrowCalls(bef, unw) # {}
  IN IF new
     THEN [before |-> bef2, pads |-> Append(pds2, <<p>>),
           unwindTo |-> [ks \in Pos \X Sites |-> IF ks \in MayThrowCalls(bef, unw)
                                        THEN Len(pds2) + 1 ELSE unw[ks]]]
     ELSE [before |-> bef2, pads |-> pds2, unwindTo |-> unw]

-----------------------------------------------------------------------------
Bodies == {Append(s, Ret) : s \in UNION {[1..n -> Instrs] : n \in 0..MaxLen}}

Init ==
  /\ body \in Bodies
  /\ attrs \in Attrs
  /\ build \in Builds
  /\ pc = "scan"
  /\ idx = 1
  /\ Local = <<>> /\ All = <<>> /\ Atomics = <<>> /\ MemIntrin = <<>>
  /\ HasCalls = FALSE /\ Res = FALSE
  /\ before = [k \in Pos |-> <<>>]
  /\ fate = [k \in Pos |-> "kept"]
  /\ entry = <<>>
  /\ pads = <<>>
  /\ unwindTo = [ks \in Pos \X Sites |-> 0]

Frozen == UNCHANGED <<body, attrs, build>>

\* One iteration of the instruction loop (lines 484-517).  Calls flush the
\* segment; so does the end of a block (the br or ret that ends it).
ScanInst ==
  /\ pc = "scan" /\ idx <= N
  /\ idx' = IF idx = N THEN 1 ELSE idx + 1
  /\ pc' = IF idx = N THEN "loadstore" ELSE "scan"
  /\ CASE IsAtomic(idx) ->
            /\ Atomics' = Append(Atomics, idx)
            /\ UNCHANGED <<Local, All, MemIntrin, HasCalls, before>>
       [] Op(idx) \in PlainOps ->
            /\ Local' = Append(Local, idx)
            /\ UNCHANGED <<All, Atomics, MemIntrin, HasCalls, before>>
       [] Op(idx) \in CallOps ->
            /\ HasCalls' = TRUE
            /\ MemIntrin' = IF Op(idx) \in MemOps THEN Append(MemIntrin, idx)
                                                 ELSE MemIntrin
            /\ ChooseInstructionsToInstrument
            /\ UNCHANGED Atomics
       [] OTHER ->    \* the terminator ending the block
            /\ ChooseInstructionsToInstrument
            /\ UNCHANGED <<Atomics, MemIntrin, HasCalls>>
  /\ Frozen
  /\ UNCHANGED <<Res, fate, entry, pads, unwindTo>>

\* Lines 527-531: instrumentLoadOrStore on each of All, in order.
LowerLoadOrStore ==
  /\ pc = "loadstore"
  /\ IF ClInstrumentMemoryAccesses /\ attrs.sanitize /\ idx <= Len(All)
     THEN LET i == All[idx] IN
          /\ idx' = idx + 1
          /\ before' = IF LoadOrStoreProbe(i) = "none" THEN before
                       ELSE [before EXCEPT ![i] = Append(@, LoadOrStoreProbe(i))]
          /\ Res' = (Res \/ LoadOrStoreProbe(i) # "none")
          /\ UNCHANGED pc
     ELSE /\ pc' = "atomic" /\ idx' = 1
          /\ UNCHANGED <<before, Res>>
  /\ Frozen
  /\ UNCHANGED <<Local, All, Atomics, MemIntrin, HasCalls, fate, entry, pads, unwindTo>>

\* Lines 535-539: instrumentAtomic on each atomic, whatever the attributes.
LowerAtomic ==
  /\ pc = "atomic"
  /\ IF ClInstrumentAtomics /\ idx <= Len(Atomics)
     THEN LET i == Atomics[idx]
              r == AtomicProbe(i) IN
          /\ idx' = idx + 1
          /\ before' = IF r.p = "none" THEN before
                       ELSE [before EXCEPT ![i] = Append(@, r.p)]
          /\ fate' = [fate EXCEPT ![i] = r.fate]
          /\ Res' = (Res \/ r.p # "none")
          /\ UNCHANGED pc
     ELSE /\ pc' = "memintrin" /\ idx' = 1
          /\ UNCHANGED <<before, fate, Res>>
  /\ Frozen
  /\ UNCHANGED <<Local, All, Atomics, MemIntrin, HasCalls, entry, pads, unwindTo>>

\* Lines 541-545: instrumentMemIntrinsic replaces the intrinsic by a call
\* to the library function and returns false.
LowerMemIntrinsic ==
  /\ pc = "memintrin"
  /\ IF ClInstrumentMemIntrinsics /\ attrs.sanitize /\ idx <= Len(MemIntrin)
     THEN LET i == MemIntrin[idx] IN
          /\ idx' = idx + 1
          /\ before' = [before EXCEPT ![i] = Append(@, MemProbe(i))]
          /\ fate' = [fate EXCEPT ![i] = "erased"]
          /\ UNCHANGED pc
     ELSE /\ pc' = "ignores" /\ idx' = 1
          /\ UNCHANGED <<before, fate>>
  /\ Frozen
  /\ UNCHANGED <<Local, All, Atomics, MemIntrin, HasCalls, Res, entry, pads, unwindTo>>

\* Lines 548-554 with InsertRuntimeIgnores (lines 453-462).  The assert of
\* line 551 aborts a debug build; a release build goes on.
RuntimeIgnores ==
  /\ pc = "ignores"
  /\ IF attrs.noCheck /\ attrs.sanitize /\ build = "debug"
     THEN /\ pc' = "aborted"
          /\ UNCHANGED <<entry, before, pads, unwindTo>>
     ELSE /\ pc' = "entryexit"
          /\ IF attrs.noCheck /\ HasCalls
             THEN LET r == InsertAtExits("ignore_end", before, pads, unwindTo) IN
                  /\ entry' = <<"ignore_begin">> \o entry
                  /\ before' = r.before /\ pads' = r.pads /\ unwindTo' = r.unwindTo
             ELSE UNCHANGED <<entry, before, pads, unwindTo>>
  /\ Frozen
  /\ UNCHANGED <<idx, Local, All, Atomics, MemIntrin, HasCalls, Res, fate>>

\* Lines 557-587: func_entry at the top of the entry block, func_exit at
\* every exit, and for main a main_func_exit at every exit after it.
EntryExit ==
  /\ pc = "entryexit"
  /\ pc' = "done"
  /\ IF (Res \/ HasCalls) /\ ClInstrumentFuncEntryExit
     THEN LET r1 == InsertAtExits("func_exit", before, pads, unwindTo)
              r2 == IF attrs.isMain
                    THEN InsertAtExits("main_func_exit", r1.before, r1.pads,
                                       r1.unwindTo)
                    ELSE r1 IN
          /\ entry' = <<"func_entry">> \o entry
          /\ before' = r2.before /\ pads' = r2.pads /\ unwindTo' = r2.unwindTo
          /\ Res' = TRUE
     ELSE UNCHANGED <<entry, before, pads, unwindTo, Res>>
  /\ Frozen
  /\ UNCHANGED <<idx, Local, All, Atomics, MemIntrin, HasCalls, fate>>

Next == ScanInst \/ LowerLoadOrStore \/ LowerAtomic \/ LowerMemIntrinsic
        \/ RuntimeIgnores \/ EntryExit

Spec == Init /\ [][Next]_vars

-----------------------------------------------------------------------------
(* Properties.                                                             *)

AccessProbes == {"read", "write", "vptr_read", "vptr_update"}
AtomicProbes == {"atomic_load", "atomic_store", "atomic_rmw", "atomic_cas",
                 "thread_fence", "signal_fence"}
LifecycleProbes == {"func_entry", "func_exit", "main_func_exit",
                    "ignore_begin", "ignore_end"}
Probes == {"print"} \cup AccessProbes \cup AtomicProbes \cup MemOps
          \cup LifecycleProbes

TypeOK ==
  /\ pc \in {"scan", "loadstore", "atomic", "memintrin", "ignores",
             "entryexit", "done", "aborted"}
  /\ idx \in 1..(N + 1)
  /\ \A s \in {Local, All, Atomics, MemIntrin} : s \in Seq(Pos)
  /\ HasCalls \in BOOLEAN /\ Res \in BOOLEAN
  /\ before \in [Pos -> Seq(Probes)]
  /\ fate \in [Pos -> {"kept", "dead", "erased"}]
  /\ entry \in Seq(LifecycleProbes)
  /\ pads \in Seq(Seq(LifecycleProbes))
  /\ unwindTo \in [Pos \X Sites -> 0..Len(pads)]

Done == pc = "done"

AccessProbesAt(i) == SelectSeq(before[i], LAMBDA p : p \in AccessProbes)

(* Reference definition of the redundancy filter, read forwards: a segment *)
(* ends at a call or at the end of a block; a load is shadowed when a      *)
(* later store of the same segment writes the same address Value.          *)
Boundary(k) == Op(k) \in CallOps \cup {"br", "ret"}
SameSegment(i, j) == i < j /\ \A k \in i..(j - 1) : ~Boundary(k)
ShadowedByWrite(i) ==
  \E j \in Pos : SameSegment(i, j) /\ Op(j) = "store" /\ AddrOf(j) = AddrOf(i)

\* Spec section 4.1: the address classes, stated apart from the code's
\* predicates so that the reference does not share their mistakes.
SpecExcluded(a) ==
  a.kind \in {"pgo", "gcov", "as1"} \/ (a.kind = "alloca" /\ ~a.captured)
SpecConstant(a) == a.kind \in {"const", "vtload"}

Selected(i) ==
  LET a == AddrOf(i) IN
  /\ Op(i) \in PlainOps
  /\ ~SpecExcluded(a)
  /\ Op(i) = "store" \/ (~ShadowedByWrite(i) /\ ~SpecConstant(a))

\* Spec section 4.3: the probe of a selected access.
SpecProbe(i) ==
  CASE ~AddrOf(i).sized -> "none"
    [] body[i].vt -> IF Op(i) = "store" THEN "vptr_update" ELSE "vptr_read"
    [] OTHER -> IF Op(i) = "store" THEN "write" ELSE "read"

(* In a function with the sanitize_thread attribute, the backward scan of  *)
(* chooseInstructionsToInstrument, the segment flushes of runOnFunction    *)
(* and instrumentLoadOrStore together give every load and store exactly    *)
(* the probes the forward reference definition asks for: one probe for an  *)
(* access that is selected and has a probe size, none for any other.       *)
SelectionMatchesReference ==
  Done => \A i \in Pos :
            AccessProbesAt(i) =
              IF attrs.sanitize /\ Selected(i) /\ SpecProbe(i) # "none"
              THEN <<SpecProbe(i)>> ELSE <<>>

(* The ways control leaves the instrumented function: through the ret,     *)
(* or by an exception out of a call that may throw (an original call or an *)
(* inserted print call), which runs the cleanup pad the call was turned    *)
(* into an invoke to (or none).  Each path is the sequence of lifecycle    *)
(* probes it executes.                                                     *)
Lifecycle(s) == SelectSeq(s, LAMBDA p : p \in LifecycleProbes)
ExitPaths ==
  {entry \o Lifecycle(before[N])} \cup
  {entry \o (IF unwindTo[ks] = 0 THEN <<>> ELSE pads[unwindTo[ks]]) :
     ks \in IF attrs.nounwind THEN {} ELSE ThrowSites(before)}

Opener == ("func_exit" :> "func_entry") @@ ("ignore_end" :> "ignore_begin")

RECURSIVE Matched(_, _)
Matched(t, st) ==
  IF t = <<>> THEN st = <<>>
  ELSE LET p == Head(t) IN
       IF p \in {"func_entry", "ignore_begin"} THEN Matched(Tail(t), Append(st, p))
       ELSE IF p \in DOMAIN Opener
            THEN st # <<>> /\ Last(st) = Opener[p] /\ Matched(Tail(t), Front(st))
            ELSE st = <<>> /\ Tail(t) = <<>>    \* main_func_exit ends the path

(* Every way out of the function, the normal return and every unwind, runs *)
(* a func_exit for the func_entry and an ignore_end for the ignore_begin,  *)
(* properly nested, and for main ends with main_func_exit: the three       *)
(* EscapeEnumerator passes of runOnFunction and InsertRuntimeIgnores never *)
(* leave an exit uncovered nor cover one twice.                            *)
ExitCoverage ==
  Done => \A t \in ExitPaths :
            /\ Matched(t, <<>>)
            /\ attrs.isMain /\ entry # <<>> => Last(t) = "main_func_exit"

(* Spec section 8: an access that is not selected for instrumentation gets *)
(* no probe call at all (a store then a load of an unescaped stack slot    *)
(* emits zero probes).                                                     *)
NoProbeOnUnselectedAccess ==
  Done => \A i \in Pos :
            Op(i) \in PlainOps /\ ~(attrs.sanitize /\ Selected(i))
              => before[i] = <<>>

(* Spec section 9 (open question): a read is never dropped as shadowed by *)
(* a later write when an atomic operation, which may synchronise with     *)
(* another thread, lies between them.                                      *)
NoDropAcrossAtomic ==
  Done => \A i \in Pos :
            (/\ attrs.sanitize /\ Op(i) = "load" /\ AddrOf(i).sized
             /\ ~SpecExcluded(AddrOf(i)) /\ ~SpecConstant(AddrOf(i))
             /\ AccessProbesAt(i) = <<>>)
            => \E j \in Pos :
                 /\ SameSegment(i, j) /\ Op(j) = "store" /\ AddrOf(j) = AddrOf(i)
                 /\ \A k \in (i + 1)..(j - 1) : ~IsAtomic(k)

(* Spec section 7: a function marked both race-checked and suppressed is a *)
(* defect that aborts processing; the pass never emits access probes into *)
(* a function it also wraps in an ignore scope.                            *)
NoChecksInsideIgnoreScope ==
  Done => ~(/\ "ignore_begin" \in ToSet(entry)
            /\ \E i \in Pos : AccessProbesAt(i) # <<>>)

=============================================================================
