----------------------------- MODULE ProbeCalls -----------------------------
(***************************************************************************)
(* The runtime calls the pass emits, argument by argument                  *)
(* (src/unnamed/part_000): the signatures initializeCallbacks declares for *)
(* every probe, and the call each lowering handler builds for one          *)
(* instruction (instrumentLoadOrStore, instrumentAtomic, the print,        *)
(* entry/exit and ignore calls, instrumentMemIntrinsic).  inst is the      *)
(* instruction being lowered, call the call inserted for it (or NoCall),   *)
(* res what cmpxchg's users see after the call.  Argument types are LLVM   *)
(* types: "i8*", "i8", "i32", "intptr", and "iN"/"iN*" for the integer of  *)
(* the access's size class, which call.idx gives.                          *)
(***************************************************************************)
EXTENDS Integers, Sequences

CONSTANTS
    StoreBits,  \* store sizes in bits of the accessed types
    Aligns,     \* declared alignments (0: none given)
    Lines,      \* source lines getLineNumber may return
    Vals,       \* values a memory cell may hold
    NoCall

kNumberOfAccessSizes == 5

\* The LLVM orderings an atomic instruction of the IR can carry.
Orderings == {"unordered", "monotonic", "acquire", "release", "acq_rel", "seq_cst"}
\* AtomicRMWInst operations, FIRST_BINOP .. LAST_BINOP.
RMWOps == {"xchg", "add", "sub", "and", "nand", "or", "xor", "max", "min",
           "umax", "umin"}

\* The NamePart chosen per RMW operation; the others get no probe.
RMWName == [xchg |-> "exchange", add |-> "fetch_add", sub |-> "fetch_sub",
            and |-> "fetch_and", or |-> "fetch_or", xor |-> "fetch_xor",
            nand |-> "fetch_nand"]

\* initializeCallbacks: the parameter types of every probe it declares.
Access4 == <<"i8*", "i8", "i8*", "i8*">>
Decl(fn) ==
  CASE fn = "print_variables" -> <<"i32", "i8*">>
    [] fn \in {"main_func_exit", "func_exit", "ignore_thread_begin",
               "ignore_thread_end"} -> <<>>
    [] fn = "func_entry" -> <<"i8*">>
    [] fn \in {"read", "write", "unaligned_read", "unaligned_write",
               "vptr_read"} -> Access4
    [] fn = "vptr_update" -> <<"i8*", "i8*", "i8", "i8*", "i8*">>
    [] fn = "atomic_load" -> <<"iN*", "i32">>
    [] fn \in {"atomic_store"} \cup {RMWName[o] : o \in DOMAIN RMWName} ->
         <<"iN*", "iN", "i32">>
    [] fn = "compare_exchange_val" -> <<"iN*", "iN", "iN", "i32", "i32">>
    [] fn \in {"thread_fence", "signal_fence"} -> <<"i32">>
    [] fn \in {"memmove", "memcpy"} -> <<"i8*", "i8*", "intptr">>
    [] fn = "memset" -> <<"i8*", "i32", "intptr">>

\* countTrailingZeros of a positive number.
RECURSIVE CountTrailingZeros(_)
CountTrailingZeros(x) == IF x % 2 = 1 THEN 0 ELSE 1 + CountTrailingZeros(x \div 2)

\* mutant: the trailing zeros of the size in bits, not in bytes.
GetMemoryAccessFuncIndexBits(ts) ==
  IF ts \notin {8, 16, 32, 64, 128} THEN -1 ELSE CountTrailingZeros(ts)

\* getMemoryAccessFuncIndex: the size class, or -1 for an unusual size.
GetMemoryAccessFuncIndex(ts) ==
  IF ts \notin {8, 16, 32, 64, 128} THEN -1 ELSE CountTrailingZeros(ts \div 8)

\* IRB.CreateIntCast(line, Int8Ty, false): truncation to 8 bits.
LineArg(ln) == ln % 256

\* createOrdering.
CreateOrdering(o) ==
  CASE o \in {"unordered", "monotonic"} -> 0
    [] o = "acquire" -> 2 [] o = "release" -> 3
    [] o = "acq_rel" -> 4 [] o = "seq_cst" -> 5

Call(fn, idx, tys, ln, ords) ==
  [fn |-> fn, idx |-> idx, tys |-> tys, line |-> ln, ords |-> ords]

VARIABLES inst, call, res

vars == <<inst, call, res>>

Init == inst = [kind |-> "none"] /\ call = NoCall /\ res = NoCall

\* instrumentLoadOrStore.
InstrumentLoadOrStore(w, vt, ts, al, ln, swift) ==
  LET idx == GetMemoryAccessFuncIndex(ts)
      aligned == al = 0 \/ al >= 8 \/ al % (ts \div 8) = 0
      fn == CASE vt /\ w  -> "vptr_update"
              [] vt /\ ~w -> "vptr_read"
              [] aligned  -> IF w THEN "write" ELSE "read"
              [] OTHER    -> IF w THEN "unaligned_write" ELSE "unaligned_read"
      tys == IF fn = "vptr_update" THEN <<"i8*", "i8*", "i8", "i8*", "i8*">>
             ELSE Access4
  IN /\ inst' = [kind |-> "access", w |-> w, vt |-> vt, bits |-> ts,
                 align |-> al, line |-> ln, swift |-> swift]
     /\ call' = IF swift \/ idx < 0 THEN NoCall
                ELSE Call(fn, idx, tys, LineArg(ln), <<>>)
     /\ res' = NoCall

\* The orderings the IR verifier admits for each kind of atomic.
LoadOrderings  == {"unordered", "monotonic", "acquire", "seq_cst"}
StoreOrderings == {"unordered", "monotonic", "release", "seq_cst"}
RMWOrderings   == Orderings \ {"unordered"}
FenceOrderings == {"acquire", "release", "acq_rel", "seq_cst"}
FailureOrderings(so) ==
  {"monotonic"} \cup (IF so \in {"acquire", "acq_rel", "seq_cst"}
                      THEN {"acquire"} ELSE {})
                \cup (IF so = "seq_cst" THEN {"seq_cst"} ELSE {})

\* instrumentAtomic, atomic load: the loaded value is cast back to its type.
AtomicLoad(ts, o) ==
  LET idx == GetMemoryAccessFuncIndex(ts) IN
  /\ inst' = [kind |-> "aload", bits |-> ts, ord |-> o]
  /\ call' = IF idx < 0 THEN NoCall
             ELSE Call("atomic_load", idx, <<"iN*", "i32">>, 0,
                       <<CreateOrdering(o)>>)
  /\ res' = NoCall

\* instrumentAtomic, atomic store: replaced by the call.
AtomicStore(ts, o) ==
  LET idx == GetMemoryAccessFuncIndex(ts) IN
  /\ inst' = [kind |-> "astore", bits |-> ts, ord |-> o]
  /\ call' = IF idx < 0 THEN NoCall
             ELSE Call("atomic_store", idx, <<"iN*", "iN", "i32">>, 0,
                       <<CreateOrdering(o)>>)
  /\ res' = NoCall

\* instrumentAtomic, atomicrmw: TsanAtomicRMW[op][Idx] is null for the
\* operations without a NamePart, and the instruction is left alone.
AtomicRMW(op, ts, o) ==
  LET idx == GetMemoryAccessFuncIndex(ts) IN
  /\ inst' = [kind |-> "rmw", op |-> op, bits |-> ts, ord |-> o]
  /\ call' = IF idx < 0 \/ op \notin DOMAIN RMWName THEN NoCall
             ELSE Call(RMWName[op], idx, <<"iN*", "iN", "i32">>, 0,
                       <<CreateOrdering(o)>>)
  /\ res' = NoCall

\* The runtime's compare_exchange_val on a cell holding m: it returns m.
CompareExchangeVal(m, e, n) == m

\* instrumentAtomic, cmpxchg: {old value, success} is rebuilt from the
\* call's result: success is icmp eq with the cast expected value, and the
\* old value is cast back with inttoptr when the operand is a pointer.
CasResult(c, e, isPtr) ==
  [old |-> c, ty |-> IF isPtr THEN "ptr" ELSE "int", success |-> c = e]

AtomicCAS(ts, isPtr, so, fo, m, e, n) ==
  LET idx == GetMemoryAccessFuncIndex(ts) IN
  /\ inst' = [kind |-> "cas", bits |-> ts, ptr |-> isPtr, ords |-> <<so, fo>>,
              cell |-> m, expected |-> e, new |-> n]
  /\ call' = IF idx < 0 THEN NoCall
             ELSE Call("compare_exchange_val", idx,
                       <<"iN*", "iN", "iN", "i32", "i32">>, 0,
                       <<CreateOrdering(so), CreateOrdering(fo)>>)
  /\ res' = IF idx < 0 THEN NoCall
            ELSE CasResult(CompareExchangeVal(m, e, n), e, isPtr)

\* instrumentAtomic, fence: single-thread scope goes to the signal fence.
AtomicFence(single, o) ==
  /\ inst' = [kind |-> "fence", single |-> single, ord |-> o]
  /\ call' = Call(IF single THEN "signal_fence" ELSE "thread_fence", 0,
                  <<"i32">>, 0, <<CreateOrdering(o)>>)
  /\ res' = NoCall

\* chooseInstructionsToInstrument: the __tsan_print_variables call put
\* before every load and store of a segment.
PrintVariables(ln) ==
  /\ inst' = [kind |-> "segment_access", line |-> ln]
  /\ call' = Call("print_variables", 0, <<"i32", "i8*", "i8", "i8*">>,
                  LineArg(ln), <<>>)
  /\ res' = NoCall

\* InsertRuntimeIgnores: ignore_thread_begin at the entry and
\* ignore_thread_end at every exit, with no argument.
IgnoreScope(fn) ==
  /\ inst' = [kind |-> "function"]
  /\ call' = Call(fn, 0, <<>>, 0, <<>>)
  /\ res' = NoCall

\* runOnFunction: func_entry at the entry, func_exit and main_func_exit at
\* every exit, each passed the function's name.
Lifecycle(fn) ==
  /\ inst' = [kind |-> "function"]
  /\ call' = Call(fn, 0, <<"i8*">>, 0, <<>>)
  /\ res' = NoCall

\* instrumentMemIntrinsic: the library call replacing the intrinsic.
MemIntrinsic(k) ==
  /\ inst' = [kind |-> k]
  /\ call' = Call(k, 0, IF k = "memset" THEN <<"i8*", "i32", "intptr">>
                        ELSE <<"i8*", "i8*", "intptr">>, 0, <<>>)
  /\ res' = NoCall

Next ==
  \/ \E w, vt, swift \in BOOLEAN, ts \in StoreBits, al \in Aligns, ln \in Lines :
       InstrumentLoadOrStore(w, vt, ts, al, ln, swift)
  \/ \E ts \in StoreBits, o \in LoadOrderings : AtomicLoad(ts, o)
  \/ \E ts \in StoreBits, o \in StoreOrderings : AtomicStore(ts, o)
  \/ \E op \in RMWOps, ts \in StoreBits, o \in RMWOrderings : AtomicRMW(op, ts, o)
  \/ \E ts \in StoreBits, isPtr \in BOOLEAN, so \in RMWOrderings,
        m, e, n \in Vals :
       \E fo \in FailureOrderings(so) : AtomicCAS(ts, isPtr, so, fo, m, e, n)
  \/ \E single \in BOOLEAN, o \in FenceOrderings : AtomicFence(single, o)
  \/ \E ln \in Lines : PrintVariables(ln)
  \/ \E fn \in {"ignore_thread_begin", "ignore_thread_end"} : IgnoreScope(fn)
  \/ \E fn \in {"func_entry", "func_exit", "main_func_exit"} : Lifecycle(fn)
  \/ \E k \in {"memset", "memcpy", "memmove"} : MemIntrinsic(k)

Spec == Init /\ [][Next]_vars

-----------------------------------------------------------------------------
(* Properties.                                                             *)

SizedKinds == {"access", "aload", "astore", "rmw", "cas"}

\* Spec section 4.3/4.4: what is left uninstrumented on purpose.
SoftSkip ==
  \/ inst.bits \notin {8, 16, 32, 64, 128}
  \/ inst.kind = "access" /\ inst.swift
  \/ inst.kind = "rmw" /\ inst.op \in {"max", "min", "umax", "umin"}

(* Every load, store or atomic of a usual size (1, 2, 4, 8 or 16 bytes)   *)
(* gets a call, and the call goes to the probe declared for exactly that   *)
(* size: getMemoryAccessFuncIndex's countTrailingZeros picks one of the    *)
(* kNumberOfAccessSizes probes, and 2^Idx bytes is the access's store size;*)
(* only bad sizes, swifterror addresses and RMW operations without a probe *)
(* are skipped.                                                            *)
SizeClassMatchesAccess ==
  inst.kind \in SizedKinds =>
    /\ call = NoCall <=> SoftSkip
    /\ call # NoCall => /\ call.idx \in 0..(kNumberOfAccessSizes - 1)
                        /\ 8 * 2^call.idx = inst.bits

(* Every call the pass inserts passes exactly the parameters that          *)
(* initializeCallbacks declared for its callee, in number and type.        *)
CallsMatchDeclarations ==
  call # NoCall => call.tys = Decl(call.fn)

(* Spec section 4.3: the probe of an access receives the access's source  *)
(* line, which the runtime stores in the race it reports.                  *)
LineReachesRuntime ==
  call # NoCall /\ "line" \in DOMAIN inst => call.line = inst.line

=============================================================================
