# TLA+ models of EmbedSanitizer

EmbedSanitizer is a ThreadSanitizer variant for embedded ARM targets. It has
two parts:

- an LLVM `FunctionPass` that decides which instructions of a function get
  calls into a race-detection runtime (`src/unnamed/part_000`, the pass's
  `ThreadSanitizer.cpp`);
- the runtime's race-reporting header, which keeps per-thread call stacks and
  the set of reported races (`src/etsan/race_report.h`).

The rest of the runtime (`interface.cc`, `race.h`, the detector) and the
EmbedSanitizer helper headers (`EmbedSanitizerExtension.h`,
`EmbedSanitizerDebugInfo.h`) are not in the repository's sources.

## Inventory

### Components, their state and operations

| Component | Code | State | Operations |
|---|---|---|---|
| Address classifier | `shouldInstrumentReadWriteFromAddress` 305-337, `addrPointsToConstantData` 339-363, `isVtableAccess` 295-300, the capture test 424-432 | none (pure) | classify an address Value |
| Local redundancy filter | `chooseInstructionsToInstrument` 377-436, called from `runOnFunction` 512, 516 | `LocalLoadsAndStores` (the segment), `WriteTargets`, `AllLoadsAndStores` | backward scan of one call-free segment |
| Probe table | `initializeCallbacks` 166-280 | the `Function*` callbacks | declare every runtime entry point |
| Access lowering | `instrumentLoadOrStore` 591-664, `getMemoryAccessFuncIndex` 838-855 | the IR | insert read/write/unaligned/vptr probe |
| Atomic lowering | `instrumentAtomic` 737-836, `createOrdering` 666-694, `isAtomic` 438-451 | the IR | replace atomics by ordering-parameterised calls |
| Bulk-memory lowering | `instrumentMemIntrinsic` 705-727 | the IR | replace memset/memcpy/memmove intrinsics by calls |
| Entry/exit synthesiser | `runOnFunction` 547-588, `InsertRuntimeIgnores` 453-462 | the IR, the cleanup pads | func_entry/func_exit, main_func_exit, ignore scope |
| Pass driver | `runOnFunction` 465-589 | `Res`, `HasCalls`, the four SmallVectors | the phases above in order |
| Race-report runtime | `race_report.h` | `callStack` (thread id -> vector of names), `races` (std::set), `stackFrameLock`, `racePrintLock` | `pushFunction`, `popFunction`, `getStack`, `printStack`, `reportRaceOnRead/Write`, `printRaces` |
| Glue | `INITIALIZE_PASS`, `doInitialization`, module constructor | none relevant | registration |

### How they interact

`runOnFunction` walks the instructions once. Atomics go to `AtomicAccesses`,
loads and stores to the current segment, and a call or the end of a block
flushes the segment through the redundancy filter (which consults the
address classifier and inserts a `__tsan_print_variables` call before every
access it sees). Then, in this order: access lowering of the selected
accesses (only with `sanitize_thread`), atomic lowering (always), bulk-memory
lowering (only with `sanitize_thread`), the ignore scope (functions with
`sanitize_thread_no_checking_at_run_time` and calls), and function
entry/exit probes if anything was instrumented or the function has calls.
Entry/exit and ignore scope use LLVM's `EscapeEnumerator`, which yields every
`ret` and `resume` and then, if some call may throw, a new cleanup landing
pad to which those calls are redirected as invokes.

At run time every instrumented thread calls the probes concurrently:
`func_entry`/`func_exit` reach `pushFunction`/`popFunction`, which keep a
per-thread stack keyed by `(unsigned int)pthread_self()`; a detected race is
built with a copy of that stack and inserted into `races`, and every report
prints all races.

### What is hard

- The pass is sequential, but its correctness is about the order of
  instructions: which read a later write shadows, where segments end, which
  exits (including unwinding) get probes, and how three `EscapeEnumerator`
  passes see each other's cleanup pads.
- The runtime is shared by all threads: `races` is modified without a lock,
  `popFunction` works on the vector after releasing the lock, thread ids are
  truncated and reused, and stack entries are never erased.

### What makes each component correct

- Filter: a load or store is instrumented exactly when the spec's forward
  definition says (not excluded; a load not shadowed by a later same-segment
  write and not constant); no read is dropped across a synchronising
  operation.
- Entry/exit: on every path out of the function, normal or unwinding, the
  lifecycle probes are balanced and nested, and `main` ends with
  `main_func_exit`.
- Lowering: the probe, its size class, alignment variant, ordering code and
  argument list match the declared runtime interface.
- Runtime: each thread's recorded stack is the functions it is inside; a
  reported race is never lost.

## Modules

### `TsanPass` (pass driver, filter, classifier, lowering choice, entry/exit)

One function per behaviour. `body` is a flat sequence of instruction
records `[op, addr, vt]` ending in `ret`; a `br` ends a block. An address is
a record `[name, kind, captured, sized]`: `kind` is what the LLVM analyses
find as the base (`global`, `const`, `alloca`, `pgo`, `gcov`, `as1`,
`vtload`), `captured` is `PointerMayBeCaptured`, `sized` is
`getMemoryAccessFuncIndex >= 0`. Distinct records are distinct IR Values, as
`WriteTargets` compares Values. `attrs` holds `sanitize_thread`,
`sanitize_thread_no_checking_at_run_time`, whether the function is `main`,
and `nounwind`; `build` is whether assertions are compiled in (only the
assert at line 551 is modelled: with assertions on, LLVM's `CreateCall`
would already reject the calls whose argument count does not match their
declaration, lines 391, 403, 572, which `probe_arity` shows).

`const` stands for what `addrPointsToConstantData` recognises: a constant
global reached directly or through one `GetElementPtrInst` (lines 339-350).
A constant global behind a bitcast or a constant-expression GEP is not
recognised by the code and is the kind `global` in the model; the reference
`SpecConstant` uses the same labels, so that gap (extra instrumentation,
never a missed race) is not something a run can show.

The output IR is `before[i]` (calls inserted immediately before instruction
`i`, in insertion order), `fate[i]` (`kept`, `dead` for an atomic load whose
uses were replaced, `erased`), `entry` (calls at the top of the entry block),
`pads` (cleanup landing pads, each the calls before its `resume`) and
`unwindTo[k]` (the pad a call was turned into an invoke to).

Actions, one per phase step of `runOnFunction`: `ScanInst` (one iteration of
the instruction loop, including the whole `chooseInstructionsToInstrument`
flush), `LowerLoadOrStore`, `LowerAtomic`, `LowerMemIntrinsic` (one element of
each list, or leaving the phase), `RuntimeIgnores` (lines 547-554 with the
assert), `EntryExit` (lines 556-588). `Choose` is the backward scan as a
RECURSIVE operator; `InsertAtExits` is one `EscapeEnumerator` loop.

The `EscapeEnumerator` behaviour is LLVM's (not this repository's): it is
written from LLVM's implementation and mapped to the lines that use it.
A throw site is a position and `"call"` (the original call) or `"print"`
(the `__tsan_print_variables` calls inserted before it): initializeCallbacks
declares every probe with `NoUnwind` except `__tsan_print_variables`, so
`EscapeEnumerator` turns those calls into invokes too, and a function with
no call of its own but a checked access still gets its cleanup pads.
Single-thread-scoped atomic loads/stores, swifterror addresses and landing
pads already present in the input are not in the alphabets yet.

### `RaceReport` (runtime)

`callStack` maps thread ids to sequences of function names, `races` is the
set of races, `Tid` maps threads to their `pthread_self` value. Each thread
has a ghost `frames` (the instrumented functions it is inside). Actions:
`Start`, `PushFunction`, `PopLookup` (popFunction up to the unlock: the
vector is looked up and only a reference kept), `PopFunction` (the check and
`pop_back` done after the unlock), `ReportRace` (builds the race with
`GetStack` and reads the set), `InsertRace` (writes the set back: the
unlocked `std::set::insert` split into its read and its write, which is one
outcome of the data race), `PrintRacesBegin` and `PrintRaces` (the
unlocked walk over the set as an interval, so other threads can run inside
it, ending with the message printed under `racePrintLock`), `StackLookup`
and `PrintStack` (printStack: the vector looked up under the lock, then
listed after the unlock into `listing`, the functions in order with the
indentation left out; only reporting threads call it, as its comment says
it runs when a race is found), `ThreadExit` (normal return, or
`pthread_exit` inside functions when `ExitInFrame`).

`CallStackSpec` has the same operations atomic, with `List(t)` for
printStack (see below).

### `ProbeCalls` (probe table, access and atomic lowering, argument by argument)

`Decl(fn)` is the parameter type list `initializeCallbacks` declares for
each probe (LLVM types as tokens; `iN` is the integer of the call's size
class `idx`). Each action is one call-building handler applied to one
instruction drawn from small sets: `InstrumentLoadOrStore` (swifterror and
bad-size early returns, the vptr branches, the aligned/unaligned choice, the
line cast to i8), `AtomicLoad`, `AtomicStore`, `AtomicRMW` (operations
without a `NamePart` get no probe), `AtomicCAS` (the call, then the
`{old, success}` pair rebuilt by `CasResult`), `AtomicFence`,
`PrintVariables`, `IgnoreScope` (ignore begin/end, no argument),
`Lifecycle` (entry, exit, main exit, passed the function name) and
`MemIntrinsic`. `inst` is the instruction, `call` the call record
`[fn, idx, tys, line, ords]` and `res` what the users of a cmpxchg see.
`GetMemoryAccessFuncIndex` uses a RECURSIVE `CountTrailingZeros`;
`CreateOrdering` is `createOrdering`. The orderings enumerated for each
instruction kind are those the IR verifier admits (no `consume`: LLVM's IR
has no keyword for it and clang lowers it to acquire). The runtime's
`compare_exchange_val` (not in the sources) is modelled from spec section 6:
it returns the cell's old value.

### `CallStackSpec` (abstract runtime)

What spec sections 5 and 6 promise of the runtime, with atomic operations:
a per-thread `stack`, `Report` adds a race with the current stack to
`reported` (which never shrinks), `Show` prints all of `reported`, `List`
shows the thread's own stack.
`RaceReport` maps onto it with `stack <- frames` (what the thread really is
inside), `reported <- races`, `traces <- trace` for the races in the set,
`shown <- printed`, `listed <- listing`: so a race recorded with a wrong
stack, a race that disappears, a print that misses one, or a stack listing
that is not the caller's stack, is a step the abstract spec does not
allow.

## Runs

| Run | Bounds | Checks | Result |
|---|---|---|---|
| `pass_selection` | bodies of 0-4 instructions over loads/stores of `gM`,`gC`,`sL`,`pg`, vptr load/store, call, br, fence; sanitize on/off (32k functions) | `SelectionMatchesReference` | pass, 737k states |
| `pass_exits` | bodies of 0-3 over call, load, bad-size store, all atomic kinds, memcpy; all 16 attribute sets, debug build | `TypeOK`, `ExitCoverage` | pass, 210k states |
| `pass_print_probes` | as selection, length 2 | `NoProbeOnUnselectedAccess` | violation: print calls on dropped accesses |
| `pass_atomic_segment` | as selection, length 3 | `NoDropAcrossAtomic` | violation: load; fence; store drops the load |
| `pass_conflict_release` | both attributes, release build, length 2 | `NoChecksInsideIgnoreScope` | violation: probes inside an ignore scope |
| `runtime_refinement` | 2 threads, distinct ids, 2 functions, depth 2, 2 races, one reporting thread | `TypeOK`, `CallStackTracksFrames`, `ImplementsCallStackSpec` | pass, 284k states |
| `runtime_print_during_insert` | 2 reporting threads, 1 race each | `NoInsertDuringIteration` | violation: a print walks the set during another thread's insert |
| `runtime_lost_race` | 2 threads, 2 races each | `NoLostRace` | violation: concurrent inserts lose a race |
| `runtime_reused_tid` | 2 threads sharing an id, exit inside a frame allowed | `CallStackTracksFrames` | violation: the later thread inherits frames |
| `probe_sizes_cas` | store sizes 8,16,24,32,64,128 bits; alignments 0-16; lines 12, 268; every ordering, RMW op and scope; cell values {0,1} | `SizeClassMatchesAccess` | pass, 1.8k states |
| `probe_arity` | as above | `CallsMatchDeclarations` | violation: print and exit calls pass more arguments than declared |
| `probe_line` | as above | `LineReachesRuntime` | violation: line 268 arrives as 12 |

Why the bounds are enough: a segment interaction needs a load, a store and
one separator (call, br or fence), so four instructions cover the shapes of
two segments with an access each side; `gM`/`gC`/`sL`/`pg` cover every
branch of the filter (eligible, constant, non-captured stack, excluded). The
exit question needs throw sites (a call, or the print call before an
access; one cleanup pad per enumerator covers them all) plus
an atomic or an access that sets `Res`, so three instructions with every
attribute combination reach all three enumerators and the assert. Two
threads and depth two are enough for a stack to differ at its top from its
bottom, which is what `popFunction`'s check looks at.

The refinement run has one reporting thread: with two, the unlocked insert
loses races (that is `runtime_lost_race`), and the refinement then fails for
the same reason; the other thread still interleaves its pushes and pops with
every step of the report, which is what the traces are checked against.
In `ProbeCalls` every instruction is one step from any state, so every pair
of inputs is checked; i24 is the unusual size, line 268 the first that
does not fit in 8 bits, and cell values {0,1} give both outcomes of a
cmpxchg.

With distinct thread ids each vector in `callStack` is touched only by its
own thread, so in `runtime_refinement` the gap between a lookup under
`stackFrameLock` and its use after the unlock cannot go wrong; that gap
matters when two threads share a key, which `runtime_reused_tid` shows.

The pass terminates, so its runs set `CHECK_DEADLOCK FALSE`; the runtime
runs end when every thread has exited.

No liveness property is checked. The one the runtime should have (a
report's own `printRaces` eventually shows its race) can only fail through
another reporter's unlocked insert, which `runtime_lost_race` already shows
as a safety violation; with one reporter it holds by the shape of
`InsertRace` and `PrintRaces`, so it would say nothing.

Each property of a passing run has a mutant in `PROJECT.json` (a missed
`Local.clear()`, an enumerator that ignores `resume`, invokes without a pad,
`popFunction` comparing with the first entry, a Race built without the
thread id, a printStack loop that skips the outermost frame, a print that shows the
`races` read before its iteration began, a size index
counted in bits), and TLC
finds each one.

## Findings

- `__tsan_print_variables` (lines 391, 403) is called before every load and
  store, whatever the filter decides and in every function, contrary to the
  spec's zero-probe scenario.
  Those calls do not set `Res`, so `runOnFunction` can also return false
  for a function it changed.
- Atomics do not end a segment (line 489), the open question of spec
  section 9: a read before a fence is dropped when the same address is
  written after it.
- The conflicting-attribute check (line 551) is an assert only; a release
  build instruments the function and wraps it in an ignore scope, where spec
  section 7 asks for an abort.
- `printRaces` walks `races` without a lock (line 49) while other threads
  insert into it.
- `races.insert` (race_report.h 127, 138) is unsynchronised: concurrent
  reports can lose a race.
- `__tsan_print_variables` is declared with `(i32, i8*)` and called with
  four arguments; `__tsan_func_exit` and `__tsan_main_func_exit` are
  declared with no parameters and called with the function name (lines 175,
  179-184 against 391, 403, 572, 583).
- The source line reaches every probe cast to i8: lines from 256 on wrap.
- Call stacks keyed by a reused `pthread_self` value and never erased carry
  an ended thread's frames into a new thread.

## Plan

Done: `TsanPass`, `RaceReport` (every function of `race_report.h`),
`CallStackSpec` (with the refinement), `ProbeCalls`,
and their MC modules and cfgs.

Next, in order:

1. `InstrumentedProgram`: compose `TsanPass` output with `RaceReport`:
   threads execute instrumented functions, their func_entry/func_exit calls
   (on normal and unwinding exits) drive the runtime, and
   `CallStackTracksFrames` is checked over executions of pass output.
2. `TsanPass` extensions: landing pads already in the input (`invoke`,
   `resume`), single-thread atomics, swifterror addresses.
3. Larger runtime instances (three threads, depth three) where the state
   space allows; a run where two live threads share a truncated
   `pthread_self` key (64-bit hosts).

## Not modelled

Pass registration and the module constructor (glue with no state a property
distinguishes); the debug-info helpers and `InstrIfSynchronization` (not in
the sources); the text of the race message and the indentation of
`printStack`'s lines (layout: the model keeps which races and which
functions they show, in order). The aligned/unaligned choice is modelled
exactly but no property states which answer is right for an 8-aligned
16-byte access: that depends on the runtime's `__tsan_read16`, which is not
in the sources. The `{old, success}` pair `instrumentAtomic` rebuilds for a
cmpxchg is modelled (`CasResult`) but no property checks it: without bit
widths, and with the runtime's `compare_exchange_val` not in the sources,
it would only restate `CasResult`. `createOrdering`'s missing `Consume` case cannot be reached
from IR, which has no consume ordering.
