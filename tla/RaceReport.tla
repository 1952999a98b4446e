---------------------------- MODULE RaceReport ----------------------------
(***************************************************************************)
(* The race-reporting runtime of EmbedSanitizer (src/etsan/race_report.h)  *)
(* driven by instrumented threads.  Each thread enters and leaves          *)
(* instrumented functions (func_entry/func_exit reach pushFunction and     *)
(* popFunction) and reports races.  callStack is the shared                *)
(* unordered_map from the thread id (pthread_self cast to unsigned int) to *)
(* the thread's vector of function names; races is the shared std::set of  *)
(* reported races.  stackFrameLock guards lookups in callStack; no lock    *)
(* guards races.                                                           *)
(***************************************************************************)
EXTENDS Naturals, Sequences, SequencesExt

CONSTANTS
    Threads,        \* the threads of the instrumented program
    Tid,            \* Tid[t]: (unsigned int)pthread_self() of thread t
    Funcs,          \* function-name pointers passed to the probes
    RaceIds,        \* the races threads may report
    Reporters,      \* the threads whose accesses the detector flags
    MaxDepth,       \* deepest nesting of instrumented calls
    ExitInFrame,    \* may a thread end inside a function (pthread_exit)?
    NoRace          \* no race being reported

ASSUME /\ Tid \in [Threads -> Nat]
       /\ Reporters \subseteq Threads
       /\ MaxDepth \in Nat
       /\ ExitInFrame \in BOOLEAN

Tids == {Tid[t] : t \in Threads}

\* A Race carries the reporting thread's id, so races reported by two
\* threads are distinct elements of the set.
Races == Threads \X RaceIds

VARIABLES
    callStack,      \* unordered_map<unsigned, vector<char*>>
    races,          \* std::set<Race>
    tpc,            \* per thread: "new", "run", "pop", "stack", "insert",
                    \* "print", "iterate", "exited"
    frames,         \* per thread: the instrumented functions it is inside
    cur,            \* per thread: the race being reported
    snap,           \* per thread: the set as read by races.insert
    trace,          \* trace[r]: the call stack copied into race r
    printed,        \* per thread: the races of the last message it printed
    inserted,       \* the races whose races.insert has returned
    stackErrors,    \* threads that printed "Something wrong with Function Stack"
    listing         \* per thread: the functions of the last printStack result

vars == <<callStack, races, tpc, frames, cur, snap, trace, printed,
          inserted, stackErrors, listing>>

Init ==
  /\ callStack = [i \in Tids |-> <<>>]
  /\ races = {}
  /\ tpc = [t \in Threads |-> "new"]
  /\ frames = [t \in Threads |-> <<>>]
  /\ cur = [t \in Threads |-> NoRace]
  /\ snap = [t \in Threads |-> {}]
  /\ trace = [r \in Races |-> <<>>]
  /\ printed = [t \in Threads |-> {}]
  /\ inserted = {}
  /\ stackErrors = {}
  /\ listing = [t \in Threads |-> <<>>]

\* A thread starts; pthread_self values are reused only once the thread
\* that had the value has ended.
Start(t) ==
  /\ tpc[t] = "new"
  /\ \A u \in Threads \ {t} : Tid[u] = Tid[t] => tpc[u] \in {"new", "exited"}
  /\ tpc' = [tpc EXCEPT ![t] = "run"]
  /\ UNCHANGED <<listing, callStack, races, frames, cur, snap, trace, printed,
                 inserted, stackErrors>>

\* __tsan_func_entry -> pushFunction: push under stackFrameLock.
PushFunction(t, f) ==
  /\ tpc[t] = "run" /\ Len(frames[t]) < MaxDepth
  /\ frames' = [frames EXCEPT ![t] = Append(@, f)]
  /\ callStack' = [callStack EXCEPT ![Tid[t]] = Append(@, f)]
  /\ UNCHANGED <<listing, races, tpc, cur, snap, trace, printed, inserted,
                 stackErrors>>

\* popFunction, first half: the thread's vector is looked up under
\* stackFrameLock and the lock released; only a reference is kept.
PopLookup(t) ==
  /\ tpc[t] = "run" /\ frames[t] # <<>>
  /\ tpc' = [tpc EXCEPT ![t] = "pop"]
  /\ UNCHANGED <<listing, callStack, races, frames, cur, snap, trace, printed,
                 inserted, stackErrors>>

\* mutant: the name is compared with the first entry of the vector.
PopFunctionFront(t) ==
  /\ tpc[t] = "pop"
  /\ LET f  == Last(frames[t])
         st == callStack[Tid[t]] IN
     IF st # <<>> /\ Head(st) = f
     THEN /\ callStack' = [callStack EXCEPT ![Tid[t]] = Front(st)]
          /\ UNCHANGED stackErrors
     ELSE /\ stackErrors' = stackErrors \cup {t}
          /\ UNCHANGED callStack
  /\ frames' = [frames EXCEPT ![t] = Front(@)]
  /\ tpc' = [tpc EXCEPT ![t] = "run"]
  /\ UNCHANGED <<listing, races, cur, snap, trace, printed, inserted>>

\* popFunction, second half, outside the lock: the referenced vector is
\* popped only if its last name is the one passed, else the error is
\* printed.
PopFunction(t) ==
  /\ tpc[t] = "pop"
  /\ LET f  == Last(frames[t])
         st == callStack[Tid[t]] IN
     IF st # <<>> /\ Last(st) = f
     THEN /\ callStack' = [callStack EXCEPT ![Tid[t]] = Front(st)]
          /\ UNCHANGED stackErrors
     ELSE /\ stackErrors' = stackErrors \cup {t}
          /\ UNCHANGED callStack
  /\ frames' = [frames EXCEPT ![t] = Front(@)]
  /\ tpc' = [tpc EXCEPT ![t] = "run"]
  /\ UNCHANGED <<listing, races, cur, snap, trace, printed, inserted>>

\* getStack: the vector of the thread's id, copied.
GetStack(t) == callStack[Tid[t]]

\* printStack ("prints the call stack of a thread when a race is found"),
\* called by a thread the detector flags.  First half: the thread's vector
\* is looked up under stackFrameLock and the lock released; only a
\* reference is kept.
StackLookup(t) ==
  /\ tpc[t] = "run" /\ t \in Reporters
  /\ tpc' = [tpc EXCEPT ![t] = "stack"]
  /\ UNCHANGED <<listing, callStack, races, frames, cur, snap, trace, printed,
                 inserted, stackErrors>>

\* mutant: the loop over the frames starts at the second one.
PrintStackSkipOuter(t) ==
  /\ tpc[t] = "stack"
  /\ LET st == callStack[Tid[t]] IN
     listing' = [listing EXCEPT ![t] = IF st = <<>> THEN st ELSE Tail(st)]
  /\ tpc' = [tpc EXCEPT ![t] = "run"]
  /\ UNCHANGED <<callStack, races, frames, cur, snap, trace, printed,
                 inserted, stackErrors>>

\* ... second half, outside the lock: one line per function of the
\* referenced vector, outermost first (the growing indentation and the
\* "'--->" decoration are layout and left out).
PrintStack(t) ==
  /\ tpc[t] = "stack"
  /\ listing' = [listing EXCEPT ![t] = callStack[Tid[t]]]
  /\ tpc' = [tpc EXCEPT ![t] = "run"]
  /\ UNCHANGED <<callStack, races, frames, cur, snap, trace, printed,
                 inserted, stackErrors>>

\* mutant: the Race is built without the reporting thread's id.
ReportRaceNoTid(t, r) ==
  /\ tpc[t] = "run" /\ t \in Reporters /\ <<t, r>> \notin inserted
  /\ tpc' = [tpc EXCEPT ![t] = "insert"]
  /\ cur' = [cur EXCEPT ![t] = r]
  /\ snap' = [snap EXCEPT ![t] = races]
  /\ trace' = [trace EXCEPT ![<<t, r>>] = GetStack(t)]
  /\ UNCHANGED <<listing, callStack, races, frames, printed, inserted, stackErrors>>

\* reportRaceOnRead/Write: the Race is built with getStack(tid) and
\* races.insert starts by reading the tree.
ReportRace(t, r) ==
  /\ tpc[t] = "run" /\ t \in Reporters /\ <<t, r>> \notin inserted
  /\ tpc' = [tpc EXCEPT ![t] = "insert"]
  /\ cur' = [cur EXCEPT ![t] = <<t, r>>]
  /\ snap' = [snap EXCEPT ![t] = races]
  /\ trace' = [trace EXCEPT ![<<t, r>>] = GetStack(t)]
  /\ UNCHANGED <<listing, callStack, races, frames, printed, inserted, stackErrors>>

\* ... and finishes by linking the new node into the tree it read.
InsertRace(t) ==
  /\ tpc[t] = "insert"
  /\ races' = snap[t] \cup {cur[t]}
  /\ inserted' = inserted \cup {cur[t]}
  /\ tpc' = [tpc EXCEPT ![t] = "print"]
  /\ UNCHANGED <<listing, callStack, frames, cur, snap, trace, printed, stackErrors>>

\* printRaces: the loop over races starts, without a lock ...
PrintRacesBegin(t) ==
  /\ tpc[t] = "print"
  /\ tpc' = [tpc EXCEPT ![t] = "iterate"]
  /\ UNCHANGED <<listing, callStack, races, frames, cur, snap, trace, printed,
                 inserted, stackErrors>>

\* mutant: the message is built from the copy of the set read before the
\* insert.
PrintRacesStale(t) ==
  /\ tpc[t] = "iterate"
  /\ printed' = [printed EXCEPT ![t] = snap[t]]
  /\ tpc' = [tpc EXCEPT ![t] = "run"]
  /\ cur' = [cur EXCEPT ![t] = NoRace]
  /\ UNCHANGED <<listing, callStack, races, frames, snap, trace, inserted,
                 stackErrors>>

\* ... ends with the message built from the set it walked, which is then
\* printed under racePrintLock.
PrintRaces(t) ==
  /\ tpc[t] = "iterate"
  /\ printed' = [printed EXCEPT ![t] = races]
  /\ tpc' = [tpc EXCEPT ![t] = "run"]
  /\ cur' = [cur EXCEPT ![t] = NoRace]
  /\ UNCHANGED <<listing, callStack, races, frames, snap, trace, inserted,
                 stackErrors>>

\* The thread function returns (all frames popped) or, where the program
\* does so, calls pthread_exit from inside instrumented functions.
ThreadExit(t) ==
  /\ tpc[t] = "run"
  /\ frames[t] = <<>> \/ ExitInFrame
  /\ tpc' = [tpc EXCEPT ![t] = "exited"]
  /\ frames' = [frames EXCEPT ![t] = <<>>]
  /\ UNCHANGED <<listing, callStack, races, cur, snap, trace, printed, inserted,
                 stackErrors>>

Next ==
  \E t \in Threads :
    \/ Start(t)
    \/ \E f \in Funcs : PushFunction(t, f)
    \/ PopLookup(t)
    \/ PopFunction(t)
    \/ StackLookup(t)
    \/ PrintStack(t)
    \/ \E r \in RaceIds : ReportRace(t, r)
    \/ InsertRace(t)
    \/ PrintRacesBegin(t)
    \/ PrintRaces(t)
    \/ ThreadExit(t)

Spec == Init /\ [][Next]_vars

-----------------------------------------------------------------------------
(* Properties.                                                             *)

TypeOK ==
  /\ callStack \in [Tids -> Seq(Funcs)]
  /\ races \subseteq Races /\ inserted \subseteq Races
  /\ tpc \in [Threads -> {"new", "run", "pop", "stack", "insert", "print",
                            "iterate", "exited"}]
  /\ frames \in [Threads -> Seq(Funcs)]
  /\ cur \in [Threads -> Races \cup {NoRace}]
  /\ snap \in [Threads -> SUBSET Races]
  /\ trace \in [Races -> Seq(Funcs)]
  /\ printed \in [Threads -> SUBSET Races]
  /\ stackErrors \subseteq Threads
  /\ listing \in [Threads -> Seq(Funcs)]

Live(t) == tpc[t] \in {"run", "pop", "stack", "insert", "print", "iterate"}

(* The call stack the runtime keeps for a live thread is the sequence of   *)
(* instrumented functions the thread is inside, and the stack copied into  *)
(* a race by getStack is the reporting thread's: pushFunction and          *)
(* popFunction, over any interleaving of threads, keep callStack in step   *)
(* with the func_entry/func_exit probes of each thread.                    *)
CallStackTracksFrames ==
  \A t \in Threads :
    /\ Live(t) => callStack[Tid[t]] = frames[t]
    /\ tpc[t] \in {"insert", "print", "iterate"} => trace[cur[t]] = frames[t]

(* Spec section 5: the race-record set is safe under concurrent access: a  *)
(* race whose races.insert has returned stays in races.                    *)
NoLostRace == inserted \subseteq races

(* Spec section 5: the race-record set is safe under concurrent access:   *)
(* while printRaces walks the std::set, no other thread's races.insert     *)
(* relinks it.                                                             *)
NoInsertDuringIteration ==
  [][(\E t \in Threads : tpc[t] = "iterate") => races' = races]_vars

(* The runtime implements the abstract call-stack service: each thread's   *)
(* stack is the functions it is inside, a report adds the race with that   *)
(* stack to a set that never shrinks, a print shows the whole set, and     *)
(* printStack lists the calling thread's stack.                            *)
ABS == INSTANCE CallStackSpec
         WITH stack    <- frames,
              reported <- races,
              traces   <- [x \in Races |-> IF x \in races THEN trace[x] ELSE <<>>],
              shown    <- printed,
              listed   <- listing

ImplementsCallStackSpec == ABS!Spec

=============================================================================
