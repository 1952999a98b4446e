--------------------------- MODULE CallStackSpec ---------------------------
(***************************************************************************)
(* What the race-reporting runtime promises its callers (spec sections 5  *)
(* and 6), with every operation atomic: each thread has a stack of the     *)
(* instrumented functions it is inside; a reported race is recorded with   *)
(* the reporting thread's stack at that moment, in a set that only grows;  *)
(* a print shows every recorded race; a thread can list its own stack.     *)
(***************************************************************************)
EXTENDS Naturals, Sequences

CONSTANTS Threads, Funcs, RaceIds, MaxDepth

Races == Threads \X RaceIds

VARIABLES
    stack,      \* per thread: the functions it is inside, innermost last
    reported,   \* the recorded races
    traces,     \* traces[x]: the stack recorded with race x
    shown,      \* per thread: the races of its last print
    listed      \* per thread: the stack its last listing showed

vars == <<stack, reported, traces, shown, listed>>

Init ==
  /\ stack = [t \in Threads |-> <<>>]
  /\ reported = {}
  /\ traces = [x \in Races |-> <<>>]
  /\ shown = [t \in Threads |-> {}]
  /\ listed = [t \in Threads |-> <<>>]

Enter(t, f) ==
  /\ Len(stack[t]) < MaxDepth
  /\ stack' = [stack EXCEPT ![t] = Append(@, f)]
  /\ UNCHANGED <<reported, traces, shown, listed>>

Leave(t) ==
  /\ stack[t] # <<>>
  /\ stack' = [stack EXCEPT ![t] = SubSeq(@, 1, Len(@) - 1)]
  /\ UNCHANGED <<reported, traces, shown, listed>>

Report(t, r) ==
  /\ <<t, r>> \notin reported
  /\ reported' = reported \cup {<<t, r>>}
  /\ traces' = [traces EXCEPT ![<<t, r>>] = stack[t]]
  /\ UNCHANGED <<stack, shown, listed>>

Show(t) ==
  /\ shown' = [shown EXCEPT ![t] = reported]
  /\ UNCHANGED <<stack, reported, traces, listed>>

List(t) ==
  /\ listed' = [listed EXCEPT ![t] = stack[t]]
  /\ UNCHANGED <<stack, reported, traces, shown>>

Exit(t) ==
  /\ stack' = [stack EXCEPT ![t] = <<>>]
  /\ UNCHANGED <<reported, traces, shown, listed>>

Next ==
  \E t \in Threads :
    \/ \E f \in Funcs : Enter(t, f)
    \/ Leave(t)
    \/ \E r \in RaceIds : Report(t, r)
    \/ Show(t)
    \/ List(t)
    \/ Exit(t)

Spec == Init /\ [][Next]_vars

=============================================================================
