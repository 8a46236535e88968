------------------------------ MODULE CosClass ------------------------------
(***************************************************************************)
(* What a lord and the kernel together promise the threads of the class:   *)
(* a thread is in one place, a CPU runs one thread, an order puts runnable *)
(* threads on different CPUs, and a scheduler that does not preempt uses   *)
(* free CPUs only.  There is no queue, no message and no view here.        *)
(***************************************************************************)
EXTENDS Integers, FiniteSets

CONSTANTS
    Threads,    \* the threads that may join the class
    ClassCpus,  \* the CPUs the class may use: never the lord's
    Preempts    \* may an order take a CPU from a thread of the class?

VARIABLES
    phase,      \* where each thread is
    running     \* the thread each CPU runs, or 0

classVars == <<phase, running>>

Init ==
    /\ phase = [t \in Threads |-> "absent"]
    /\ running = [c \in ClassCpus |-> 0]

\* A thread changes its state by itself: it joins, wakes up, or ends its turn.
Moves == {<<"absent", "runnable">>, <<"absent", "blocked">>, <<"blocked", "runnable">>,
          <<"running", "runnable">>, <<"running", "blocked">>, <<"running", "absent">>,
          <<"runnable", "absent">>, <<"blocked", "absent">>}

Move(t, to) ==
    /\ <<phase[t], to>> \in Moves
    /\ phase' = [phase EXCEPT ![t] = to]
    /\ running' = [c \in ClassCpus |-> IF running[c] = t THEN 0 ELSE running[c]]

\* One order: shots[c] is the thread that gets CPU c, or 0.
Run(shots) ==
    LET taken     == {c \in ClassCpus : shots[c] # 0}
        displaced == {running[c] : c \in taken} \ {0}
    IN /\ \A c \in taken : phase[shots[c]] = "runnable"
       /\ \A c, d \in taken : shots[c] = shots[d] => c = d
       /\ displaced = {} \/ Preempts
       /\ running' = [c \in ClassCpus |-> IF c \in taken THEN shots[c] ELSE running[c]]
       /\ phase' = [t \in Threads |-> IF \E c \in taken : shots[c] = t THEN "running"
                                      ELSE IF t \in displaced THEN "runnable"
                                      ELSE phase[t]]

Next ==
    \/ \E t \in Threads, to \in {"absent", "blocked", "runnable"} : Move(t, to)
    \/ \E shots \in [ClassCpus -> Threads \cup {0}] : Run(shots)

Spec == Init /\ [][Next]_classVars
=============================================================================
