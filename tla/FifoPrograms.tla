---------------------------- MODULE FifoPrograms ----------------------------
(***************************************************************************)
(* The FIFO lord, the kernel and a program of this repository that starts  *)
(* COS threads: the tests of simple_exp.cpp, the load of task delegation,  *)
(* the load of the control groups.  Where FifoSystem lets threads do what  *)
(* they like, here each does what its program says, and ends; "any" stands *)
(* for the threads of other programs.                                      *)
(***************************************************************************)
EXTENDS FifoSystem

\* The threads of a program have the first ids.
ASSUME ProgramsAssumption == {1, 2} \subseteq Threads

VARIABLES
    prog,        \* the program
    mpc, mcur,   \* main: where it is, the thread it creates or joins
    todo,        \* what each thread has still to do
    cfs,         \* the threads whose sched_setscheduler failed
    should_exit, \* of the task delegation
    spinning     \* its CFS threads have not left their loop

progVars == <<prog, mpc, mcur, todo, cfs, should_exit, spinning>>
allVars  == <<sysVars, progVars>>

\* The functions given to CosThread, for as many threads as the model has
\* room for.  A thread sleeps, works, or enters the control group.
SimpleTest(test) ==
    CASE test = "TestOne"  -> << <<"sleep">> >>
      [] test = "TestMany" -> << <<"sleep">>, <<"sleep">> >>
      [] test = "TestBusy" -> << <<"spin">>, <<"spin">> >>

DelegationLoad == << <<"sleep">> >>

\* The worker thread and an interfering thread.
CgroupLoad == << <<"sleep", "calculate">>, <<"sleep", "add", "calculate">> >>

Work ==
    CASE prog \in {"TestOne", "TestMany", "TestBusy"} -> SimpleTest(prog)
      [] prog = "delegation" -> DelegationLoad
      [] prog = "cgroup"     -> CgroupLoad
      [] prog = "any"        -> <<>>

Programs == {"any", "TestOne", "TestMany", "TestBusy", "delegation", "cgroup"}

NumThreads == Len(Work)

ProgInit ==
    /\ SysInit
    /\ prog \in Programs
    /\ mpc = IF prog = "any" THEN "over" ELSE IF prog = "cgroup" THEN "group" ELSE "create"
    /\ mcur = 1
    /\ todo = [t \in Threads |-> <<>>]
    /\ cfs = {}
    /\ should_exit = FALSE
    /\ spinning = (prog = "delegation")

-----------------------------------------------------------------------------
(* main                                                                    *)

\* CosCgroup(): a failure ends the program before it has a thread.
CreateGroup ==
    /\ mpc = "group"
    /\ mpc' \in {"rate", "over"}
    /\ UNCHANGED <<sysVars, prog, mcur, todo, cfs, should_exit, spinning>>

\* adjust_rate, which may fail: nobody looks at its result.
AdjustRate ==
    /\ mpc = "rate"
    /\ mpc' = "create"
    /\ UNCHANGED <<sysVars, prog, mcur, todo, cfs, should_exit, spinning>>

\* The next thread of a loop over all of them, or what follows the loop.
NextThread(after) ==
    /\ mcur' = IF mcur = NumThreads THEN 1 ELSE mcur + 1
    /\ mpc' = IF mcur = NumThreads THEN after ELSE mpc

CreateThread ==
    /\ mpc = "create"
    /\ todo' = [todo EXCEPT ![mcur] = <<"tid", "class">> \o Work[mcur] \o <<"end">>]
    /\ NextThread("join")
    /\ UNCHANGED <<sysVars, prog, cfs, should_exit, spinning>>

JoinThread ==
    /\ mpc = "join"
    /\ todo[mcur] = <<>>
    /\ NextThread(IF prog = "delegation" THEN "stop" ELSE "over")
    /\ UNCHANGED <<sysVars, prog, todo, cfs, should_exit, spinning>>

\* Mutant: the CFS threads are joined without being told.
StopSpinners_Not ==
    /\ mpc = "stop"
    /\ mpc' = "joinCfs"
    /\ UNCHANGED <<sysVars, prog, mcur, todo, cfs, should_exit, spinning>>

StopSpinners ==
    /\ mpc = "stop"
    /\ should_exit' = TRUE
    /\ mpc' = "joinCfs"
    /\ UNCHANGED <<sysVars, prog, mcur, todo, cfs, spinning>>

JoinSpinners ==
    /\ mpc = "joinCfs"
    /\ ~spinning
    /\ mpc' = "over"
    /\ UNCHANGED <<sysVars, prog, mcur, todo, cfs, should_exit, spinning>>

Main ==
    \/ CreateGroup
    \/ AdjustRate
    \/ CreateThread
    \/ JoinThread
    \/ StopSpinners
    \/ JoinSpinners

\* while (!should_exit) of the CFS threads
SpinnersEnd ==
    /\ spinning /\ should_exit
    /\ spinning' = FALSE
    /\ UNCHANGED <<sysVars, prog, mpc, mcur, todo, cfs, should_exit>>

-----------------------------------------------------------------------------
(* The threads                                                             *)

\* Thread t does what is next for it.
Does(t, what) ==
    /\ todo[t] # <<>> /\ Head(todo[t]) = what
    /\ todo' = [todo EXCEPT ![t] = Tail(@)]
    /\ UNCHANGED <<prog, mpc, mcur, should_exit, spinning>>

HasCpu(t) == t \in cfs \/ kstate[t] = "running"

SetTid(t) == Does(t, "tid") /\ UNCHANGED <<sysVars, cfs>>

\* sched_setscheduler: a thread that may not join the class goes on without.
SetClass(t) ==
    /\ Does(t, "class")
    /\ \/ JoinRunnable(t) /\ UNCHANGED cfs
       \/ cfs' = cfs \cup {t} /\ UNCHANGED kernelVars
    /\ UNCHANGED <<lordVars>>

Sleep(t) ==
    /\ HasCpu(t)
    /\ Does(t, "sleep")
    /\ IF t \in cfs THEN UNCHANGED kernelVars ELSE Block(t)
    /\ UNCHANGED <<lordVars, cfs>>

\* spin_for, and the training of the networks
Spin(t) == HasCpu(t) /\ Does(t, "spin") /\ UNCHANGED <<sysVars, cfs>>

Calculate(t) == HasCpu(t) /\ Does(t, "calculate") /\ UNCHANGED <<sysVars, cfs>>

\* add_thread, by the thread itself: nobody looks at its result.  A thread the
\* kernel holds back for its group's rate is preempted like any other.
AddToGroup(t) == HasCpu(t) /\ Does(t, "add") /\ UNCHANGED <<sysVars, cfs>>

\* The function has returned: join() may return before the kernel has taken
\* the thread out of the class.
End(t) == HasCpu(t) /\ Does(t, "end") /\ UNCHANGED <<sysVars, cfs>>

Gone(t) == todo[t] = <<>> /\ Exit(t) /\ UNCHANGED <<lordVars, progVars>>

ThreadStep(t) ==
    \/ SetTid(t)
    \/ SetClass(t)
    \/ Sleep(t)
    \/ Spin(t)
    \/ Calculate(t)
    \/ AddToGroup(t)
    \/ End(t)
    \/ Gone(t)

\* The timer of sleep() fires.
WakeUp(t) == Wake(t) /\ UNCHANGED <<lordVars, progVars>>

\* What happens to a thread of a program without its doing.
Elsewhere ==
    /\ LordMessage \/ \E t \in 1 .. NumThreads : CfsPreempt(t) \/ Stray(t)
    /\ UNCHANGED <<lordVars, progVars>>

OtherThreads == KernelEvent /\ UNCHANGED <<lordVars, progVars>>

ProgNext ==
    \/ LordStep /\ UNCHANGED progVars
    \/ prog = "any" /\ OtherThreads
    \/ prog # "any" /\ \/ Main
                       \/ SpinnersEnd
                       \/ \E t \in Threads : ThreadStep(t) \/ WakeUp(t)
                       \/ Elsewhere

\* What a thread is bound to do some day: of any program, to end its turn; of
\* one of these, to get on with its work, since what it has done is not lost
\* when it is preempted (simple_exp.cpp:49-55), and to be woken by its timer.
Proceeds(t) ==
    IF prog = "any" THEN LeaveCpu(t) /\ UNCHANGED <<lordVars, progVars>>
    ELSE ThreadStep(t) \/ WakeUp(t)

\* The lord has a CPU of its own, main and the threads of CFS get one.  The
\* third is strong because CFS may preempt a thread before it gets on, and
\* because events wait for MqBound.
ProgFairness ==
    /\ WF_allVars(LordStep /\ UNCHANGED progVars)
    /\ WF_allVars(prog # "any" /\ (Main \/ SpinnersEnd))
    /\ \A t \in Threads : SF_allVars(Proceeds(t))

ProgSpec == ProgInit /\ [][ProgNext]_allVars /\ ProgFairness

-----------------------------------------------------------------------------

\* Every program ends: its threads get the CPU as often as they need it, main
\* returns from its joins, and nothing of it stays with the lord for ever, no
\* task and no CPU, so that the next program finds the class as this one did.
ProgramEnds ==
    DrainEnds /\ prog # "any" =>
        <>[](mpc = "over" /\ alive = {} /\ rq = <<>> /\ \A c \in Cpus : cpu_states[c] # "COS")
=============================================================================
