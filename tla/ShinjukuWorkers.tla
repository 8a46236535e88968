--------------------------- MODULE ShinjukuWorkers --------------------------
(***************************************************************************)
(* The Shinjuku lord, the kernel, and the workers of the RocksDB workload: *)
(* COS threads that mark themselves idle in the epistle, and that the      *)
(* generator, a thread of CFS, marks runnable.  Here the lord reads the    *)
(* marks; with "any" threads it may read anything, as in ShinjukuSystem.   *)
(***************************************************************************)
EXTENDS ShinjukuSystem

CONSTANT Workers    \* the threads that are workers

ASSUME WorkersAssumption == Workers \subseteq Threads /\ \A t \in Workers : PidOf(t) = t

VARIABLES
    prog,   \* whose threads there are: "any" or "workers"
    idle    \* the workers marked EPISTLE_THREAD_IDLE (Epistle implements Marks)

workVars == <<prog, idle>>
allVars  == <<sysVars, workVars>>

WorkInit == SysInit /\ prog \in {"any", "workers"} /\ idle = {}

-----------------------------------------------------------------------------
(* schedule() and the marks.                                               *)

\* A CPU is pooled in this step.
Pools == pools' # pools

OnCosCpu == pc = "classify" /\ cursor < CpuNum /\ cpu_states[cursor].type = "COS"

\* The mark of the head decides before the CPUs do.
PickMarked ==
    IF Peek(rq) # 0 /\ Peek(rq) \in idle THEN PassOver ELSE AssignHead \/ EndPick

\* Mutant: a CPU is taken only from a thread marked idle.
ReadsMarks_NoSlice ==
    \/ Classify /\ (OnCosCpu => (Pools <=> cpu_states[cursor].pid \in idle))
    \/ PickMarked
    \/ Classified \/ RevertOne \/ CheckOne \/ Return

\* Every read of the epistle returns what is marked.
ReadsMarks ==
    \/ Classify /\ (OnCosCpu /\ cpu_states[cursor].pid \in idle => Pools)
    \/ PickMarked
    \/ Classified \/ RevertOne \/ CheckOne \/ Return

\* The slice of the task on the CPU is over.
SliceOver == ReadsMarks /\ OnCosCpu /\ Pools /\ UNCHANGED <<kernelVars, workVars>>

WorkersLord ==
    /\ \/ Receive
       \/ SeeEmpty
       \/ ReadsMarks /\ UNCHANGED kernelVars
       \/ \E bad \in SUBSET ShotCpus :     \* refused if it must be
              ShootOk(bad) /\ bad = MustRefuse(Shots) /\ Shoot(Shots, bad)
    /\ UNCHANGED workVars

-----------------------------------------------------------------------------
(* The workers and the generator.                                          *)

\* As long as the experiment lasts, workers stay.  Pause() puts one that waits
\* to sleep for a while.
WorkerEvent ==
    /\ \E t \in Workers : JoinRunnable(t) \/ Block(t) \/ Wake(t) \/ CfsPreempt(t)
    /\ UNCHANGED <<lordVars, workVars>>

MarkIdle(t) ==
    /\ kstate[t] = "running"
    /\ idle' = idle \cup {t}
    /\ UNCHANGED <<sysVars, prog>>

MarkRunnable(t) ==
    /\ t \in idle
    /\ idle' = idle \ {t}
    /\ UNCHANGED <<sysVars, prog>>

WorkNext ==
    \/ prog = "any" /\ SysNext /\ UNCHANGED workVars
    \/ prog = "workers" /\ \/ WorkersLord
                           \/ WorkerEvent
                           \/ \E t \in Workers : MarkIdle(t) \/ MarkRunnable(t)

\* The lord has a CPU of its own and never blocks, and a slice ends.  Nothing
\* is asked of the threads: one that never ends its turn is preempted.
WorkFairness ==
    /\ WF_allVars(prog = "workers" /\ WorkersLord)
    /\ SF_allVars(prog = "workers" /\ SliceOver)

WorkSpec == WorkInit /\ [][WorkNext]_allVars /\ WorkFairness

-----------------------------------------------------------------------------

\* The kernel does not fill the queue faster than the lord empties it.
DrainEnds == []<>(pc # "drain")

\* A worker with a batch, marked runnable and waiting for a CPU, gets one,
\* whatever the threads on the CPUs do and however many are passed over: what
\* the workload relies on to end (rocksdb.cpp:570-575).
MarkedRuns ==
    prog = "workers" /\ DrainEnds =>
        \A t \in Workers : (kstate[t] = "runnable" /\ t \notin idle) ~> kstate[t] # "runnable"
=============================================================================
