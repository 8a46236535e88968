--------------------------- MODULE ShinjukuSystem ---------------------------
(***************************************************************************)
(* The Shinjuku lord, the message queue and the kernel together, with the  *)
(* same interleavings as FifoSystem.  Here a shot may displace a COS thread.*)
(***************************************************************************)
EXTENDS ShinjukuLord, CosKernel

sysVars == <<lordVars, kernelVars>>

SysInit == Init /\ KernelInit

Receive ==
    /\ mq # <<>>
    /\ Consume(Head(mq))
    /\ mq' = Tail(mq)
    /\ UNCHANGED <<kstate, kcur>>

SeeEmpty == mq = <<>> /\ EnterSchedule /\ UNCHANGED kernelVars

LordAlone == ScheduleStep /\ UNCHANGED kernelVars

\* The thread of each CPU shot at, as the shoot area has it.
Shots == [c \in Cpus |-> IF c \in ShotCpus THEN area[c].pid ELSE 0]

ShootTask ==
    \E bad \in SUBSET ShotCpus :
        \/ ShootOk(bad)  /\ Shoot(Shots, bad)
        \/ ShootErr(bad) /\ ShootFails

LordStep == Receive \/ SeeEmpty \/ LordAlone \/ ShootTask

SysNext ==
    \/ LordStep
    \/ KernelEvent /\ UNCHANGED lordVars

SysSpec == SysInit /\ [][SysNext]_sysVars

-----------------------------------------------------------------------------

\* With a kernel that keeps its contract the lord never ends: none of its
\* asserts fails and none of its exits is reached (shinjuku_lord.h:122, :163,
\* :294, :323, :351, :361, :390, :397).
NeverStops == status = "running"

\* The class as the threads see it: an order may take CPUs from threads, but
\* never the lord's CPU or one below the first (shinjuku_lord.h:101-105), and
\* no thread is on two CPUs or on none while it is said to run.
Class == INSTANCE CosClass WITH
    ClassCpus <- {c \in Cpus : c >= FirstCpu /\ c # LordCpu},
    Preempts  <- TRUE,
    phase     <- kstate,
    running   <- [c \in {d \in Cpus : d >= FirstCpu /\ d # LordCpu} |-> kcur[c]]

ImplementsClass == Class!Spec

\* What the lord believes of a thread is what the kernel says of it.
Agrees(t) ==
    CASE kstate[t] = "absent"   -> PidOf(t) \notin alive
      [] kstate[t] = "blocked"  -> PidOf(t) \in alive /\ state[PidOf(t)] = "Blocked"
      [] kstate[t] = "runnable" -> PidOf(t) \in Queued
      [] kstate[t] = "running"  -> PidOf(t) \in OnCpu /\ kcur[cpu_id[PidOf(t)]] = t

\* Once every message is read and no shot is under way, the lord's tasks are
\* exactly the kernel's threads, although threads displaced by a shot are
\* reported only afterwards.
ViewExact == pc = "drain" /\ mq = <<>> => \A t \in Threads : Agrees(t)

\* assert(cpu_states_[task->cpu_id].type == ThreadType::COS)
\* (shinjuku_lord.h:397), for every task on a CPU and not only at the message
\* the assert waits for: once every message is read, the CPU of a running task
\* is marked COS.  It is not: between the drain and the shot a thread about to
\* be displaced may block, and its BLOCKED message, read after the shot, sets
\* the CPU of its successor idle.
OnCpuMeansCos ==
    pc = "drain" /\ mq = <<>> => \A t \in OnCpu : cpu_states[cpu_id[t]].type = "COS"
=============================================================================
