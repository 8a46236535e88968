----------------------------- MODULE FifoSystem -----------------------------
(***************************************************************************)
(* The FIFO lord, the message queue and the kernel together.  The kernel   *)
(* acts between any two steps of the lord: while it drains the queue, in   *)
(* the middle of schedule(), and between the commit and the shot.          *)
(***************************************************************************)
EXTENDS FifoLord, CosKernel

sysVars == <<lordVars, kernelVars>>

SysInit == Init /\ KernelInit

\* consume_msg and the handler it is given to.
Receive ==
    /\ mq # <<>>
    /\ Consume(Head(mq))
    /\ mq' = Tail(mq)
    /\ UNCHANGED <<kstate, kcur>>

SeeEmpty == mq = <<>> /\ EnterSchedule /\ UNCHANGED kernelVars

LordAlone == ScheduleStep /\ UNCHANGED kernelVars

\* The system call: one step of both.
ShootTask ==
    \E bad \in SUBSET ShotCpus :
        \/ ShootOk(bad)  /\ Shoot(assigned, bad)
        \/ ShootErr(bad) /\ ShootFails

LordStep == Receive \/ SeeEmpty \/ LordAlone \/ ShootTask

SysNext ==
    \/ LordStep
    \/ KernelEvent /\ UNCHANGED lordVars

SysSpec == SysInit /\ [][SysNext]_sysVars

-----------------------------------------------------------------------------
(* Safety.                                                                 *)

\* With a kernel that keeps its contract the lord never ends: no "kernel
\* BUGGGGGG!" exit, no failed assert (fifo_lord.h:200, :229, :256, :265, :272).
NeverStops == status = "running"

\* The class as the threads see it: only free CPUs are used ("// no preempt",
\* fifo_lord.h:85), never the lord's (:81), and no thread is on two, although
\* the lord shoots on a view that messages still on their way may have made
\* stale.
Class == INSTANCE CosClass WITH
    ClassCpus <- Cpus \ {LordCpu},
    Preempts  <- FALSE,
    phase     <- kstate,
    running   <- [c \in Cpus \ {LordCpu} |-> kcur[c]]

ImplementsClass == Class!Spec

\* What the lord believes of a thread is what the kernel says of it.
Agrees(t) ==
    CASE kstate[t] = "absent"   -> PidOf(t) \notin alive
      [] kstate[t] = "blocked"  -> PidOf(t) \in alive /\ state[PidOf(t)] = "Blocked"
      [] kstate[t] = "runnable" -> PidOf(t) \in Queued
      [] kstate[t] = "running"  -> PidOf(t) \in OnCpu /\ kcur[cpu_id[PidOf(t)]] = t

\* Once every message is read and no shot is under way, the lord's tasks are
\* exactly the kernel's threads, CPU included: no message is dropped,
\* misread or applied in an order that leaves a wrong state behind
\* (lord.h:28, the handlers of fifo_lord.h:156-299, the reverts of :122-149).
ViewExact == pc = "drain" /\ mq = <<>> => \A t \in Threads : Agrees(t)

\* "// revert the cpu states" (fifo_lord.h:129, :143): between two rounds a
\* CPU marked COS has a task on it.  The code saves the state of a CPU after
\* it has set it to COS, so the revert restores COS (fifo_lord.h:102-103): a
\* refused shot loses the CPU for good.
NoPhantomCos ==
    pc = "drain" /\ mq = <<>> =>
        \A c \in Cpus : cpu_states[c] = "COS" => \E t \in OnCpu : cpu_id[t] = c

-----------------------------------------------------------------------------
(* Liveness.                                                               *)

\* The kernel does not fill the queue faster than the lord empties it for
\* ever: the loop of consume_message (lord.h:28) ends each time.
DrainEnds == []<>(pc # "drain")

\* A runnable thread gets a CPU, or leaves the class.
RunnableRuns ==
    DrainEnds => \A t \in Threads : kstate[t] = "runnable" ~> kstate[t] # "runnable"
=============================================================================
