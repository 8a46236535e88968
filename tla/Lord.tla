-------------------------------- MODULE Lord --------------------------------
(***************************************************************************)
(* What every lord (user-space scheduler) shares: the CPUs, the messages   *)
(* the kernel sends it, and the ways its process can end.                  *)
(***************************************************************************)
EXTENDS Integers

CONSTANTS
    CpuNum,     \* cpu_num, sysconf(_SC_NPROCESSORS_CONF)
    LordCpu,    \* the CPU set_lord() pins the lord to: never shot at
    Tids,       \* the values of cos_msg.pid (u16) that occur
    LordPid     \* gettid() of the lord: an unsigned 32-bit value

ASSUME LordAssumption ==
    /\ CpuNum \in Nat
    /\ LordCpu \in Nat
    /\ Tids \subseteq Nat
    /\ LordPid \in Nat

Cpus == 0 .. CpuNum - 1

MsgTypes == {"RUNNABLE", "BLOCKED", "NEW", "DEAD", "PREEMPT",
             "NEW_BLOCKED", "COS_PREEMPT"}

\* A type outside the enumeration reaches the default branch of the switch.
\* The sequence number of a message is left out: see the README on seq_.
CosMsg == [pid : Tids, type : MsgTypes \cup {"OTHER"}]

\* Mutant: the filter is forgotten.
IsOwn_Never(msg) == FALSE

\* Messages about the lord's own thread are dropped before the dispatch.
IsOwn(msg) == msg.pid = LordPid

\* Why the process is still there, or why it is not.
Statuses == {"running",
             "kernel_bug",   \* a handler logged "kernel BUGGGGGG!" and exited
             "assert_task",  \* assert: a preempted task was not Blocked
             "assert_cpu",   \* assert: the CPU of a displaced task is COS
             "assert_oncpu", \* assert: the task of a COS CPU is on it (Shinjuku)
             "pick_bug",     \* schedule() picked a thread it does not know
             "rq_exit",      \* remove_from_rq did not find the thread
             "null_deref"}   \* alive_tasks_[pid] inserted a null task
=============================================================================
