------------------------------ MODULE FifoLord ------------------------------
(***************************************************************************)
(* The FIFO lord: one thread that drains the message queue, then shoots    *)
(* queued threads at the CPUs it believes free, then reads the verdicts.   *)
(* Here the messages and the verdicts are arbitrary: whatever the kernel   *)
(* does is among them.  FifoSystem joins the lord with a kernel that keeps *)
(* its contract.                                                           *)
(***************************************************************************)
EXTENDS Lord, RunQueue

CONSTANT ErrLeavesInfo  \* may a shoot_task that returns an error have
                        \* written verdicts into the area all the same?

ASSUME ErrLeavesInfoAssumption == ErrLeavesInfo \in BOOLEAN

VARIABLES
    rq,             \* FifoRq::rq_
    alive,          \* the keys of alive_tasks_
    state,          \* FifoTask::state (of a dead thread: the constructor's)
    cpu_id,         \* FifoTask::cpu_id (idem)
    cpu_states,     \* FifoLord::cpu_states_
    area,           \* the shoot area shared with the kernel
    pc,             \* where the lord's thread is
    cursor,         \* the CPU of the loop it is in
    assigned,       \* local of schedule(): CPU -> thread shot at it, or 0
    old_cpu_states, \* local of schedule(): CPU -> state saved, or "none"
    status          \* is the process alive, and if not why

taskVars == <<rq, alive, state, cpu_id, cpu_states>>
loopVars == <<area, pc, cursor, assigned, old_cpu_states>>
lordVars == <<taskVars, loopVars, status>>

RunStates == {"Queued", "OnCpu", "Blocked"}
CpuStates == {"IDLE", "COS", "NOCOS"}
NoTask    == 0
NoCpu     == -1

InitCpuStates == [c \in Cpus |-> "IDLE"]
NoneAssigned  == [c \in Cpus |-> NoTask]
NothingSaved  == [c \in Cpus |-> "none"]
EmptyArea     == [c \in Cpus |-> [pid |-> NoTask, info |-> "RIGHT"]]

TypeOK ==
    /\ rq \in Seq(Tids)
    /\ alive \subseteq Tids
    /\ state \in [Tids -> RunStates]
    /\ cpu_id \in [Tids -> Cpus \cup {NoCpu}]
    /\ cpu_states \in [Cpus -> CpuStates]
    /\ area \in [Cpus -> [pid : Tids \cup {NoTask}, info : {"RIGHT", "ERROR"}]]
    /\ pc \in {"drain", "pick", "shoot", "revert", "check"}
    /\ cursor \in 0 .. CpuNum
    /\ assigned \in [Cpus -> Tids \cup {NoTask}]
    /\ old_cpu_states \in [Cpus -> CpuStates \cup {"none"}]
    /\ status \in Statuses

Init ==
    /\ rq = <<>>
    /\ alive = {}
    /\ state = [t \in Tids |-> "Blocked"]
    /\ cpu_id = [t \in Tids |-> NoCpu]
    /\ cpu_states = InitCpuStates
    /\ area = EmptyArea
    /\ pc = "drain"
    /\ cursor = 0
    /\ assigned = NoneAssigned
    /\ old_cpu_states = NothingSaved
    /\ status = "running"

-----------------------------------------------------------------------------
(* The message handlers.                                                   *)

Ignore == UNCHANGED <<taskVars, status>>

Stop(why) == status' = why /\ UNCHANGED taskVars

\* rq_ loses tid; remove_from_rq exits when it was not there.
Removal(tid) ==
    /\ rq' = RemoveFromRq(rq, tid)
    /\ status' = IF InRq(rq, tid) THEN status ELSE "rq_exit"

\* Mutant: push_front.
EnqueueTask_Front(tid) ==
    /\ rq' = <<tid>> \o rq
    /\ state' = [state EXCEPT ![tid] = "Queued"]

EnqueueTask(tid) ==
    /\ rq' = Enqueue(rq, tid)
    /\ state' = [state EXCEPT ![tid] = "Queued"]

\* Mutant: nothing is written.
SetCpuOf_Nothing(tid, s) == UNCHANGED cpu_states

\* cpu_states_[task->cpu_id] = s
SetCpuOf(tid, s) == cpu_states' = [cpu_states EXCEPT ![cpu_id[tid]] = s]

\* Mutant: the test for a task already queued is forgotten.
consume_msg_task_runnable_Twice(tid) ==
    IF tid \in alive
    THEN EnqueueTask(tid) /\ UNCHANGED <<alive, cpu_id, cpu_states, status>>
    ELSE Ignore

consume_msg_task_runnable(tid) ==
    IF tid \in alive /\ state[tid] # "Queued"
    THEN EnqueueTask(tid) /\ UNCHANGED <<alive, cpu_id, cpu_states, status>>
    ELSE Ignore

\* Mutant: a queued task stays in the queue.
Vacate_KeepsQueue(tid) ==
    IF state[tid] = "OnCpu"
    THEN SetCpuOf(tid, "IDLE") /\ UNCHANGED <<rq, status>>
    ELSE UNCHANGED <<rq, cpu_states, status>>

\* What BLOCKED and DEAD do to the place the task occupies.
Vacate(tid) ==
    CASE state[tid] = "Queued"  -> Removal(tid) /\ UNCHANGED cpu_states
      [] state[tid] = "OnCpu"   -> SetCpuOf(tid, "IDLE") /\ UNCHANGED <<rq, status>>
      [] state[tid] = "Blocked" -> UNCHANGED <<rq, cpu_states, status>>

consume_msg_task_blocked(tid) ==
    IF tid \in alive
    THEN /\ Vacate(tid)
         /\ state' = [state EXCEPT ![tid] = "Blocked"]
         /\ UNCHANGED <<alive, cpu_id>>
    ELSE Ignore

\* new FifoTask(tid), entered under its id.
CreateTask(tid) ==
    /\ alive' = alive \cup {tid}
    /\ cpu_id' = [cpu_id EXCEPT ![tid] = NoCpu]

consume_msg_task_new(tid) ==
    IF tid \in alive
    THEN Stop("kernel_bug")
    ELSE CreateTask(tid) /\ EnqueueTask(tid) /\ UNCHANGED <<cpu_states, status>>

consume_msg_task_new_blocked(tid) ==
    IF tid \in alive
    THEN Stop("kernel_bug")
    ELSE /\ CreateTask(tid)
         /\ state' = [state EXCEPT ![tid] = "Blocked"]
         /\ UNCHANGED <<rq, cpu_states, status>>

consume_msg_task_dead(tid) ==
    IF tid \notin alive
    THEN Stop("kernel_bug")
    ELSE /\ Vacate(tid)
         /\ alive' = alive \ {tid}
         /\ state' = [state EXCEPT ![tid] = "Blocked"]   \* the task is freed
         /\ cpu_id' = [cpu_id EXCEPT ![tid] = NoCpu]

\* Displaced by a thread of the COS class: its CPU stays COS.
consume_msg_task_preempt_cos(tid) ==
    CASE tid \notin alive          -> Stop("kernel_bug")
      [] tid \in alive /\ state[tid] = "Blocked" -> Stop("assert_task")
      [] tid \in alive /\ state[tid] = "Queued"  -> Ignore
      [] tid \in alive /\ state[tid] = "OnCpu" ->
            /\ EnqueueTask(tid)
            /\ status' = IF cpu_states[cpu_id[tid]] = "COS" THEN status ELSE "assert_cpu"
            /\ UNCHANGED <<alive, cpu_id, cpu_states>>

\* Displaced by CFS: its CPU is lost to COS until the lord shoots it again.
consume_msg_task_preempt(tid) ==
    CASE tid \notin alive          -> Stop("kernel_bug")
      [] tid \in alive /\ state[tid] = "Blocked" -> Stop("assert_task")
      [] tid \in alive /\ state[tid] = "Queued"  -> Ignore
      [] tid \in alive /\ state[tid] = "OnCpu" ->
            /\ EnqueueTask(tid)
            /\ SetCpuOf(tid, "NOCOS")
            /\ UNCHANGED <<alive, cpu_id, status>>

Dispatch(msg) ==
    \/ msg.type = "RUNNABLE"    /\ consume_msg_task_runnable(msg.pid)
    \/ msg.type = "BLOCKED"     /\ consume_msg_task_blocked(msg.pid)
    \/ msg.type = "NEW"         /\ consume_msg_task_new(msg.pid)
    \/ msg.type = "DEAD"        /\ consume_msg_task_dead(msg.pid)
    \/ msg.type = "PREEMPT"     /\ consume_msg_task_preempt(msg.pid)
    \/ msg.type = "NEW_BLOCKED" /\ consume_msg_task_new_blocked(msg.pid)
    \/ msg.type = "COS_PREEMPT" /\ consume_msg_task_preempt_cos(msg.pid)
    \/ msg.type \notin MsgTypes /\ Ignore

At(label) == status = "running" /\ pc = label

\* One round of the loop of Lord::consume_message.
Consume(msg) ==
    /\ At("drain")
    /\ IF IsOwn(msg) THEN Ignore ELSE Dispatch(msg)
    /\ UNCHANGED loopVars

\* The queue was seen empty: consume_message returns, schedule() begins.
EnterSchedule ==
    /\ At("drain")
    /\ pc' = "pick"
    /\ UNCHANGED <<taskVars, cursor, area, assigned, old_cpu_states, status>>

-----------------------------------------------------------------------------
(* schedule()                                                              *)

Loop(label) == At(label) /\ cursor < CpuNum

\* Mutant: COS CPUs are not skipped.
CanShootAt_Cos(c) == c # LordCpu

CanShootAt(c) == c # LordCpu /\ cpu_states[c] # "COS"

\* Mutant: the loop variable is advanced before continue, and by the loop.
SkipCpu_Twice ==
    /\ Loop("pick")
    /\ ~CanShootAt(cursor)
    /\ cursor' = cursor + 2
    /\ UNCHANGED <<taskVars, area, pc, assigned, old_cpu_states, status>>

\* The CPU is the lord's own or already COS: continue.
SkipCpu ==
    /\ Loop("pick")
    /\ ~CanShootAt(cursor)
    /\ cursor' = cursor + 1
    /\ UNCHANGED <<taskVars, area, pc, assigned, old_cpu_states, status>>

\* Nothing queued: break.
NothingQueued ==
    /\ Loop("pick")
    /\ CanShootAt(cursor)
    /\ Peek(rq) = 0
    /\ cursor' = CpuNum
    /\ UNCHANGED <<taskVars, area, pc, assigned, old_cpu_states, status>>

\* The head of the queue goes to the CPU.  The state saved for the revert is
\* read after it has been overwritten.
AssignHead ==
    LET tid == Peek(rq) IN
    /\ Loop("pick")
    /\ CanShootAt(cursor)
    /\ tid # 0
    /\ IF tid \in alive
       THEN /\ assigned' = [assigned EXCEPT ![cursor] = tid]
            /\ state' = [state EXCEPT ![tid] = "OnCpu"]
            /\ cpu_id' = [cpu_id EXCEPT ![tid] = cursor]
            /\ cpu_states' = [cpu_states EXCEPT ![cursor] = "COS"]
            /\ old_cpu_states' = [old_cpu_states EXCEPT ![cursor] = cpu_states'[cursor]]
            /\ rq' = Dequeue(rq)
            /\ cursor' = cursor + 1
            /\ UNCHANGED <<alive, area, pc, status>>
       ELSE Stop("pick_bug") /\ UNCHANGED loopVars

\* assigned.empty(): return.
NothingAssigned ==
    /\ At("pick")
    /\ cursor = CpuNum
    /\ assigned = NoneAssigned
    /\ pc' = "drain"
    /\ cursor' = 0
    /\ UNCHANGED <<taskVars, area, assigned, old_cpu_states, status>>

\* commit_shoot_message: the entries of the CPUs shot at are overwritten.
Commit ==
    /\ At("pick")
    /\ cursor = CpuNum
    /\ assigned # NoneAssigned
    /\ area' = [c \in Cpus |-> IF assigned[c] # NoTask
                               THEN [pid |-> assigned[c], info |-> "RIGHT"]
                               ELSE area[c]]
    /\ pc' = "shoot"
    /\ cursor' = 0
    /\ UNCHANGED <<taskVars, assigned, old_cpu_states, status>>

ShotCpus == {c \in Cpus : assigned[c] # NoTask}

\* The kernel's verdict on the CPUs of bad.
Verdict(bad) ==
    area' = [c \in Cpus |-> IF c \in bad THEN [area[c] EXCEPT !.info = "ERROR"] ELSE area[c]]

\* shoot_task returned 0; the kernel refused the shots at the CPUs of bad.
ShootOk(bad) ==
    /\ At("shoot")
    /\ Verdict(bad)
    /\ pc' = "check"
    /\ UNCHANGED <<taskVars, cursor, assigned, old_cpu_states, status>>

\* shoot_task returned an error.
ShootErr(bad) ==
    /\ At("shoot")
    /\ bad = {} \/ ErrLeavesInfo
    /\ Verdict(bad)
    /\ pc' = "revert"
    /\ UNCHANGED <<taskVars, cursor, assigned, old_cpu_states, status>>

\* fifo_rq_.enqueue(pid); alive_tasks_[pid]->state = Queued
Requeue(pid) ==
    /\ rq' = Enqueue(rq, pid)
    /\ IF pid \in alive
       THEN state' = [state EXCEPT ![pid] = "Queued"] /\ UNCHANGED status
       ELSE status' = "null_deref" /\ UNCHANGED state

RestoreCpu(c) ==
    cpu_states' = IF old_cpu_states[c] # "none"
                  THEN [cpu_states EXCEPT ![c] = old_cpu_states[c]]
                  ELSE cpu_states

\* The shot at the CPU of the loop is taken back.
TakeBack(pid) ==
    /\ Requeue(pid)
    /\ RestoreCpu(cursor)
    /\ UNCHANGED <<alive, cpu_id>>

\* One round of the revert loops after a failed call.
RevertOne ==
    /\ Loop("revert")
    /\ IF assigned[cursor] # NoTask
       THEN TakeBack(assigned[cursor])
       ELSE UNCHANGED <<taskVars, status>>
    /\ cursor' = cursor + 1
    /\ UNCHANGED <<area, pc, assigned, old_cpu_states>>

\* Mutant: the verdicts are reset without being looked at.
CheckOne_Blind ==
    /\ Loop("check")
    /\ area' = [area EXCEPT ![cursor].info = "RIGHT"]
    /\ cursor' = cursor + 1
    /\ UNCHANGED <<taskVars, status, pc, assigned, old_cpu_states>>

\* One round of check_shoot_state and of the loop over the failures: every
\* CPU of the machine is scanned, not only those shot at.
CheckOne ==
    /\ Loop("check")
    /\ IF area[cursor].info # "RIGHT"
       THEN TakeBack(area[cursor].pid)
       ELSE UNCHANGED <<taskVars, status>>
    /\ area' = [area EXCEPT ![cursor].info = "RIGHT"]
    /\ cursor' = cursor + 1
    /\ UNCHANGED <<pc, assigned, old_cpu_states>>

\* Mutant: assigned outlives the call.
Return_KeepsAssigned ==
    /\ pc \in {"revert", "check"} /\ At(pc)
    /\ cursor = CpuNum
    /\ pc' = "drain"
    /\ old_cpu_states' = NothingSaved
    /\ cursor' = 0
    /\ UNCHANGED <<taskVars, area, assigned, status>>

\* schedule() returns: its locals are gone.
Return ==
    /\ pc \in {"revert", "check"} /\ At(pc)
    /\ cursor = CpuNum
    /\ pc' = "drain"
    /\ assigned' = NoneAssigned
    /\ old_cpu_states' = NothingSaved
    /\ cursor' = 0
    /\ UNCHANGED <<taskVars, area, status>>

\* What the lord does by itself, between a message and a verdict.
ScheduleStep ==
    \/ SkipCpu
    \/ NothingQueued
    \/ AssignHead
    \/ NothingAssigned
    \/ Commit
    \/ RevertOne
    \/ CheckOne
    \/ Return

ShootStep == \E bad \in SUBSET ShotCpus : ShootOk(bad) \/ ShootErr(bad)

Next ==
    \/ \E msg \in CosMsg : Consume(msg)
    \/ EnterSchedule
    \/ ScheduleStep
    \/ ShootStep

Spec == Init /\ [][Next]_lordVars

-----------------------------------------------------------------------------
(* Properties.  They hold whatever the kernel sends and answers, as long   *)
(* as it writes verdicts only in calls that succeed (~ErrLeavesInfo).      *)

Queued == {t \in Tids : state[t] = "Queued"}
OnCpu  == {t \in Tids : state[t] = "OnCpu"}

\* The run queue holds the Queued tasks, each once, and nothing else; a
\* thread that is not known is neither queued nor running.  So a removal
\* always finds its thread and a picked thread is always known
\* (fifo_lord.h:57, :89).
RqExact ==
    /\ IsInjective(rq)
    /\ ToSet(rq) = Queued
    /\ Queued \cup OnCpu \subseteq alive

\* A task on a CPU has one of its own, marked COS, and never the lord's:
\* the handlers that write cpu_states_[task->cpu_id] write that CPU and no
\* other task's (fifo_lord.h:191, :242, :296).
OnCpuOwnsCos ==
    /\ \A t \in OnCpu : /\ cpu_id[t] \in Cpus \ {LordCpu}
                        /\ cpu_states[cpu_id[t]] = "COS"
    /\ \A t, u \in OnCpu : cpu_id[t] = cpu_id[u] => t = u

\* The order given to the kernel is executable: known threads, no thread at
\* two CPUs, none at the lord's, every entry of the area fresh (fifo_lord.h:112).
ShotsSound ==
    pc = "shoot" =>
        \A c \in ShotCpus :
            /\ c # LordCpu
            /\ assigned[c] \in alive
            /\ area[c] = [pid |-> assigned[c], info |-> "RIGHT"]
            /\ \A d \in ShotCpus : assigned[c] = assigned[d] => c = d

\* The process ends only on a message that breaks the kernel's contract: its
\* own bookkeeping never trips the exits of remove_from_rq and schedule(),
\* the assert on the CPU of a displaced task, or a null task
\* (fifo_lord.h:57, :89, :126, :141, :272).
StopsOnlyOnKernelFault == status \in {"running", "kernel_bug", "assert_task"}

Before(q, t, u) == \E i, j \in DOMAIN q : i < j /\ q[i] = t /\ q[j] = u

\* FIFO: nothing in the queue is overtaken.  Two threads that stay queued
\* keep their order, a thread that joins is behind all of them, and a thread
\* leaves for a CPU only from the head (fifo_lord.h:33, :86, :105).
NoOvertaking ==
    [][ \A t \in ToSet(rq), u \in Tids :
            Before(rq, t, u) \/ u \notin ToSet(rq) =>
                /\ {t, u} \subseteq ToSet(rq') => Before(rq', t, u)
                /\ state'[u] = "OnCpu" /\ state[u] # "OnCpu" => t \notin ToSet(rq')
      ]_lordVars
=============================================================================
