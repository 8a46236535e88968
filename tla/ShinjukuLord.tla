---------------------------- MODULE ShinjukuLord ----------------------------
(***************************************************************************)
(* The Shinjuku lord: like the FIFO lord, but it takes a CPU away from a   *)
(* thread whose time slice is over or whose worker marked itself idle in   *)
(* the epistle, and passes over queued threads that are so marked.  Both   *)
(* tests read what other processes and the clock decide: each one may come *)
(* out either way.  Messages and verdicts are arbitrary here.              *)
(***************************************************************************)
EXTENDS Lord, RunQueue

CONSTANTS
    FirstCpu,       \* 3: the CPUs below are never shot at
    ErrLeavesInfo   \* see FifoLord

ASSUME ShinjukuAssumption == FirstCpu \in Nat /\ ErrLeavesInfo \in BOOLEAN

VARIABLES
    rq,             \* ShinjukuRq::rq_
    alive,          \* the keys of alive_tasks_
    state,          \* ShinjukuTask::state
    cpu_id,         \* ShinjukuTask::cpu_id
    cpu_states,     \* what the lord believes each CPU runs
    area,           \* the shoot area shared with the kernel
    pc, cursor,     \* where the lord's thread is, and the index of its loop
    pools,          \* locals idle_cpu, cfs_cpu, cos_cpu: CPUs to shoot at
    onqueue_idle,   \* local: the queued threads passed over
    assigned,       \* local: the shots, in the order they were decided
    old_cpu_states, \* local: CPU -> state saved
    status

taskVars == <<rq, alive, state, cpu_id, cpu_states>>
loopVars == <<area, pc, cursor, pools, onqueue_idle, assigned, old_cpu_states>>
lordVars == <<taskVars, loopVars, status>>

RunStates == {"Queued", "OnCpu", "Blocked"}
NoTask    == 0
NoCpu     == -1
IdleCpu   == [type |-> "IDLE", pid |-> NoTask]
CpuStates == [type : {"IDLE", "COS", "CFS"}, pid : Tids \cup {NoTask}]
PoolNames == {"idle", "cfs", "cos"}
NoPools   == [p \in PoolNames |-> <<>>]

TypeOK ==
    /\ rq \in Seq(Tids)
    /\ alive \subseteq Tids
    /\ state \in [Tids -> RunStates]
    /\ cpu_id \in [Tids -> Cpus \cup {NoCpu}]
    /\ cpu_states \in [Cpus -> CpuStates]
    /\ area \in [Cpus -> [pid : Tids \cup {NoTask}, info : {"RIGHT", "ERROR"}]]
    /\ pc \in {"drain", "classify", "pick", "shoot", "revert", "check"}
    /\ cursor \in Nat
    /\ pools \in [PoolNames -> Seq(Cpus)]
    /\ onqueue_idle \in Seq(Tids)
    /\ assigned \in Seq([cpu : Cpus, pid : Tids])
    /\ old_cpu_states \in [Cpus -> CpuStates]
    /\ status \in Statuses

Init ==
    /\ rq = <<>>
    /\ alive = {}
    /\ state = [t \in Tids |-> "Blocked"]
    /\ cpu_id = [t \in Tids |-> NoCpu]
    /\ cpu_states = [c \in Cpus |-> IdleCpu]
    /\ area = [c \in Cpus |-> [pid |-> NoTask, info |-> "RIGHT"]]
    /\ pc = "drain" /\ cursor = 0
    /\ pools = NoPools
    /\ onqueue_idle = <<>>
    /\ assigned = <<>>
    /\ old_cpu_states = [c \in Cpus |-> IdleCpu]
    /\ status = "running"

-----------------------------------------------------------------------------
(* The message handlers.                                                   *)

Ignore == UNCHANGED <<taskVars, status>>

Stop(why) == status' = why /\ UNCHANGED taskVars

EnqueueTask(tid) ==
    /\ rq' = Enqueue(rq, tid)
    /\ state' = [state EXCEPT ![tid] = "Queued"]

\* cpu_states_[task->cpu_id] = s
SetCpuOf(tid, s) == cpu_states' = [cpu_states EXCEPT ![cpu_id[tid]] = s]

consume_msg_task_runnable(tid) ==
    IF tid \in alive /\ state[tid] # "Queued"
    THEN EnqueueTask(tid) /\ UNCHANGED <<alive, cpu_id, cpu_states, status>>
    ELSE Ignore

\* Mutant: a queued task stays in the queue.
Vacate_KeepsQueue(tid) ==
    IF state[tid] = "OnCpu"
    THEN SetCpuOf(tid, IdleCpu) /\ UNCHANGED <<rq, status>>
    ELSE UNCHANGED <<rq, cpu_states, status>>

\* What BLOCKED and DEAD do to the place the task occupies.  The CPU is set
\* idle without a look at whose it is by now.
Vacate(tid) ==
    CASE state[tid] = "Queued"  -> /\ rq' = RemoveFromRq(rq, tid)
                                   /\ status' = IF InRq(rq, tid) THEN status ELSE "rq_exit"
                                   /\ UNCHANGED cpu_states
      [] state[tid] = "OnCpu"   -> SetCpuOf(tid, IdleCpu) /\ UNCHANGED <<rq, status>>
      [] state[tid] = "Blocked" -> UNCHANGED <<rq, cpu_states, status>>

consume_msg_task_blocked(tid) ==
    IF tid \in alive
    THEN /\ Vacate(tid)
         /\ state' = [state EXCEPT ![tid] = "Blocked"]
         /\ UNCHANGED <<alive, cpu_id>>
    ELSE Ignore

CreateTask(tid) ==
    /\ alive' = alive \cup {tid}
    /\ cpu_id' = [cpu_id EXCEPT ![tid] = NoCpu]

consume_msg_task_new(tid) ==
    IF tid \in alive
    THEN Stop("kernel_bug")
    ELSE CreateTask(tid) /\ EnqueueTask(tid) /\ UNCHANGED <<cpu_states, status>>

consume_msg_task_new_blocked(tid) ==
    IF tid \in alive
    THEN Stop("kernel_bug")
    ELSE /\ CreateTask(tid)
         /\ state' = [state EXCEPT ![tid] = "Blocked"]
         /\ UNCHANGED <<rq, cpu_states, status>>

consume_msg_task_dead(tid) ==
    IF tid \notin alive
    THEN Stop("kernel_bug")
    ELSE /\ Vacate(tid)
         /\ alive' = alive \ {tid}
         /\ state' = [state EXCEPT ![tid] = "Blocked"]   \* the task is freed
         /\ cpu_id' = [cpu_id EXCEPT ![tid] = NoCpu]

\* Displaced by a thread of the COS class.
consume_msg_task_preempt_cos(tid) ==
    CASE tid \notin alive          -> Stop("kernel_bug")
      [] tid \in alive /\ state[tid] = "Blocked" -> Stop("assert_task")
      [] tid \in alive /\ state[tid] = "Queued"  -> Ignore
      [] tid \in alive /\ state[tid] = "OnCpu" ->
            /\ EnqueueTask(tid)
            /\ status' = IF cpu_states[cpu_id[tid]].type = "COS" THEN status ELSE "assert_cpu"
            /\ UNCHANGED <<alive, cpu_id, cpu_states>>

\* Displaced by CFS.
consume_msg_task_preempt(tid) ==
    CASE tid \notin alive          -> Stop("kernel_bug")
      [] tid \in alive /\ state[tid] = "Blocked" -> Stop("assert_task")
      [] tid \in alive /\ state[tid] = "Queued"  -> Ignore
      [] tid \in alive /\ state[tid] = "OnCpu" ->
            /\ EnqueueTask(tid)
            /\ SetCpuOf(tid, [cpu_states[cpu_id[tid]] EXCEPT !.type = "CFS"])
            /\ UNCHANGED <<alive, cpu_id, status>>

Dispatch(msg) ==
    \/ msg.type = "RUNNABLE"    /\ consume_msg_task_runnable(msg.pid)
    \/ msg.type = "BLOCKED"     /\ consume_msg_task_blocked(msg.pid)
    \/ msg.type = "NEW"         /\ consume_msg_task_new(msg.pid)
    \/ msg.type = "DEAD"        /\ consume_msg_task_dead(msg.pid)
    \/ msg.type = "PREEMPT"     /\ consume_msg_task_preempt(msg.pid)
    \/ msg.type = "NEW_BLOCKED" /\ consume_msg_task_new_blocked(msg.pid)
    \/ msg.type = "COS_PREEMPT" /\ consume_msg_task_preempt_cos(msg.pid)
    \/ msg.type \notin MsgTypes /\ Ignore

At(label) == status = "running" /\ pc = label

Consume(msg) ==
    /\ At("drain")
    /\ IF IsOwn(msg) THEN Ignore ELSE Dispatch(msg)
    /\ UNCHANGED loopVars

EnterSchedule ==
    /\ At("drain")
    /\ pc' = "classify"
    /\ cursor' = FirstCpu
    /\ UNCHANGED <<taskVars, area, pools, onqueue_idle, assigned, old_cpu_states, status>>

-----------------------------------------------------------------------------
(* schedule(): which CPUs may be shot at.                                  *)

\* Mutant: CPUs are counted from one.
Pooled_Next(pool) == pools' = [pools EXCEPT ![pool] = Append(@, cursor + 1)]

Pooled(pool) == pools' = [pools EXCEPT ![pool] = Append(@, cursor)]

\* A COS CPU may be taken over when the slice of its task is over or the
\* task is marked idle; its task must be on a CPU.
ClassifyCos ==
    LET tid == cpu_states[cursor].pid
    IN IF tid \notin alive
       THEN status' = "null_deref" /\ UNCHANGED pools
       ELSE IF state[tid] # "OnCpu"
       THEN status' = "assert_oncpu" /\ UNCHANGED pools
       ELSE /\ \/ Pooled("cos")
               \/ UNCHANGED pools
            /\ UNCHANGED status

\* Mutant: the lord's CPU is not skipped.
Classify_LordCpu ==
    /\ At("classify")
    /\ cursor < CpuNum
    /\ CASE cpu_states[cursor].type = "IDLE" -> Pooled("idle") /\ UNCHANGED status
         [] cpu_states[cursor].type = "CFS"  -> Pooled("cfs") /\ UNCHANGED status
         [] cpu_states[cursor].type = "COS"  -> ClassifyCos
    /\ cursor' = cursor + 1
    /\ UNCHANGED <<taskVars, area, pc, onqueue_idle, assigned, old_cpu_states>>

Classify ==
    /\ At("classify")
    /\ cursor < CpuNum
    /\ IF cursor = LordCpu THEN UNCHANGED <<pools, status>>
       ELSE CASE cpu_states[cursor].type = "IDLE" -> Pooled("idle") /\ UNCHANGED status
              [] cpu_states[cursor].type = "CFS"  -> Pooled("cfs") /\ UNCHANGED status
              [] cpu_states[cursor].type = "COS"  -> ClassifyCos
    /\ cursor' = cursor + 1
    /\ UNCHANGED <<taskVars, area, pc, onqueue_idle, assigned, old_cpu_states>>

Classified ==
    /\ At("classify")
    /\ cursor >= CpuNum
    /\ pc' = "pick"
    /\ cursor' = 0
    /\ UNCHANGED <<taskVars, area, pools, onqueue_idle, assigned, old_cpu_states, status>>

-----------------------------------------------------------------------------
(* schedule(): which threads to shoot.                                     *)

\* The head of the queue is marked idle: it is passed over.
PassOver ==
    LET tid == Peek(rq) IN
    /\ At("pick")
    /\ tid # 0
    /\ rq' = Dequeue(rq)
    /\ onqueue_idle' = Enqueue(onqueue_idle, tid)
    /\ UNCHANGED <<alive, state, cpu_id, cpu_states, area, pc, cursor, pools, assigned,
                   old_cpu_states, status>>

\* An idle CPU first, then one CFS took, then one to be preempted.
Pool == CASE pools.idle # <<>> -> "idle"
          [] pools.idle = <<>> /\ pools.cfs # <<>> -> "cfs"
          [] pools.idle = <<>> /\ pools.cfs = <<>> -> "cos"

\* The head of the queue goes to the first CPU of the pools.
AssignHead ==
    LET tid == Peek(rq)
        cpu == Head(pools[Pool])
    IN /\ At("pick")
       /\ tid # 0
       /\ pools[Pool] # <<>>
       /\ IF tid \in alive
          THEN /\ pools' = [pools EXCEPT ![Pool] = Tail(@)]
               /\ assigned' = Append(assigned, [cpu |-> cpu, pid |-> tid])
               /\ state' = [state EXCEPT ![tid] = "OnCpu"]
               /\ cpu_id' = [cpu_id EXCEPT ![tid] = cpu]
               /\ old_cpu_states' = [old_cpu_states EXCEPT ![cpu] = cpu_states[cpu]]
               /\ cpu_states' = [cpu_states EXCEPT ![cpu] = [type |-> "COS", pid |-> tid]]
               /\ rq' = Dequeue(rq)
               /\ UNCHANGED <<alive, area, pc, cursor, onqueue_idle, status>>
          ELSE Stop("pick_bug") /\ UNCHANGED loopVars

\* Mutant: nothing is committed.
Committed_Not == area

\* commit_shoot_message
Committed ==
    [c \in Cpus |-> IF \E i \in DOMAIN assigned : assigned[i].cpu = c
                    THEN [pid |-> (CHOOSE s \in ToSet(assigned) : s.cpu = c).pid,
                          info |-> "RIGHT"]
                    ELSE area[c]]

\* Mutants: the threads passed over are lost, or the pools outlive the call.
EndPick_Drops ==
    /\ At("pick")
    /\ Peek(rq) = 0 \/ pools[Pool] = <<>>
    /\ onqueue_idle' = <<>>
    /\ pools' = NoPools
    /\ area' = Committed
    /\ pc' = IF assigned = <<>> THEN "drain" ELSE "shoot"
    /\ UNCHANGED <<taskVars, cursor, assigned, old_cpu_states, status>>

EndPick_KeepsPools ==
    /\ At("pick")
    /\ Peek(rq) = 0 \/ pools[Pool] = <<>>
    /\ rq' = rq \o onqueue_idle
    /\ onqueue_idle' = <<>>
    /\ area' = Committed
    /\ pc' = IF assigned = <<>> THEN "drain" ELSE "shoot"
    /\ UNCHANGED <<alive, state, cpu_id, cpu_states, cursor, pools, assigned, old_cpu_states,
                   status>>

\* The queue or the CPUs are used up.  The threads passed over go back behind
\* the others, and the shots, if any, are committed.
EndPick ==
    /\ At("pick")
    /\ Peek(rq) = 0 \/ pools[Pool] = <<>>
    /\ rq' = rq \o onqueue_idle
    /\ onqueue_idle' = <<>>
    /\ pools' = NoPools
    /\ area' = Committed
    /\ pc' = IF assigned = <<>> THEN "drain" ELSE "shoot"
    /\ UNCHANGED <<alive, state, cpu_id, cpu_states, cursor, assigned, old_cpu_states, status>>

-----------------------------------------------------------------------------
(* schedule(): the shot and its verdicts.                                  *)

ShotCpus == {s.cpu : s \in ToSet(assigned)}

Verdict(bad) ==
    area' = [c \in Cpus |-> IF c \in bad THEN [area[c] EXCEPT !.info = "ERROR"] ELSE area[c]]

ShootOk(bad) ==
    /\ At("shoot")
    /\ Verdict(bad)
    /\ pc' = "check"
    /\ UNCHANGED <<taskVars, cursor, pools, onqueue_idle, assigned, old_cpu_states, status>>

ShootErr(bad) ==
    /\ At("shoot")
    /\ bad = {} \/ ErrLeavesInfo
    /\ Verdict(bad)
    /\ pc' = "revert"
    /\ UNCHANGED <<taskVars, cursor, pools, onqueue_idle, assigned, old_cpu_states, status>>

Requeue(pid) ==
    /\ rq' = Enqueue(rq, pid)
    /\ IF pid \in alive
       THEN state' = [state EXCEPT ![pid] = "Queued"] /\ UNCHANGED status
       ELSE status' = "null_deref" /\ UNCHANGED state

\* Mutant: the CPU is not restored.
TakeBack_KeepsCpu(pid, c) ==
    /\ Requeue(pid)
    /\ UNCHANGED <<alive, cpu_id, cpu_states>>

\* The shot of pid at c is taken back.
TakeBack(pid, c) ==
    /\ Requeue(pid)
    /\ cpu_states' = IF c \in ShotCpus
                     THEN [cpu_states EXCEPT ![c] = old_cpu_states[c]]
                     ELSE cpu_states
    /\ UNCHANGED <<alive, cpu_id>>

RevertOne ==
    /\ At("revert")
    /\ cursor < Len(assigned)
    /\ TakeBack(assigned[cursor + 1].pid, assigned[cursor + 1].cpu)
    /\ cursor' = cursor + 1
    /\ UNCHANGED <<area, pc, pools, onqueue_idle, assigned, old_cpu_states>>

\* Mutant: the verdicts are reset without being looked at.
CheckOne_Blind ==
    /\ At("check")
    /\ cursor < CpuNum
    /\ area' = [area EXCEPT ![cursor].info = "RIGHT"]
    /\ cursor' = cursor + 1
    /\ UNCHANGED <<taskVars, status, pc, pools, onqueue_idle, assigned, old_cpu_states>>

\* One round of check_shoot_state and of the loop over the failures.
CheckOne ==
    /\ At("check")
    /\ cursor < CpuNum
    /\ IF area[cursor].info # "RIGHT"
       THEN TakeBack(area[cursor].pid, cursor)
       ELSE UNCHANGED <<taskVars, status>>
    /\ area' = [area EXCEPT ![cursor].info = "RIGHT"]
    /\ cursor' = cursor + 1
    /\ UNCHANGED <<pc, pools, onqueue_idle, assigned, old_cpu_states>>

Return ==
    /\ \/ At("revert") /\ cursor = Len(assigned)
       \/ At("check") /\ cursor = CpuNum
    /\ pc' = "drain"
    /\ cursor' = 0
    /\ assigned' = <<>>
    /\ old_cpu_states' = [c \in Cpus |-> IdleCpu]
    /\ UNCHANGED <<taskVars, area, pools, onqueue_idle, status>>

ScheduleStep ==
    \/ Classify
    \/ Classified
    \/ PassOver
    \/ AssignHead
    \/ EndPick
    \/ RevertOne
    \/ CheckOne
    \/ Return

ShootStep == \E bad \in SUBSET ShotCpus : ShootOk(bad) \/ ShootErr(bad)

Next ==
    \/ \E msg \in CosMsg : Consume(msg)
    \/ EnterSchedule
    \/ ScheduleStep
    \/ ShootStep

Spec == Init /\ [][Next]_lordVars

-----------------------------------------------------------------------------
(* Properties that hold whatever the kernel sends and answers.             *)

Queued == {t \in Tids : state[t] = "Queued"}
OnCpu  == {t \in Tids : state[t] = "OnCpu"}

\* The run queue and the threads passed over are the Queued tasks, each once
\* (shinjuku_lord.h:66, :143-147, :163, :188-191).
RqExact ==
    /\ IsInjective(rq \o onqueue_idle)
    /\ ToSet(rq \o onqueue_idle) = Queued
    /\ Queued \cup OnCpu \subseteq alive

\* The CPUs still to be shot at are different CPUs, none the lord's, none
\* below the first, and none already shot at (shinjuku_lord.h:101-132, :150-161).
PoolsDisjoint ==
    LET all == pools.idle \o pools.cfs \o pools.cos IN
    /\ IsInjective(all \o [i \in DOMAIN assigned |-> assigned[i].cpu])
    /\ \A c \in ToSet(all) \cup ShotCpus : c >= FirstCpu /\ c # LordCpu

\* The order given to the kernel is executable: known threads, each on the
\* CPU it is shot at in the lord's books, no thread at two CPUs.
ShotsSound ==
    pc = "shoot" =>
        \A s \in ToSet(assigned) :
            /\ s.pid \in OnCpu /\ cpu_id[s.pid] = s.cpu
            /\ cpu_states[s.cpu] = [type |-> "COS", pid |-> s.pid]
            /\ area[s.cpu] = [pid |-> s.pid, info |-> "RIGHT"]

\* The run queue never trips the exits of remove_from_rq and schedule()
\* (shinjuku_lord.h:68, :163).
QueueNeverStops == status \notin {"rq_exit", "pick_bug"}
=============================================================================
