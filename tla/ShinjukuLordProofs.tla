------------------------- MODULE ShinjukuLordProofs -------------------------
(***************************************************************************)
(* The invariants of ShinjukuLord, for any number of CPUs and threads and  *)
(* any kernel that writes verdicts only in calls that succeed.             *)
(***************************************************************************)
EXTENDS ShinjukuLord, RunQueueProofs

TaskTypeOK ==
    /\ rq \in Seq(Tids)
    /\ onqueue_idle \in Seq(Tids)
    /\ alive \subseteq Tids
    /\ state \in [Tids -> RunStates]
    /\ cpu_id \in [Tids -> Cpus \cup {NoCpu}]
    /\ cpu_states \in [Cpus -> CpuStates]

\* RqExact, with the two queues apart, and the CPU of a running task exists.
Books ==
    /\ IsInjective(rq) /\ IsInjective(onqueue_idle)
    /\ ToSet(rq) \cap ToSet(onqueue_idle) = {}
    /\ ToSet(rq) \cup ToSet(onqueue_idle) = Queued
    /\ Queued \cup OnCpu \subseteq alive
    /\ \A t \in OnCpu : cpu_id[t] \in Cpus

TaskInv == TaskTypeOK /\ Books

LoopTypeOK ==
    /\ area \in [Cpus -> [pid : Tids \cup {NoTask}, info : {"RIGHT", "ERROR"}]]
    /\ pc \in {"drain", "classify", "pick", "shoot", "revert", "check"}
    /\ cursor \in Nat
    /\ pools \in [PoolNames -> Seq(Cpus)]
    /\ assigned \in Seq([cpu : Cpus, pid : Tids])
    /\ old_cpu_states \in [Cpus -> CpuStates]

\* A CPU is in one pool, or shot at, or neither: each CPU is classified once,
\* in increasing order, and moves from its pool to the shots.
PoolInv ==
    /\ \A p \in PoolNames : IsInjective(pools[p])
    /\ \A p, q \in PoolNames : p # q => ToSet(pools[p]) \cap ToSet(pools[q]) = {}
    /\ \A p \in PoolNames : \A c \in ToSet(pools[p]) :
          /\ c >= FirstCpu /\ c # LordCpu /\ c \notin ShotCpus
          /\ pc = "classify" => c < cursor
    /\ \A c \in ShotCpus : c >= FirstCpu /\ c # LordCpu
    /\ \A i, j \in DOMAIN assigned : assigned[i].cpu = assigned[j].cpu => i = j

\* The shots that schedule() has still to settle.
Pending == IF pc = "revert" THEN {i \in DOMAIN assigned : i > cursor}
           ELSE IF pc = "check" THEN {i \in DOMAIN assigned : assigned[i].cpu >= cursor}
           ELSE DOMAIN assigned

\* What each stage of schedule() starts from.
StageInv ==
    /\ pc # "pick" => onqueue_idle = <<>>
    /\ pc \notin {"classify", "pick"} => pools = NoPools
    /\ pc \in {"drain", "classify"} => assigned = <<>>
    /\ pc \in {"drain", "pick", "shoot"} => cursor = 0
    /\ pc = "classify" => cursor >= FirstCpu

\* A shot not settled has its thread on the CPU in the lord's books, and the
\* area holds nothing but verdicts on such shots.
ShotInv ==
    /\ \A i \in Pending :
          LET s == assigned[i] IN
          /\ s.pid \in OnCpu /\ cpu_id[s.pid] = s.cpu
          /\ pc \in {"pick", "shoot"} => cpu_states[s.cpu] = [type |-> "COS", pid |-> s.pid]
          /\ pc \in {"shoot", "check"} => area[s.cpu].pid = s.pid
    /\ \A c \in Cpus : area[c].info = "ERROR" =>
          pc = "check" /\ \E i \in Pending : assigned[i].cpu = c

StatusOK == status \in Statuses \ {"rq_exit", "pick_bug"}

IInv == TaskInv /\ LoopTypeOK /\ PoolInv /\ StageInv /\ ShotInv /\ StatusOK

-----------------------------------------------------------------------------
(* The handlers keep the books of the tasks.  They run between two rounds  *)
(* of schedule(), when no thread is passed over.                           *)

LEMMA EnqueueTaskLemma ==
    ASSUME TaskInv, NEW tid \in Tids, tid \in alive', state[tid] # "Queued",
           alive \subseteq alive', alive' \subseteq Tids,
           \A t \in OnCpu \ {tid} : cpu_id'[t] = cpu_id[t],
           onqueue_idle' = onqueue_idle,
           EnqueueTask(tid)
    PROVE  /\ rq' \in Seq(Tids)
           /\ state' \in [Tids -> RunStates]
           /\ Books'
           /\ OnCpu' = OnCpu \ {tid}
<1>1. tid \notin ToSet(rq) /\ tid \notin ToSet(onqueue_idle) /\ IsInjective(rq) /\ rq \in Seq(Tids)
  BY DEF TaskInv, TaskTypeOK, Books, Queued
<1>2. /\ rq' \in Seq(Tids) /\ IsInjective(rq') /\ ToSet(rq') = ToSet(rq) \cup {tid}
  BY <1>1, EnqueueLemma DEF EnqueueTask
<1>3. /\ state' \in [Tids -> RunStates]
      /\ Queued' = Queued \cup {tid}
      /\ OnCpu' = OnCpu \ {tid}
  BY DEF TaskInv, TaskTypeOK, EnqueueTask, Queued, OnCpu, RunStates
<1> QED  BY <1>1, <1>2, <1>3 DEF TaskInv, Books

\* BLOCKED and DEAD: the task ends neither queued nor on a CPU.
LEMMA VacateLemma ==
    ASSUME TaskInv, onqueue_idle = <<>>, onqueue_idle' = onqueue_idle,
           NEW tid \in Tids, tid \in alive, Vacate(tid),
           state' = [state EXCEPT ![tid] = "Blocked"],
           \/ alive' = alive /\ cpu_id' = cpu_id
           \/ /\ alive' = alive \ {tid}
              /\ cpu_id' = [cpu_id EXCEPT ![tid] = NoCpu]
    PROVE  TaskInv' /\ status' = status
<1> USE DEF TaskInv, TaskTypeOK
<1>1. /\ state' \in [Tids -> RunStates]
      /\ Queued' = Queued \ {tid}
      /\ OnCpu' = OnCpu \ {tid}
      /\ cpu_id' \in [Tids -> Cpus \cup {NoCpu}]
      /\ \A t \in Tids \ {tid} : cpu_id'[t] = cpu_id[t]
      /\ alive \ {tid} \subseteq alive' /\ alive' \subseteq Tids
  BY DEF RunStates, Queued, OnCpu
<1>2. Queued' \cup OnCpu' \subseteq alive' /\ \A t \in OnCpu' : cpu_id'[t] \in Cpus
  BY <1>1 DEF Books, OnCpu
<1>3. ToSet(onqueue_idle) = {}
  BY DEF ToSet
<1>4. CASE state[tid] = "Queued"
  <2>1. tid \in ToSet(rq)
    BY <1>3, <1>4 DEF Books, Queued
  <2>2. rq' = RemoveFromRq(rq, tid) /\ status' = status /\ cpu_states' = cpu_states
    BY <1>4, <2>1 DEF Vacate, InRq
  <2>3. /\ rq' \in Seq(Tids) /\ IsInjective(rq') /\ ToSet(rq') = ToSet(rq) \ {tid}
    BY <2>1, <2>2, RemoveLemma DEF Books
  <2>4. Books'
    BY <1>1, <1>2, <1>3, <2>3 DEF Books
  <2> QED  BY <1>1, <2>2, <2>3, <2>4
<1>5. CASE state[tid] # "Queued"
  <2>1. /\ rq' = rq /\ status' = status
        /\ SetCpuOf(tid, IdleCpu) \/ cpu_states' = cpu_states
    BY <1>5 DEF Vacate, RunStates
  <2>2. cpu_states' \in [Cpus -> CpuStates]
    BY <2>1 DEF SetCpuOf, IdleCpu, CpuStates
  <2>3. tid \notin Queued
    BY <1>5 DEF Queued
  <2>4. Books'
    BY <1>1, <1>2, <2>1, <2>3 DEF Books
  <2> QED  BY <1>1, <2>1, <2>2, <2>4
<1> QED  BY <1>4, <1>5

\* An ignored message, and a fatal one, leave the books as they are.
LEMMA UnchangedLemma ==
    ASSUME TaskInv, UNCHANGED <<taskVars, onqueue_idle>>
    PROVE  TaskInv'
BY DEF TaskInv, TaskTypeOK, Books, Queued, OnCpu, taskVars

LEMMA RunnableLemma ==
    ASSUME TaskInv, onqueue_idle' = onqueue_idle,
           NEW tid \in Tids, consume_msg_task_runnable(tid)
    PROVE  TaskInv' /\ status' = status
<1>1. CASE tid \in alive /\ state[tid] # "Queued"
  <2>1. EnqueueTask(tid) /\ UNCHANGED <<alive, cpu_id, cpu_states, status>>
    BY <1>1 DEF consume_msg_task_runnable
  <2>2. rq' \in Seq(Tids) /\ state' \in [Tids -> RunStates] /\ Books'
    BY <1>1, <2>1, EnqueueTaskLemma DEF TaskInv, TaskTypeOK
  <2> QED  BY <2>1, <2>2 DEF TaskInv, TaskTypeOK
<1>2. CASE ~(tid \in alive /\ state[tid] # "Queued")
  BY <1>2, UnchangedLemma DEF consume_msg_task_runnable, Ignore
<1> QED  BY <1>1, <1>2

LEMMA BlockedLemma ==
    ASSUME TaskInv, onqueue_idle = <<>>, onqueue_idle' = onqueue_idle,
           NEW tid \in Tids, consume_msg_task_blocked(tid)
    PROVE  TaskInv' /\ status' = status
<1>1. CASE tid \in alive
  BY <1>1, VacateLemma DEF consume_msg_task_blocked
<1>2. CASE tid \notin alive
  BY <1>2, UnchangedLemma DEF consume_msg_task_blocked, Ignore
<1> QED  BY <1>1, <1>2

LEMMA DeadLemma ==
    ASSUME TaskInv, onqueue_idle = <<>>, onqueue_idle' = onqueue_idle,
           NEW tid \in Tids, consume_msg_task_dead(tid)
    PROVE  TaskInv' /\ status' \in {status, "kernel_bug"}
<1>1. CASE tid \in alive
  BY <1>1, VacateLemma DEF consume_msg_task_dead
<1>2. CASE tid \notin alive
  BY <1>2, UnchangedLemma DEF consume_msg_task_dead, Stop
<1> QED  BY <1>1, <1>2

LEMMA NewLemma ==
    ASSUME TaskInv, onqueue_idle' = onqueue_idle, NEW tid \in Tids,
           consume_msg_task_new(tid) \/ consume_msg_task_new_blocked(tid)
    PROVE  TaskInv' /\ status' \in {status, "kernel_bug"}
<1>1. CASE tid \in alive
  BY <1>1, UnchangedLemma
     DEF consume_msg_task_new, consume_msg_task_new_blocked, Stop
<1>2. CASE tid \notin alive
  <2>1. /\ CreateTask(tid) /\ cpu_states' = cpu_states /\ status' = status
        /\ \/ EnqueueTask(tid)
           \/ rq' = rq /\ state' = [state EXCEPT ![tid] = "Blocked"]
    BY <1>2 DEF consume_msg_task_new, consume_msg_task_new_blocked
  <2>2. /\ alive' = alive \cup {tid} /\ alive' \subseteq Tids
        /\ cpu_id' \in [Tids -> Cpus \cup {NoCpu}]
        /\ \A t \in Tids \ {tid} : cpu_id'[t] = cpu_id[t]
        /\ tid \notin OnCpu /\ tid \notin Queued /\ state[tid] # "Queued"
    BY <1>2, <2>1 DEF CreateTask, TaskInv, TaskTypeOK, Books, Queued, OnCpu
  <2>3. CASE EnqueueTask(tid)
    <3>1. \A t \in OnCpu \ {tid} : cpu_id'[t] = cpu_id[t]
      BY <2>2 DEF OnCpu
    <3>2. rq' \in Seq(Tids) /\ state' \in [Tids -> RunStates] /\ Books'
      BY <2>2, <2>3, <3>1, EnqueueTaskLemma
    <3> QED  BY <2>1, <2>2, <3>2 DEF TaskInv, TaskTypeOK
  <2>4. CASE rq' = rq /\ state' = [state EXCEPT ![tid] = "Blocked"]
    <3>1. state' \in [Tids -> RunStates] /\ Queued' = Queued /\ OnCpu' = OnCpu
      BY <2>2, <2>4 DEF TaskInv, TaskTypeOK, Queued, OnCpu, RunStates
    <3>2. \A t \in OnCpu : cpu_id'[t] = cpu_id[t]
      BY <2>2 DEF OnCpu
    <3> QED  BY <2>1, <2>2, <2>4, <3>1, <3>2 DEF TaskInv, TaskTypeOK, Books
  <2> QED  BY <2>1, <2>3, <2>4
<1> QED  BY <1>1, <1>2

\* The assert on the type of the CPU may fail here, unlike the FIFO lord's.
LEMMA PreemptLemma ==
    ASSUME TaskInv, onqueue_idle' = onqueue_idle, NEW tid \in Tids,
           consume_msg_task_preempt(tid) \/ consume_msg_task_preempt_cos(tid)
    PROVE  TaskInv' /\ status' \in {status, "kernel_bug", "assert_task", "assert_cpu"}
<1>1. CASE tid \notin alive
  BY <1>1, UnchangedLemma
     DEF consume_msg_task_preempt, consume_msg_task_preempt_cos, Stop
<1>2. CASE tid \in alive /\ state[tid] = "Blocked"
  BY <1>2, UnchangedLemma
     DEF consume_msg_task_preempt, consume_msg_task_preempt_cos, Stop
<1>3. CASE tid \in alive /\ state[tid] = "Queued"
  BY <1>3, UnchangedLemma
     DEF consume_msg_task_preempt, consume_msg_task_preempt_cos, Ignore
<1>4. CASE tid \in alive /\ state[tid] = "OnCpu"
  <2> DEFINE s == [cpu_states[cpu_id[tid]] EXCEPT !.type = "CFS"]
  <2>1. /\ EnqueueTask(tid) /\ alive' = alive /\ cpu_id' = cpu_id
        /\ cpu_states' = cpu_states \/ SetCpuOf(tid, s)
        /\ status' \in {status, "assert_cpu"}
    BY <1>4 DEF consume_msg_task_preempt, consume_msg_task_preempt_cos
  <2>2. cpu_id[tid] \in Cpus
    BY <1>4 DEF TaskInv, Books, OnCpu
  <2>3. s \in CpuStates
    BY <2>2 DEF TaskInv, TaskTypeOK, CpuStates
  <2> HIDE DEF s
  <2>4. cpu_states' \in [Cpus -> CpuStates]
    BY <2>1, <2>2, <2>3 DEF SetCpuOf, TaskInv, TaskTypeOK
  <2>5. rq' \in Seq(Tids) /\ state' \in [Tids -> RunStates] /\ Books'
    BY <1>4, <2>1, EnqueueTaskLemma DEF TaskInv, TaskTypeOK
  <2> QED  BY <2>1, <2>4, <2>5 DEF TaskInv, TaskTypeOK
<1> QED  BY <1>1, <1>2, <1>3, <1>4 DEF TaskInv, TaskTypeOK, RunStates

LEMMA ConsumeLemma ==
    ASSUME IInv, NEW msg \in CosMsg, Consume(msg)
    PROVE  IInv'
<1>1. /\ TaskInv /\ msg.pid \in Tids /\ UNCHANGED loopVars
      /\ pc = "drain" /\ status = "running"
      /\ onqueue_idle = <<>> /\ onqueue_idle' = onqueue_idle /\ assigned = <<>>
  BY DEF IInv, Consume, At, CosMsg, StageInv, loopVars
<1>2. TaskInv' /\ status' \in {status, "kernel_bug", "assert_task", "assert_cpu"}
  <2>1. CASE Ignore
    BY <1>1, <2>1, UnchangedLemma DEF Ignore
  <2>2. CASE Dispatch(msg)
    BY <1>1, <2>1, <2>2, RunnableLemma, BlockedLemma, NewLemma, DeadLemma, PreemptLemma
       DEF Dispatch
  <2> QED  BY <2>1, <2>2 DEF Consume
<1>3. StatusOK'
  BY <1>1, <1>2 DEF StatusOK, Statuses
<1>4. LoopTypeOK' /\ PoolInv' /\ StageInv'
  BY <1>1 DEF IInv, LoopTypeOK, PoolInv, StageInv, ShotCpus, loopVars
<1>5. ShotInv'
  <2>1. Pending' = {}
    BY <1>1 DEF Pending, loopVars
  <2> QED  BY <1>1, <2>1 DEF IInv, ShotInv, loopVars
<1> QED  BY <1>2, <1>3, <1>4, <1>5 DEF IInv

-----------------------------------------------------------------------------
(* schedule(): the CPUs.                                                   *)

\* Outside the check no entry of the area is an error.
LEMMA NoErrorLemma ==
    ASSUME IInv, pc # "check"
    PROVE  \A c \in Cpus : area[c].info # "ERROR"
BY DEF IInv, ShotInv

LEMMA ClassifyLemma ==
    ASSUME IInv, Classify
    PROVE  IInv'
<1> USE LordAssumption, ShinjukuAssumption
<1>1. /\ pc = "classify" /\ status = "running" /\ cursor \in Cpus /\ cursor >= FirstCpu
      /\ cursor' = cursor + 1 /\ assigned = <<>>
      /\ UNCHANGED <<taskVars, area, pc, onqueue_idle, assigned, old_cpu_states>>
  BY DEF Classify, At, IInv, StageInv, LoopTypeOK, Cpus
<1>2. /\ pools' = pools \/ (cursor # LordCpu /\ \E p \in PoolNames : Pooled(p))
      /\ status' \in {status, "null_deref", "assert_oncpu"}
  <2>1. cpu_states[cursor].type \in {"IDLE", "COS", "CFS"}
    BY <1>1 DEF IInv, TaskInv, TaskTypeOK, CpuStates
  <2> QED  BY <2>1 DEF Classify, ClassifyCos, PoolNames
<1>3. TaskInv'
  BY <1>1, UnchangedLemma DEF IInv
<1>4. pools' \in [PoolNames -> Seq(Cpus)] /\ PoolInv'
  <2>1. \A p \in PoolNames : /\ pools[p] \in Seq(Cpus) /\ IsInjective(pools[p])
                             /\ cursor \notin ToSet(pools[p])
    <3>1. \A p \in PoolNames : pools[p] \in Seq(Cpus) /\ IsInjective(pools[p])
      BY DEF IInv, LoopTypeOK, PoolInv
    <3>2. \A p \in PoolNames : \A c \in ToSet(pools[p]) : c < cursor
      BY <1>1 DEF IInv, PoolInv
    <3>3. ~(cursor < cursor)
      BY <1>1 DEF Cpus
    <3> QED  BY <3>1, <3>2, <3>3
  <2>2. ShotCpus' = {} /\ DOMAIN assigned' = {}
    BY <1>1 DEF ShotCpus, ToSet
  <2>3. CASE pools' = pools
    <3>1. \A p \in PoolNames : \A c \in ToSet(pools[p]) : c \in Cpus /\ c < cursor
      BY <1>1, <2>1 DEF IInv, PoolInv, ToSet
    <3>2. \A p \in PoolNames : \A c \in ToSet(pools[p]) : c < cursor'
      BY <1>1, <3>1 DEF Cpus
    <3>3. PoolInv'
      BY <2>2, <2>3, <3>2 DEF IInv, PoolInv
    <3> QED  BY <2>3, <3>3 DEF IInv, LoopTypeOK
  <2>4. CASE cursor # LordCpu /\ \E p \in PoolNames : Pooled(p)
    <3>1. PICK p \in PoolNames : pools' = [pools EXCEPT ![p] = Append(pools[p], cursor)]
      BY <2>4 DEF Pooled
    <3>2. /\ Append(pools[p], cursor) \in Seq(Cpus)
          /\ IsInjective(Append(pools[p], cursor))
          /\ ToSet(Append(pools[p], cursor)) = ToSet(pools[p]) \cup {cursor}
      BY <1>1, <2>1, EnqueueLemma DEF Enqueue
    <3>3. /\ pools' \in [PoolNames -> Seq(Cpus)]
          /\ IsInjective(pools'[p]) /\ ToSet(pools'[p]) = ToSet(pools[p]) \cup {cursor}
          /\ \A q \in PoolNames \ {p} : pools'[q] = pools[q]
      BY <3>1, <3>2 DEF IInv, LoopTypeOK
    <3>4. \A q \in PoolNames : IsInjective(pools'[q])
      BY <2>1, <3>3
    <3>5. \A q, r \in PoolNames : q # r => ToSet(pools'[q]) \cap ToSet(pools'[r]) = {}
      <4>1. \A q, r \in PoolNames : q # r => ToSet(pools[q]) \cap ToSet(pools[r]) = {}
        BY DEF IInv, PoolInv
      <4> SUFFICES ASSUME NEW q \in PoolNames, NEW r \in PoolNames, q # r,
                          NEW c \in ToSet(pools'[q]), c \in ToSet(pools'[r])
                   PROVE  FALSE
        OBVIOUS
      <4>2. /\ c \in ToSet(pools[q]) \/ (q = p /\ c = cursor)
            /\ c \in ToSet(pools[r]) \/ (r = p /\ c = cursor)
        BY <3>3
      <4> QED  BY <2>1, <4>1, <4>2
    <3>6. \A q \in PoolNames : \A c \in ToSet(pools'[q]) :
             c >= FirstCpu /\ c # LordCpu /\ c < cursor'
      <4>1. \A q \in PoolNames : \A c \in ToSet(pools[q]) :
               c \in Cpus /\ c >= FirstCpu /\ c # LordCpu /\ c < cursor
        BY <1>1, <2>1 DEF IInv, PoolInv, ToSet
      <4>2. \A q \in PoolNames : ToSet(pools'[q]) \subseteq ToSet(pools[q]) \cup {cursor}
        BY <3>3
      <4> QED  BY <1>1, <2>4, <4>1, <4>2 DEF Cpus
    <3> QED  BY <2>2, <3>3, <3>4, <3>5, <3>6 DEF PoolInv
  <2> QED  BY <1>2, <2>3, <2>4
<1>5. LoopTypeOK' /\ StageInv' /\ StatusOK'
  BY <1>1, <1>2, <1>4 DEF IInv, LoopTypeOK, StageInv, StatusOK, Statuses, Cpus
<1>6. ShotInv'
  <2>1. Pending' = {}
    BY <1>1 DEF Pending
  <2> QED  BY <1>1, <2>1, NoErrorLemma DEF ShotInv
<1> QED  BY <1>3, <1>4, <1>5, <1>6 DEF IInv

\* The head of the queue is known, so schedule() never meets the exit; its
\* CPU leaves the pools.
LEMMA AssignHeadLemma ==
    ASSUME IInv, AssignHead
    PROVE  IInv'
<1> DEFINE tid == Peek(rq)
           cpu == Head(pools[Pool])
           shot == [cpu |-> cpu, pid |-> tid]
<1>1. /\ pc = "pick" /\ status = "running" /\ tid # 0 /\ pools[Pool] # <<>> /\ rq # <<>>
      /\ Pool \in PoolNames
  BY DEF AssignHead, At, Peek, Pool, PoolNames
<1>2. /\ tid \in ToSet(rq)
      /\ Dequeue(rq) \in Seq(Tids)
      /\ IsInjective(Dequeue(rq))
      /\ ToSet(Dequeue(rq)) = ToSet(rq) \ {tid}
  BY <1>1, DequeueLemma DEF IInv, TaskInv, TaskTypeOK, Books
<1>3. tid \in Queued /\ tid \in alive /\ tid \in Tids /\ tid \notin OnCpu
  BY <1>2 DEF IInv, TaskInv, Books, Queued, OnCpu
<1>4. /\ pools[Pool] \in Seq(Cpus) /\ IsInjective(pools[Pool])
      /\ cpu \in ToSet(pools[Pool])
      /\ Tail(pools[Pool]) \in Seq(Cpus)
      /\ IsInjective(Tail(pools[Pool]))
      /\ ToSet(Tail(pools[Pool])) = ToSet(pools[Pool]) \ {cpu}
  <2>1. pools[Pool] \in Seq(Cpus) /\ IsInjective(pools[Pool])
    BY <1>1 DEF IInv, LoopTypeOK, PoolInv
  <2>2. Peek(pools[Pool]) = cpu /\ Dequeue(pools[Pool]) = Tail(pools[Pool])
    BY <1>1 DEF Peek, Dequeue
  <2> QED  BY <1>1, <2>1, <2>2, DequeueLemma
<1>5. cpu \in Cpus /\ cpu >= FirstCpu /\ cpu # LordCpu /\ cpu \notin ShotCpus
  <2>1. cpu \in Cpus
    BY <1>4 DEF ToSet
  <2> QED  BY <1>1, <1>4, <2>1 DEF IInv, PoolInv
<1>6. /\ pools' = [pools EXCEPT ![Pool] = Tail(pools[Pool])]
      /\ assigned' = Append(assigned, shot)
      /\ state' = [state EXCEPT ![tid] = "OnCpu"]
      /\ cpu_id' = [cpu_id EXCEPT ![tid] = cpu]
      /\ old_cpu_states' = [old_cpu_states EXCEPT ![cpu] = cpu_states[cpu]]
      /\ cpu_states' = [cpu_states EXCEPT ![cpu] = [type |-> "COS", pid |-> tid]]
      /\ rq' = Dequeue(rq)
      /\ UNCHANGED <<alive, area, pc, cursor, onqueue_idle, status>>
  BY <1>3 DEF AssignHead
<1> HIDE DEF tid, cpu
<1>7. TaskTypeOK'
  BY <1>2, <1>3, <1>5, <1>6 DEF IInv, TaskInv, TaskTypeOK, RunStates, CpuStates
<1>8. /\ Queued' = Queued \ {tid}
      /\ OnCpu' = OnCpu \cup {tid}
      /\ cpu_id'[tid] = cpu
      /\ \A t \in Tids \ {tid} : cpu_id'[t] = cpu_id[t]
  BY <1>3, <1>6 DEF Queued, OnCpu, RunStates, IInv, TaskInv, TaskTypeOK
<1>9. Books'
  <2>1. \A t \in OnCpu' : cpu_id'[t] \in Cpus
    BY <1>3, <1>5, <1>8 DEF IInv, TaskInv, Books, OnCpu
  <2> QED  BY <1>2, <1>3, <1>6, <1>8, <2>1 DEF IInv, TaskInv, Books
<1>10. /\ assigned' \in Seq([cpu : Cpus, pid : Tids])
       /\ DOMAIN assigned' = DOMAIN assigned \cup {Len(assigned) + 1}
       /\ Len(assigned) + 1 \notin DOMAIN assigned
       /\ assigned'[Len(assigned) + 1] = shot
       /\ \A i \in DOMAIN assigned : assigned'[i] = assigned[i]
  BY <1>3, <1>5, <1>6 DEF IInv, LoopTypeOK
<1>11. ShotCpus' = ShotCpus \cup {cpu}
  BY <1>10 DEF ShotCpus, ToSet
<1>12. LoopTypeOK'
  BY <1>1, <1>4, <1>5, <1>6, <1>10 DEF IInv, LoopTypeOK, TaskInv, TaskTypeOK
<1>13. PoolInv'
  <2>1. /\ IsInjective(pools'[Pool])
        /\ ToSet(pools'[Pool]) = ToSet(pools[Pool]) \ {cpu}
        /\ \A q \in PoolNames \ {Pool} : pools'[q] = pools[q]
    BY <1>1, <1>4, <1>6 DEF IInv, LoopTypeOK
  <2>2. \A q \in PoolNames : IsInjective(pools'[q])
    BY <2>1 DEF IInv, PoolInv
  <2>3. \A q \in PoolNames : ToSet(pools'[q]) \subseteq ToSet(pools[q]) \ {cpu}
    BY <1>1, <1>4, <2>1 DEF IInv, PoolInv
  <2>4. \A q, r \in PoolNames : q # r => ToSet(pools'[q]) \cap ToSet(pools'[r]) = {}
    BY <2>3 DEF IInv, PoolInv
  <2>5. \A q \in PoolNames : \A c \in ToSet(pools'[q]) :
           c >= FirstCpu /\ c # LordCpu /\ c \notin ShotCpus'
    BY <1>11, <2>3 DEF IInv, PoolInv
  <2>6. \A c \in ShotCpus' : c >= FirstCpu /\ c # LordCpu
    BY <1>5, <1>11 DEF IInv, PoolInv
  <2>7. \A i, j \in DOMAIN assigned' : assigned'[i].cpu = assigned'[j].cpu => i = j
    <3>1. \A i \in DOMAIN assigned : assigned[i].cpu \in ShotCpus
      BY DEF ShotCpus, ToSet
    <3>2. \A i \in DOMAIN assigned : assigned[i].cpu # cpu
      BY <1>5, <3>1
    <3> QED  BY <1>10, <3>2 DEF IInv, PoolInv
  <2> QED  BY <1>1, <1>6, <2>2, <2>4, <2>5, <2>6, <2>7 DEF PoolInv
<1>14. StageInv'
  BY <1>1, <1>6 DEF IInv, StageInv
<1>15. ShotInv'
  <2>1. Pending = DOMAIN assigned /\ Pending' = DOMAIN assigned'
    BY <1>1, <1>6 DEF Pending
  <2>2. \A i \in DOMAIN assigned : assigned[i].cpu # cpu /\ assigned[i].pid # tid
    <3>1. \A i \in DOMAIN assigned : assigned[i].cpu \in ShotCpus /\ assigned[i].pid \in OnCpu
      BY <2>1 DEF ShotCpus, ToSet, IInv, ShotInv
    <3> QED  BY <1>3, <1>5, <3>1
  <2>3. /\ cpu_states'[cpu] = [type |-> "COS", pid |-> tid]
        /\ \A c \in Cpus \ {cpu} : cpu_states'[c] = cpu_states[c]
    BY <1>5, <1>6 DEF IInv, TaskInv, TaskTypeOK
  <2>4. ASSUME NEW i \in Pending'
        PROVE  /\ assigned'[i].pid \in OnCpu' /\ cpu_id'[assigned'[i].pid] = assigned'[i].cpu
               /\ cpu_states'[assigned'[i].cpu] = [type |-> "COS", pid |-> assigned'[i].pid]
    <3>1. CASE i = Len(assigned) + 1
      BY <1>8, <1>10, <2>3, <3>1
    <3>2. CASE i \in DOMAIN assigned
      <4>1. assigned'[i] = assigned[i] /\ assigned[i].cpu \in Cpus \ {cpu}
        <5>1. assigned[i] \in [cpu : Cpus, pid : Tids]
          BY <3>2, ElementLemma, Zenon DEF IInv, LoopTypeOK
        <5>2. assigned[i].cpu \in Cpus
          BY <5>1
        <5> QED  BY <1>10, <2>2, <3>2, <5>2
      <4>2. assigned[i].pid \in OnCpu /\ cpu_id[assigned[i].pid] = assigned[i].cpu
        BY <2>1, <3>2 DEF IInv, ShotInv
      <4>3. assigned[i].pid \in Tids \ {tid}
        BY <2>2, <3>2, <4>2 DEF OnCpu
      <4>4. cpu_states[assigned[i].cpu] = [type |-> "COS", pid |-> assigned[i].pid]
        BY <1>1, <2>1, <3>2 DEF IInv, ShotInv
      <4> QED  BY <1>8, <2>3, <4>1, <4>2, <4>3, <4>4
    <3> QED  BY <1>10, <2>1, <3>1, <3>2
  <2>5. \A c \in Cpus : area'[c].info # "ERROR"
    BY <1>1, <1>6, NoErrorLemma
  <2> QED  BY <1>1, <1>6, <2>4, <2>5 DEF ShotInv
<1> QED  BY <1>6, <1>7, <1>9, <1>12, <1>13, <1>14, <1>15 DEF IInv, TaskInv, StatusOK

\* The head of the queue goes behind the threads passed over before.
LEMMA PassOverLemma ==
    ASSUME IInv, PassOver
    PROVE  IInv'
<1> DEFINE tid == Peek(rq)
<1>1. /\ pc = "pick" /\ status = "running" /\ tid # 0 /\ rq # <<>>
      /\ rq' = Dequeue(rq) /\ onqueue_idle' = Enqueue(onqueue_idle, tid)
      /\ UNCHANGED <<alive, state, cpu_id, cpu_states, area, pc, cursor, pools, assigned,
                     old_cpu_states, status>>
  BY DEF PassOver, At, Peek
<1>2. /\ tid \in ToSet(rq)
      /\ rq' \in Seq(Tids) /\ IsInjective(rq')
      /\ ToSet(rq') = ToSet(rq) \ {tid}
  BY <1>1, DequeueLemma DEF IInv, TaskInv, TaskTypeOK, Books
<1>3. tid \in Tids /\ tid \notin ToSet(onqueue_idle)
  BY <1>2 DEF IInv, TaskInv, Books, Queued
<1>4. /\ onqueue_idle' \in Seq(Tids) /\ IsInjective(onqueue_idle')
      /\ ToSet(onqueue_idle') = ToSet(onqueue_idle) \cup {tid}
  BY <1>1, <1>3, EnqueueLemma DEF IInv, TaskInv, TaskTypeOK, Books
<1> HIDE DEF tid
<1>5. TaskInv'
  BY <1>1, <1>2, <1>3, <1>4 DEF IInv, TaskInv, TaskTypeOK, Books, Queued, OnCpu
<1>6. LoopTypeOK' /\ PoolInv' /\ StageInv' /\ StatusOK'
  BY <1>1 DEF IInv, LoopTypeOK, PoolInv, StageInv, StatusOK, ShotCpus
<1>7. ShotInv'
  BY <1>1 DEF IInv, ShotInv, Pending, OnCpu
<1> QED  BY <1>5, <1>6, <1>7 DEF IInv

\* The commit writes each shot into the entry of its CPU, and nothing else.
LEMMA CommittedLemma ==
    ASSUME IInv
    PROVE  /\ \A i \in DOMAIN assigned :
                 /\ Committed[assigned[i].cpu].pid = assigned[i].pid
                 /\ Committed[assigned[i].cpu].info = "RIGHT"
           /\ \A c \in Cpus \ ShotCpus : Committed[c] = area[c]
           /\ Committed \in [Cpus -> [pid : Tids \cup {NoTask}, info : {"RIGHT", "ERROR"}]]
<1>1. \A i \in DOMAIN assigned : assigned[i] \in [cpu : Cpus, pid : Tids]
  BY ElementLemma, Zenon DEF IInv, LoopTypeOK
<1>2. ASSUME NEW i \in DOMAIN assigned
      PROVE  Committed[assigned[i].cpu] = [pid |-> assigned[i].pid, info |-> "RIGHT"]
  <2> DEFINE c == assigned[i].cpu
             s == CHOOSE x \in ToSet(assigned) : x.cpu = c
  <2>1. c \in Cpus
    BY <1>1
  <2>2. s \in ToSet(assigned) /\ s.cpu = c
    <3>1. assigned[i] \in ToSet(assigned) /\ assigned[i].cpu = c
      BY DEF ToSet
    <3> QED  BY <3>1
  <2>3. s = assigned[i]
    <3> HIDE DEF s
    <3>1. PICK j \in DOMAIN assigned : s = assigned[j]
      BY <2>2 DEF ToSet
    <3>2. j = i
      BY <2>2, <3>1 DEF IInv, PoolInv
    <3> QED  BY <3>1, <3>2
  <2>4. Committed[c] = [pid |-> s.pid, info |-> "RIGHT"]
    BY <2>1 DEF Committed
  <2> QED  BY <2>3, <2>4
<1>3. \A c \in Cpus \ ShotCpus : Committed[c] = area[c]
  BY DEF Committed, ShotCpus, ToSet
<1>4. ASSUME NEW c \in Cpus
      PROVE  Committed[c] \in [pid : Tids \cup {NoTask}, info : {"RIGHT", "ERROR"}]
  <2>1. CASE c \in ShotCpus
    <3>1. PICK i \in DOMAIN assigned : assigned[i].cpu = c
      BY <2>1 DEF ShotCpus, ToSet
    <3>2. assigned[i].pid \in Tids
      BY <1>1
    <3>3. Committed[c] = [pid |-> assigned[i].pid, info |-> "RIGHT"]
      BY <1>2, <3>1, Zenon
    <3> QED  BY <3>2, <3>3
  <2>2. CASE c \notin ShotCpus
    BY <1>3, <2>2 DEF IInv, LoopTypeOK
  <2> QED  BY <2>1, <2>2
<1>5. Committed \in [Cpus -> [pid : Tids \cup {NoTask}, info : {"RIGHT", "ERROR"}]]
  <2>1. Committed = [c \in Cpus |-> Committed[c]]
    BY DEF Committed
  <2> QED  BY <1>4, <2>1
<1>6. ASSUME NEW i \in DOMAIN assigned
      PROVE  /\ Committed[assigned[i].cpu].pid = assigned[i].pid
             /\ Committed[assigned[i].cpu].info = "RIGHT"
  <2> DEFINE r == [pid |-> assigned[i].pid, info |-> "RIGHT"]
  <2>1. r.pid = assigned[i].pid /\ r.info = "RIGHT"
    OBVIOUS
  <2>2. Committed[assigned[i].cpu] = r
    BY <1>2, Zenon
  <2> HIDE DEF r
  <2> QED  BY <2>1, <2>2, Zenon
<1> QED  BY <1>3, <1>5, <1>6

LEMMA EndPickLemma ==
    ASSUME IInv, EndPick
    PROVE  IInv'
<1>1. /\ pc = "pick" /\ status = "running" /\ cursor = 0
      /\ rq' = rq \o onqueue_idle /\ onqueue_idle' = <<>>
      /\ pools' = NoPools /\ area' = Committed
      /\ pc' \in {"drain", "shoot"} /\ (pc' = "drain" => assigned = <<>>)
      /\ UNCHANGED <<alive, state, cpu_id, cpu_states, cursor, assigned, old_cpu_states, status>>
  BY DEF EndPick, At, IInv, StageInv
<1>2. /\ rq' \in Seq(Tids) /\ IsInjective(rq')
      /\ ToSet(rq') = ToSet(rq) \cup ToSet(onqueue_idle)
  BY <1>1, ConcatLemma DEF IInv, TaskInv, TaskTypeOK, Books
<1>3. ToSet(<<>>) = {} /\ IsInjective(<<>>) /\ <<>> \in Seq(Tids) /\ <<>> \in Seq(Cpus)
  BY DEF ToSet, IsInjective
<1>4. TaskInv'
  BY <1>1, <1>2, <1>3 DEF IInv, TaskInv, TaskTypeOK, Books, Queued, OnCpu
<1>5. LoopTypeOK'
  <2>1. NoPools \in [PoolNames -> Seq(Cpus)]
    BY <1>3 DEF NoPools, PoolNames
  <2> QED  BY <1>1, <2>1, CommittedLemma DEF IInv, LoopTypeOK
<1>6. PoolInv'
  <2>1. \A p \in PoolNames : pools'[p] = <<>>
    BY <1>1 DEF NoPools, PoolNames
  <2>2. ShotCpus' = ShotCpus
    BY <1>1 DEF ShotCpus
  <2> QED  BY <1>1, <1>3, <2>1, <2>2 DEF IInv, PoolInv
<1>7. StageInv' /\ StatusOK'
  BY <1>1 DEF IInv, StageInv, StatusOK
<1>8. ShotInv'
  <2>1. Pending = DOMAIN assigned /\ Pending' = DOMAIN assigned /\ OnCpu' = OnCpu
    BY <1>1 DEF Pending, OnCpu
  <2>2. \A i \in DOMAIN assigned : area'[assigned[i].cpu].pid = assigned[i].pid
    <3>1. \A i \in DOMAIN assigned : Committed[assigned[i].cpu].pid = assigned[i].pid
      BY CommittedLemma
    <3> QED  BY <1>1, <3>1, Zenon
  <2>3. \A c \in Cpus : area'[c].info # "ERROR"
    <3>1. \A c \in Cpus : area[c].info # "ERROR"
      BY <1>1, NoErrorLemma
    <3>2. \A c \in ShotCpus : area'[c].info = "RIGHT"
      <4> SUFFICES ASSUME NEW c \in ShotCpus PROVE area'[c].info = "RIGHT"
        OBVIOUS
      <4>1. PICK i \in DOMAIN assigned : c = assigned[i].cpu
        BY DEF ShotCpus, ToSet
      <4>2. Committed[assigned[i].cpu].info = "RIGHT"
        BY CommittedLemma
      <4> QED  BY <1>1, <4>1, <4>2, Zenon
    <3>3. \A c \in Cpus \ ShotCpus : area'[c] = area[c]
      BY <1>1, CommittedLemma
    <3> QED  BY <3>1, <3>2, <3>3
  <2> QED  BY <1>1, <2>1, <2>2, <2>3 DEF IInv, ShotInv
<1> QED  BY <1>4, <1>5, <1>6, <1>7, <1>8 DEF IInv

-----------------------------------------------------------------------------
(* schedule(): the shot and its verdicts.                                  *)

LEMMA ShootLemma ==
    ASSUME IInv, ErrLeavesInfo = FALSE, NEW bad \in SUBSET ShotCpus,
           ShootOk(bad) \/ ShootErr(bad)
    PROVE  IInv'
<1>1. /\ pc = "shoot" /\ status = "running" /\ cursor = 0
      /\ UNCHANGED <<taskVars, cursor, pools, onqueue_idle, assigned, old_cpu_states, status>>
      /\ Verdict(bad)
      /\ pc' = "check" \/ (pc' = "revert" /\ bad = {})
  BY DEF ShootOk, ShootErr, At, IInv, StageInv
<1>2. TaskInv' /\ OnCpu' = OnCpu /\ cpu_id' = cpu_id
  BY <1>1, UnchangedLemma DEF IInv, OnCpu, taskVars
<1>3. area' \in [Cpus -> [pid : Tids \cup {NoTask}, info : {"RIGHT", "ERROR"}]]
  BY <1>1 DEF Verdict, IInv, LoopTypeOK
<1>4. /\ \A c \in Cpus : area'[c].pid = area[c].pid
      /\ \A c \in Cpus : area'[c].info = "ERROR" => c \in bad
  BY <1>1, NoErrorLemma DEF Verdict, IInv, LoopTypeOK
<1>5. LoopTypeOK' /\ PoolInv' /\ StageInv' /\ StatusOK'
  BY <1>1, <1>3 DEF IInv, LoopTypeOK, PoolInv, StageInv, StatusOK, ShotCpus
<1>6. \A i \in DOMAIN assigned : assigned[i] \in [cpu : Cpus, pid : Tids] /\ i \in Nat /\ i > 0
  <2>1. \A i \in DOMAIN assigned : assigned[i] \in [cpu : Cpus, pid : Tids]
    BY ElementLemma, Zenon DEF IInv, LoopTypeOK
  <2>2. \A i \in DOMAIN assigned : i \in Nat /\ i > 0
    BY DEF IInv, LoopTypeOK
  <2> QED  BY <2>1, <2>2
<1>7. Pending = DOMAIN assigned /\ Pending' = DOMAIN assigned
  <2>1. \A i \in DOMAIN assigned : assigned[i].cpu \in Nat /\ i > 0
    BY <1>6, LordAssumption DEF Cpus
  <2>2. CASE pc' = "check"
    BY <1>1, <2>1, <2>2 DEF Pending
  <2>3. CASE pc' = "revert"
    BY <1>1, <1>6, <2>3 DEF Pending
  <2> QED  BY <1>1, <2>2, <2>3
<1>8. ShotInv'
  <2>1. \A i \in DOMAIN assigned : area'[assigned[i].cpu].pid = assigned[i].pid
    BY <1>1, <1>4, <1>6, <1>7 DEF IInv, ShotInv
  <2>2. \A c \in Cpus : area'[c].info = "ERROR" =>
           pc' = "check" /\ \E i \in DOMAIN assigned : assigned[i].cpu = c
    BY <1>1, <1>4 DEF ShotCpus, ToSet
  <2>3. \A i \in DOMAIN assigned :
           assigned[i].pid \in OnCpu /\ cpu_id[assigned[i].pid] = assigned[i].cpu
    BY <1>7 DEF IInv, ShotInv
  <2> QED  BY <1>1, <1>2, <1>7, <2>1, <2>2, <2>3 DEF ShotInv
<1> QED  BY <1>2, <1>5, <1>8 DEF IInv

\* Taking back a shot that is not settled.  Its CPU may be restored to any
\* state.
LEMMA TakeBackLemma ==
    ASSUME IInv, pc \in {"revert", "check"}, NEW i \in Pending,
           onqueue_idle' = onqueue_idle,
           TakeBack(assigned[i].pid, assigned[i].cpu)
    PROVE  /\ TaskInv' /\ status' = status
           /\ OnCpu' = OnCpu \ {assigned[i].pid}
           /\ cpu_id' = cpu_id
<1> DEFINE pid == assigned[i].pid
           c == assigned[i].cpu
<1>1. pid \in OnCpu /\ pid \in Tids /\ pid \in alive /\ state[pid] # "Queued"
  BY DEF IInv, ShotInv, OnCpu, TaskInv, Books
<1>2. /\ EnqueueTask(pid) /\ status' = status /\ alive' = alive /\ cpu_id' = cpu_id
      /\ cpu_states' \in {cpu_states, [cpu_states EXCEPT ![c] = old_cpu_states[c]]}
  BY <1>1 DEF TakeBack, Requeue, EnqueueTask
<1>3. c \in Cpus
  BY <1>1 DEF IInv, ShotInv, TaskInv, Books
<1> HIDE DEF pid, c
<1>4. cpu_states' \in [Cpus -> CpuStates]
  BY <1>2, <1>3 DEF IInv, TaskInv, TaskTypeOK, LoopTypeOK
<1>5. alive \subseteq Tids /\ TaskInv
  BY DEF IInv, TaskInv, TaskTypeOK
<1>6. rq' \in Seq(Tids) /\ state' \in [Tids -> RunStates] /\ Books' /\ OnCpu' = OnCpu \ {pid}
  BY <1>1, <1>2, <1>5, EnqueueTaskLemma
<1>7. TaskInv'
  BY <1>2, <1>4, <1>5, <1>6 DEF TaskInv, TaskTypeOK
<1> QED  BY <1>2, <1>6, <1>7 DEF pid

\* The threads of the other shots stay where they are: two shots that are not
\* settled have different CPUs, hence different threads.
LEMMA OthersLemma ==
    ASSUME IInv, NEW i \in Pending, NEW j \in Pending, i # j
    PROVE  assigned[i].pid # assigned[j].pid
<1>1. i \in DOMAIN assigned /\ j \in DOMAIN assigned
  BY DEF Pending
<1>2. assigned[i].cpu # assigned[j].cpu
  BY <1>1 DEF IInv, PoolInv
<1>3. cpu_id[assigned[i].pid] = assigned[i].cpu /\ cpu_id[assigned[j].pid] = assigned[j].cpu
  BY DEF IInv, ShotInv
<1> QED  BY <1>2, <1>3

LEMMA RevertOneLemma ==
    ASSUME IInv, RevertOne
    PROVE  IInv'
<1> DEFINE k == cursor + 1
<1>1. /\ pc = "revert" /\ status = "running" /\ cursor < Len(assigned)
      /\ TakeBack(assigned[k].pid, assigned[k].cpu)
      /\ cursor' = k
      /\ UNCHANGED <<area, pc, pools, onqueue_idle, assigned, old_cpu_states>>
  BY DEF RevertOne, At
<1>2. cursor \in Nat /\ k \in Pending /\ Pending' = Pending \ {k}
  <2>1. cursor \in Nat /\ DOMAIN assigned = 1 .. Len(assigned) /\ Len(assigned) \in Nat
    BY DEF IInv, LoopTypeOK
  <2> QED  BY <1>1, <2>1 DEF Pending
<1> HIDE DEF k
<1>3. /\ TaskInv' /\ status' = status
      /\ OnCpu' = OnCpu \ {assigned[k].pid} /\ cpu_id' = cpu_id
  BY <1>1, <1>2, TakeBackLemma
<1>4. LoopTypeOK' /\ PoolInv' /\ StageInv' /\ StatusOK'
  BY <1>1, <1>2, <1>3 DEF IInv, LoopTypeOK, PoolInv, StageInv, StatusOK, ShotCpus, k
<1>5. ShotInv'
  <2>1. \A j \in Pending' : assigned[j].pid \in OnCpu' /\ cpu_id'[assigned[j].pid] = assigned[j].cpu
    BY <1>2, <1>3, OthersLemma DEF IInv, ShotInv
  <2>2. \A c \in Cpus : area'[c].info # "ERROR"
    BY <1>1, NoErrorLemma
  <2> QED  BY <1>1, <2>1, <2>2 DEF ShotInv
<1> QED  BY <1>3, <1>4, <1>5 DEF IInv

LEMMA CheckOneLemma ==
    ASSUME IInv, CheckOne
    PROVE  IInv'
<1> DEFINE Entry == [pid : Tids \cup {NoTask}, info : {"RIGHT", "ERROR"}]
<1>1. /\ pc = "check" /\ status = "running" /\ cursor < CpuNum
      /\ cursor' = cursor + 1
      /\ UNCHANGED <<pc, pools, onqueue_idle, assigned, old_cpu_states>>
  BY DEF CheckOne, At
<1>2. cursor \in Cpus /\ cursor \in Nat
  BY <1>1, LordAssumption DEF IInv, LoopTypeOK, Cpus
<1>3. area' \in [Cpus -> Entry]
  <2>1. area \in [Cpus -> Entry] /\ area[cursor] \in Entry
    BY <1>2 DEF IInv, LoopTypeOK
  <2>2. [area[cursor] EXCEPT !.info = "RIGHT"] \in Entry
    BY <2>1
  <2>3. area' = [area EXCEPT ![cursor] = [area[cursor] EXCEPT !.info = "RIGHT"]]
    BY DEF CheckOne
  <2> HIDE DEF Entry
  <2> QED  BY <2>1, <2>2, <2>3
<1>4. /\ area'[cursor].info = "RIGHT"
      /\ \A c \in Cpus : area'[c].pid = area[c].pid
      /\ \A c \in Cpus \ {cursor} : area'[c] = area[c]
  BY <1>2 DEF CheckOne, IInv, LoopTypeOK
<1>5. /\ \A i \in DOMAIN assigned : assigned[i].cpu \in Cpus
      /\ Pending' = {i \in Pending : assigned[i].cpu # cursor}
  <2>1. \A i \in DOMAIN assigned : assigned[i] \in [cpu : Cpus, pid : Tids]
    BY ElementLemma, Zenon DEF IInv, LoopTypeOK
  <2>2. \A i \in DOMAIN assigned : assigned[i].cpu \in Cpus
    BY <2>1
  <2>3. \A c \in Cpus : c >= cursor' <=> c >= cursor /\ c # cursor
    BY <1>1, <1>2, LordAssumption DEF Cpus
  <2> QED  BY <1>1, <2>2, <2>3 DEF Pending
<1>6. /\ TaskInv' /\ status' = status /\ cpu_id' = cpu_id
      /\ \A i \in Pending' : assigned[i].pid \in OnCpu'
  <2>1. CASE area[cursor].info # "RIGHT"
    <3>1. area[cursor].info = "ERROR"
      BY <1>2, <2>1 DEF IInv, LoopTypeOK
    <3>2. PICK i \in Pending : assigned[i].cpu = cursor
      BY <1>2, <3>1 DEF IInv, ShotInv
    <3>3. area[cursor].pid = assigned[i].pid
      BY <1>1, <3>2 DEF IInv, ShotInv
    <3>4. TakeBack(assigned[i].pid, assigned[i].cpu)
      BY <2>1, <3>2, <3>3 DEF CheckOne
    <3>5. /\ TaskInv' /\ status' = status /\ cpu_id' = cpu_id
          /\ OnCpu' = OnCpu \ {assigned[i].pid}
      BY <1>1, <3>4, TakeBackLemma
    <3>6. \A j \in Pending' : j \in Pending /\ j # i
      BY <1>5, <3>2
    <3>7. \A j \in Pending' : assigned[j].pid \in OnCpu /\ assigned[j].pid # assigned[i].pid
      BY <3>6, OthersLemma DEF IInv, ShotInv
    <3> QED  BY <3>5, <3>7
  <2>2. CASE area[cursor].info = "RIGHT"
    <3>1. TaskInv' /\ OnCpu' = OnCpu /\ cpu_id' = cpu_id /\ status' = status
      BY <1>1, <2>2, UnchangedLemma DEF CheckOne, taskVars, OnCpu, IInv
    <3> QED  BY <1>5, <3>1 DEF IInv, ShotInv
  <2> QED  BY <2>1, <2>2
<1>7. LoopTypeOK' /\ PoolInv' /\ StageInv' /\ StatusOK'
  BY <1>1, <1>2, <1>3, <1>6 DEF IInv, LoopTypeOK, PoolInv, StageInv, StatusOK, ShotCpus
<1>8. ShotInv'
  <2>1. \A i \in Pending' : i \in Pending /\ i \in DOMAIN assigned
    BY <1>5 DEF Pending
  <2>2. \A i \in Pending' : /\ assigned[i].pid \in OnCpu' /\ cpu_id'[assigned[i].pid] = assigned[i].cpu
                            /\ area'[assigned[i].cpu].pid = assigned[i].pid
    BY <1>1, <1>4, <1>5, <1>6, <2>1 DEF IInv, ShotInv
  <2>3. \A c \in Cpus : area'[c].info = "ERROR" => \E i \in Pending' : assigned[i].cpu = c
    <3> SUFFICES ASSUME NEW c \in Cpus, area'[c].info = "ERROR"
                 PROVE  \E i \in Pending' : assigned[i].cpu = c
      OBVIOUS
    <3>1. c # cursor /\ area[c].info = "ERROR"
      BY <1>4
    <3>2. PICK i \in Pending : assigned[i].cpu = c
      BY <3>1 DEF IInv, ShotInv
    <3> QED  BY <1>5, <3>1, <3>2
  <2> QED  BY <1>1, <2>2, <2>3 DEF ShotInv
<1> QED  BY <1>6, <1>7, <1>8 DEF IInv

\* The steps that touch neither the tasks nor the shots.
LEMMA QuietLemma ==
    ASSUME IInv, EnterSchedule \/ Classified \/ Return
    PROVE  IInv'
<1>1. UNCHANGED <<taskVars, area, pools, onqueue_idle, status>> /\ TaskInv'
  BY UnchangedLemma DEF IInv, EnterSchedule, Classified, Return
<1>2. CASE EnterSchedule
  <2>1. /\ pc = "drain" /\ pc' = "classify" /\ cursor' = FirstCpu
        /\ assigned = <<>> /\ pools = NoPools /\ onqueue_idle = <<>>
        /\ UNCHANGED <<assigned, old_cpu_states>>
    BY <1>2 DEF EnterSchedule, At, IInv, StageInv
  <2>2. ShotCpus' = ShotCpus /\ Pending' = {}
    BY <2>1 DEF ShotCpus, Pending
  <2>3. \A p \in PoolNames : ToSet(pools[p]) = {}
    BY <2>1 DEF NoPools, PoolNames, ToSet
  <2>4. PoolInv'
    BY <1>1, <2>1, <2>2, <2>3 DEF IInv, PoolInv
  <2>5. LoopTypeOK' /\ StageInv' /\ StatusOK'
    BY <1>1, <2>1, ShinjukuAssumption DEF IInv, LoopTypeOK, StageInv, StatusOK
  <2>6. ShotInv'
    BY <1>1, <2>1, <2>2, NoErrorLemma DEF ShotInv
  <2> QED  BY <1>1, <2>4, <2>5, <2>6 DEF IInv
<1>3. CASE Classified
  <2>1. /\ pc = "classify" /\ pc' = "pick" /\ cursor' = 0
        /\ assigned = <<>> /\ onqueue_idle = <<>>
        /\ UNCHANGED <<assigned, old_cpu_states>>
    BY <1>3 DEF Classified, At, IInv, StageInv
  <2>2. ShotCpus' = ShotCpus /\ Pending' = {}
    BY <2>1 DEF ShotCpus, Pending
  <2>3. PoolInv'
    BY <1>1, <2>1, <2>2 DEF IInv, PoolInv
  <2>4. LoopTypeOK' /\ StageInv' /\ StatusOK'
    BY <1>1, <2>1 DEF IInv, LoopTypeOK, StageInv, StatusOK
  <2>5. ShotInv'
    BY <1>1, <2>1, <2>2, NoErrorLemma DEF ShotInv
  <2> QED  BY <1>1, <2>3, <2>4, <2>5 DEF IInv
<1>4. CASE Return
  <2>1. /\ \/ pc = "revert" /\ cursor = Len(assigned)
           \/ pc = "check" /\ cursor = CpuNum
        /\ pc' = "drain" /\ cursor' = 0 /\ assigned' = <<>>
        /\ old_cpu_states' = [c \in Cpus |-> IdleCpu]
    BY <1>4 DEF Return, At
  <2>2. ShotCpus' = {} /\ Pending' = {} /\ DOMAIN assigned' = {}
    BY <2>1 DEF ShotCpus, Pending, ToSet
  <2>3. Pending = {}
    <3>1. DOMAIN assigned = 1 .. Len(assigned) /\ Len(assigned) \in Nat
      BY DEF IInv, LoopTypeOK
    <3>2. \A i \in DOMAIN assigned : assigned[i].cpu \in Cpus
      <4>1. \A i \in DOMAIN assigned : assigned[i] \in [cpu : Cpus, pid : Tids]
        BY ElementLemma, Zenon DEF IInv, LoopTypeOK
      <4> QED  BY <4>1
    <3>3. pc = "check" => \A c \in Cpus : ~(c >= cursor)
      BY <2>1, LordAssumption DEF Cpus
    <3>4. pc = "revert" => \A i \in DOMAIN assigned : ~(i > cursor)
      BY <2>1, <3>1
    <3> QED  BY <2>1, <3>2, <3>3, <3>4 DEF Pending
  <2>4. pools = NoPools /\ onqueue_idle = <<>>
    BY <2>1 DEF IInv, StageInv
  <2>5. \A p \in PoolNames : ToSet(pools[p]) = {}
    BY <2>4 DEF NoPools, PoolNames, ToSet
  <2>6. PoolInv'
    BY <1>1, <2>2, <2>5 DEF IInv, PoolInv
  <2>7. LoopTypeOK' /\ StageInv' /\ StatusOK'
    BY <1>1, <2>1, <2>4 DEF IInv, LoopTypeOK, StageInv, StatusOK, CpuStates, IdleCpu
  <2>8. ShotInv'
    BY <1>1, <2>1, <2>2, <2>3 DEF IInv, ShotInv
  <2> QED  BY <1>1, <2>6, <2>7, <2>8 DEF IInv
<1> QED  BY <1>2, <1>3, <1>4

LEMMA InitLemma ==
    ASSUME Init
    PROVE  IInv
<1> USE DEF Init
<1>1. ToSet(<<>>) = {} /\ IsInjective(<<>>)
  BY DEF ToSet, IsInjective
<1>2. TaskInv
  BY <1>1 DEF TaskInv, TaskTypeOK, Books, Queued, OnCpu, RunStates, CpuStates, IdleCpu
<1>3. LoopTypeOK /\ StageInv /\ StatusOK
  BY DEF LoopTypeOK, StageInv, StatusOK, Statuses, NoPools, CpuStates, IdleCpu
<1>4. ShotCpus = {} /\ \A p \in PoolNames : pools[p] = <<>>
  BY <1>1 DEF ShotCpus, NoPools
<1>5. PoolInv
  BY <1>1, <1>4 DEF PoolInv
<1>6. ShotInv
  BY DEF ShotInv, Pending
<1> QED  BY <1>2, <1>3, <1>5, <1>6 DEF IInv

LEMMA StepLemma ==
    ASSUME ErrLeavesInfo = FALSE, IInv, [Next]_lordVars
    PROVE  IInv'
<1>1. CASE \E msg \in CosMsg : Consume(msg)
  BY <1>1, ConsumeLemma
<1>2. CASE EnterSchedule
  BY <1>2, QuietLemma
<1>3. CASE ScheduleStep
  BY <1>3, ClassifyLemma, PassOverLemma, AssignHeadLemma, EndPickLemma, RevertOneLemma,
     CheckOneLemma, QuietLemma DEF ScheduleStep
<1>4. CASE ShootStep
  BY <1>4, ShootLemma DEF ShootStep
<1>5. CASE UNCHANGED lordVars
  <2>1. UNCHANGED <<taskVars, loopVars, status>>
    BY <1>5 DEF lordVars
  <2>2. TaskInv'
    BY <2>1, UnchangedLemma DEF IInv, loopVars
  <2>3. LoopTypeOK' /\ PoolInv' /\ StageInv' /\ StatusOK'
    BY <2>1 DEF IInv, LoopTypeOK, PoolInv, StageInv, StatusOK, ShotCpus, loopVars
  <2>4. ShotInv'
    BY <2>1 DEF IInv, ShotInv, Pending, OnCpu, loopVars, taskVars
  <2> QED  BY <2>2, <2>3, <2>4 DEF IInv
<1> QED  BY <1>1, <1>2, <1>3, <1>4, <1>5 DEF Next

-----------------------------------------------------------------------------
(* The theorems.                                                           *)

\* IInv is inductive: it holds at the start and every step keeps it.
THEOREM Inductive ==
    ASSUME ErrLeavesInfo = FALSE
    PROVE  Spec => []IInv
<1>1. Init => IInv
  BY InitLemma
<1>2. IInv /\ [Next]_lordVars => IInv'
  BY StepLemma
<1> QED  BY <1>1, <1>2, PTL DEF Spec

\* Every variable of the lord keeps its type: no handler writes cpu_states_
\* or a task outside their bounds, whatever the kernel sends.
THEOREM TypeCorrect ==
    ASSUME ErrLeavesInfo = FALSE
    PROVE  Spec => []TypeOK
<1>1. IInv => TypeOK
  BY DEF IInv, TaskInv, TaskTypeOK, LoopTypeOK, StatusOK, TypeOK
<1> QED  BY <1>1, Inductive, PTL

\* The run queue and the threads passed over are exactly the Queued tasks,
\* each once, whatever messages and verdicts the kernel produces.
THEOREM RunQueueExact ==
    ASSUME ErrLeavesInfo = FALSE
    PROVE  Spec => []RqExact
<1>1. IInv => RqExact
  <2> SUFFICES ASSUME IInv PROVE RqExact
    OBVIOUS
  <2>1. /\ IsInjective(rq \o onqueue_idle)
        /\ ToSet(rq \o onqueue_idle) = ToSet(rq) \cup ToSet(onqueue_idle)
    BY ConcatLemma DEF IInv, TaskInv, TaskTypeOK, Books
  <2> QED  BY <2>1 DEF IInv, TaskInv, Books, RqExact
<1> QED  BY <1>1, Inductive, PTL

\* No CPU is shot at twice in one call of schedule(), nor the lord's, nor one
\* below the first: the three pools and the shots have no CPU in common.
THEOREM NoCpuTwice ==
    ASSUME ErrLeavesInfo = FALSE
    PROVE  Spec => []PoolsDisjoint
<1>1. IInv => PoolsDisjoint
  <2> SUFFICES ASSUME IInv PROVE PoolsDisjoint
    OBVIOUS
  <2> DEFINE two   == pools.idle \o pools.cfs
             all   == two \o pools.cos
             shots == [i \in DOMAIN assigned |-> assigned[i].cpu]
  <2>1. /\ pools.idle \in Seq(Cpus) /\ pools.cfs \in Seq(Cpus) /\ pools.cos \in Seq(Cpus)
        /\ IsInjective(pools.idle) /\ IsInjective(pools.cfs) /\ IsInjective(pools.cos)
        /\ ToSet(pools.idle) \cap ToSet(pools.cfs) = {}
        /\ (ToSet(pools.idle) \cup ToSet(pools.cfs)) \cap ToSet(pools.cos) = {}
        /\ (ToSet(pools.idle) \cup ToSet(pools.cfs) \cup ToSet(pools.cos)) \cap ShotCpus = {}
    BY DEF IInv, LoopTypeOK, PoolInv, PoolNames
  <2>2. /\ two \in Seq(Cpus) /\ IsInjective(two)
        /\ ToSet(two) = ToSet(pools.idle) \cup ToSet(pools.cfs)
    BY <2>1, ConcatLemma
  <2> HIDE DEF two
  <2>3. /\ all \in Seq(Cpus) /\ IsInjective(all)
        /\ ToSet(all) = ToSet(pools.idle) \cup ToSet(pools.cfs) \cup ToSet(pools.cos)
    BY <2>1, <2>2, ConcatLemma
  <2> HIDE DEF all
  <2>4. shots \in Seq(Cpus) /\ IsInjective(shots) /\ ToSet(shots) = ShotCpus
    <3>1. \A i \in DOMAIN assigned : assigned[i] \in [cpu : Cpus, pid : Tids]
      BY ElementLemma, Zenon DEF IInv, LoopTypeOK
    <3>2. \A i \in DOMAIN assigned : assigned[i].cpu \in Cpus
      BY <3>1
    <3>3. DOMAIN assigned = 1 .. Len(assigned) /\ Len(assigned) \in Nat
      BY DEF IInv, LoopTypeOK
    <3>4. shots \in Seq(Cpus)
      BY <3>2, <3>3
    <3>5. IsInjective(shots)
      BY DEF IsInjective, IInv, PoolInv
    <3>6. ToSet(shots) = ShotCpus
      BY DEF ToSet, ShotCpus
    <3> QED  BY <3>4, <3>5, <3>6
  <2> HIDE DEF shots
  <2>5. IsInjective(all \o shots)
    BY <2>1, <2>3, <2>4, ConcatLemma
  <2>6. \A c \in ToSet(all) \cup ShotCpus : c >= FirstCpu /\ c # LordCpu
    BY <2>3 DEF IInv, PoolInv, PoolNames
  <2> QED  BY <2>5, <2>6 DEF PoolsDisjoint, all, two, shots
<1> QED  BY <1>1, Inductive, PTL

\* Every order committed to the shoot area is executable: known threads, each
\* on the CPU it is shot at in the lord's books, no thread at two CPUs.
THEOREM ShotsAreSound ==
    ASSUME ErrLeavesInfo = FALSE
    PROVE  Spec => []ShotsSound
<1>1. IInv => ShotsSound
  <2> SUFFICES ASSUME IInv, pc = "shoot", NEW s \in ToSet(assigned)
               PROVE  /\ s.pid \in OnCpu /\ cpu_id[s.pid] = s.cpu
                      /\ cpu_states[s.cpu] = [type |-> "COS", pid |-> s.pid]
                      /\ area[s.cpu] = [pid |-> s.pid, info |-> "RIGHT"]
    BY DEF ShotsSound
  <2>1. PICK i \in DOMAIN assigned : s = assigned[i]
    BY DEF ToSet
  <2>2. i \in Pending
    BY DEF Pending
  <2>3. /\ s.pid \in OnCpu /\ cpu_id[s.pid] = s.cpu
        /\ cpu_states[s.cpu] = [type |-> "COS", pid |-> s.pid]
        /\ area[s.cpu].pid = s.pid
    BY <2>1, <2>2 DEF IInv, ShotInv
  <2>4. s.cpu \in Cpus
    BY <2>3 DEF IInv, TaskInv, Books
  <2>5. area[s.cpu].info # "ERROR"
    BY <2>4, NoErrorLemma
  <2> QED  BY <2>3, <2>4, <2>5 DEF IInv, LoopTypeOK
<1> QED  BY <1>1, Inductive, PTL

\* The exits of remove_from_rq and of the pick are never reached, whatever
\* the kernel sends.
THEOREM QueueNeverFails ==
    ASSUME ErrLeavesInfo = FALSE
    PROVE  Spec => []QueueNeverStops
<1>1. IInv => QueueNeverStops
  BY DEF IInv, StatusOK, QueueNeverStops
<1> QED  BY <1>1, Inductive, PTL
=============================================================================
