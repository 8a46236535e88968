----------------------------- MODULE FifoProofs -----------------------------
(***************************************************************************)
(* The FIFO lord, for any number of CPUs and threads: alone, with any      *)
(* kernel that writes verdicts only in calls that succeed, and with the    *)
(* kernel that keeps its contract and refuses the shots at threads whose   *)
(* messages the lord had not read.                                         *)
(***************************************************************************)
EXTENDS FifoPrograms, RunQueueProofs, CosKernelProofs

-----------------------------------------------------------------------------
(* The lord alone.                                                         *)

\* The shots that schedule() has still to settle.
Pending == IF pc \in {"revert", "check"}
           THEN {c \in ShotCpus : cursor <= c}
           ELSE ShotCpus

\* A shot not settled has its thread on the CPU in the lord's books, and the
\* area holds nothing but verdicts on such shots.  This is what makes the
\* requeue of a refused shot enqueue a thread that is not queued.
PassInv ==
    /\ pc = "drain" => cursor = 0 /\ ShotCpus = {}
    /\ pc = "shoot" => cursor = 0
    /\ pc = "pick" => \A c \in ShotCpus : c < cursor
    /\ \A c \in Pending : assigned[c] \in OnCpu /\ cpu_id[assigned[c]] = c
    /\ pc \in {"shoot", "check"} => \A c \in Pending : area[c].pid = assigned[c]
    /\ \A c \in Cpus : area[c].info = "ERROR" => pc = "check" /\ c \in Pending

TaskTypeOK ==
    /\ rq \in Seq(Tids)
    /\ alive \subseteq Tids
    /\ state \in [Tids -> RunStates]
    /\ cpu_id \in [Tids -> Cpus \cup {NoCpu}]
    /\ cpu_states \in [Cpus -> CpuStates]

TaskInv == TaskTypeOK /\ RqExact /\ OnCpuOwnsCos

LoopTypeOK ==
    /\ area \in [Cpus -> [pid : Tids \cup {NoTask}, info : {"RIGHT", "ERROR"}]]
    /\ pc \in {"drain", "pick", "shoot", "revert", "check"}
    /\ cursor \in 0 .. CpuNum
    /\ assigned \in [Cpus -> Tids \cup {NoTask}]
    /\ old_cpu_states \in [Cpus -> CpuStates \cup {"none"}]

IInv == TaskInv /\ LoopTypeOK /\ PassInv /\ StopsOnlyOnKernelFault

-----------------------------------------------------------------------------
(* The handlers keep the books of the tasks.                               *)

LEMMA EnqueueTaskLemma ==
    ASSUME TaskInv, NEW tid \in Tids, tid \in alive', state[tid] # "Queued",
           alive \subseteq alive', alive' \subseteq Tids,
           EnqueueTask(tid)
    PROVE  /\ rq' \in Seq(Tids)
           /\ state' \in [Tids -> RunStates]
           /\ RqExact'
           /\ OnCpu' = OnCpu \ {tid}
<1>1. tid \notin ToSet(rq) /\ IsInjective(rq) /\ rq \in Seq(Tids)
  BY DEF TaskInv, TaskTypeOK, RqExact, Queued
<1>2. /\ rq' \in Seq(Tids) /\ IsInjective(rq') /\ ToSet(rq') = ToSet(rq) \cup {tid}
  BY <1>1, EnqueueLemma DEF EnqueueTask
<1>3. /\ state' \in [Tids -> RunStates]
      /\ Queued' = Queued \cup {tid}
      /\ OnCpu' = OnCpu \ {tid}
  BY DEF TaskInv, TaskTypeOK, EnqueueTask, Queued, OnCpu, RunStates
<1> QED  BY <1>2, <1>3 DEF TaskInv, RqExact

LEMMA RemovalLemma ==
    ASSUME TaskInv, NEW tid \in Tids, state[tid] = "Queued", Removal(tid)
    PROVE  /\ rq' \in Seq(Tids) /\ IsInjective(rq')
           /\ ToSet(rq') = Queued \ {tid}
           /\ status' = status
<1>1. tid \in ToSet(rq) /\ ToSet(rq) = Queued
  BY DEF TaskInv, RqExact, Queued
<1> QED  BY <1>1, RemoveLemma DEF Removal, InRq, TaskInv, TaskTypeOK, RqExact

\* BLOCKED and DEAD: the task ends neither queued nor on a CPU.
LEMMA VacateLemma ==
    ASSUME TaskInv, NEW tid \in Tids, tid \in alive, Vacate(tid),
           state' = [state EXCEPT ![tid] = "Blocked"],
           \/ alive' = alive /\ cpu_id' = cpu_id
           \/ /\ alive' = alive \ {tid}
              /\ cpu_id' = [cpu_id EXCEPT ![tid] = NoCpu]
    PROVE  TaskInv' /\ status' = status
<1> USE DEF TaskInv, TaskTypeOK
<1>1. /\ state' \in [Tids -> RunStates]
      /\ Queued' = Queued \ {tid}
      /\ OnCpu' = OnCpu \ {tid}
      /\ cpu_id' \in [Tids -> Cpus \cup {NoCpu}]
      /\ \A t \in Tids \ {tid} : cpu_id'[t] = cpu_id[t]
      /\ alive \ {tid} \subseteq alive' /\ alive' \subseteq Tids
  BY DEF RunStates, Queued, OnCpu
<1>2. CASE state[tid] = "Queued"
  <2>1. Removal(tid) /\ cpu_states' = cpu_states
    BY <1>2 DEF Vacate
  <2>2. /\ rq' \in Seq(Tids) /\ IsInjective(rq') /\ ToSet(rq') = Queued \ {tid}
        /\ status' = status
    BY <1>2, <2>1, RemovalLemma
  <2>3. RqExact'
    BY <1>1, <2>2 DEF RqExact
  <2>4. OnCpuOwnsCos'
    BY <1>1, <2>1 DEF OnCpuOwnsCos, OnCpu
  <2> QED  BY <1>1, <2>1, <2>2, <2>3, <2>4
<1>3. CASE state[tid] = "OnCpu"
  <2>1. SetCpuOf(tid, "IDLE") /\ rq' = rq /\ status' = status
    BY <1>3 DEF Vacate
  <2>2. tid \in OnCpu /\ tid \notin Queued
    BY <1>3 DEF OnCpu, Queued
  <2>3. RqExact'
    BY <1>1, <2>1, <2>2 DEF RqExact
  <2>4. /\ cpu_states' \in [Cpus -> CpuStates]
        /\ \A t \in OnCpu \ {tid} : cpu_states'[cpu_id[t]] = cpu_states[cpu_id[t]]
    BY <2>1, <2>2 DEF OnCpuOwnsCos, SetCpuOf, CpuStates
  <2>5. OnCpuOwnsCos'
    BY <1>1, <2>4 DEF OnCpuOwnsCos, OnCpu
  <2> QED  BY <1>1, <2>1, <2>3, <2>4, <2>5
<1>4. CASE state[tid] = "Blocked"
  <2>1. UNCHANGED <<rq, cpu_states, status>>
    BY <1>4 DEF Vacate
  <2>2. tid \notin OnCpu /\ tid \notin Queued
    BY <1>4 DEF OnCpu, Queued
  <2>3. RqExact'
    BY <1>1, <2>1, <2>2 DEF RqExact
  <2>4. OnCpuOwnsCos'
    BY <1>1, <2>1, <2>2 DEF OnCpuOwnsCos, OnCpu
  <2> QED  BY <1>1, <2>1, <2>3, <2>4
<1> QED  BY <1>2, <1>3, <1>4 DEF RunStates

\* An ignored message, and a fatal one, leave the books as they are.
LEMMA UnchangedLemma ==
    ASSUME TaskInv, UNCHANGED taskVars
    PROVE  TaskInv'
BY DEF TaskInv, TaskTypeOK, RqExact, OnCpuOwnsCos, Queued, OnCpu, taskVars

LEMMA RunnableLemma ==
    ASSUME TaskInv, NEW tid \in Tids, consume_msg_task_runnable(tid)
    PROVE  TaskInv' /\ status' = status
<1>1. CASE tid \in alive /\ state[tid] # "Queued"
  <2>1. EnqueueTask(tid) /\ UNCHANGED <<alive, cpu_id, cpu_states, status>>
    BY <1>1 DEF consume_msg_task_runnable
  <2>2. rq' \in Seq(Tids) /\ state' \in [Tids -> RunStates] /\ RqExact' /\ OnCpu' = OnCpu \ {tid}
    BY <1>1, <2>1, EnqueueTaskLemma DEF TaskInv, TaskTypeOK
  <2> QED  BY <2>1, <2>2 DEF TaskInv, TaskTypeOK, OnCpuOwnsCos
<1>2. CASE ~(tid \in alive /\ state[tid] # "Queued")
  BY <1>2, UnchangedLemma DEF consume_msg_task_runnable, Ignore
<1> QED  BY <1>1, <1>2

LEMMA BlockedLemma ==
    ASSUME TaskInv, NEW tid \in Tids, consume_msg_task_blocked(tid)
    PROVE  TaskInv' /\ status' = status
<1>1. CASE tid \in alive
  BY <1>1, VacateLemma DEF consume_msg_task_blocked
<1>2. CASE tid \notin alive
  BY <1>2, UnchangedLemma DEF consume_msg_task_blocked, Ignore
<1> QED  BY <1>1, <1>2

LEMMA DeadLemma ==
    ASSUME TaskInv, NEW tid \in Tids, consume_msg_task_dead(tid)
    PROVE  TaskInv' /\ status' \in {status, "kernel_bug"}
<1>1. CASE tid \in alive
  BY <1>1, VacateLemma DEF consume_msg_task_dead
<1>2. CASE tid \notin alive
  BY <1>2, UnchangedLemma DEF consume_msg_task_dead, Stop
<1> QED  BY <1>1, <1>2

LEMMA NewLemma ==
    ASSUME TaskInv, NEW tid \in Tids,
           consume_msg_task_new(tid) \/ consume_msg_task_new_blocked(tid)
    PROVE  TaskInv' /\ status' \in {status, "kernel_bug"}
<1>1. CASE tid \in alive
  BY <1>1, UnchangedLemma
     DEF consume_msg_task_new, consume_msg_task_new_blocked, Stop
<1>2. CASE tid \notin alive
  <2>1. /\ CreateTask(tid) /\ cpu_states' = cpu_states /\ status' = status
        /\ \/ EnqueueTask(tid)
           \/ rq' = rq /\ state' = [state EXCEPT ![tid] = "Blocked"]
    BY <1>2 DEF consume_msg_task_new, consume_msg_task_new_blocked
  <2>2. /\ alive' = alive \cup {tid}
        /\ cpu_id' \in [Tids -> Cpus \cup {NoCpu}]
        /\ \A t \in Tids \ {tid} : cpu_id'[t] = cpu_id[t]
        /\ tid \notin OnCpu /\ tid \notin Queued /\ state[tid] # "Queued"
    BY <1>2, <2>1 DEF CreateTask, TaskInv, TaskTypeOK, RqExact, Queued, OnCpu
  <2>3. CASE EnqueueTask(tid)
    <3>1. rq' \in Seq(Tids) /\ state' \in [Tids -> RunStates] /\ RqExact' /\ OnCpu' = OnCpu \ {tid}
      BY <2>2, <2>3, EnqueueTaskLemma DEF TaskInv, TaskTypeOK
    <3> QED  BY <2>1, <2>2, <3>1 DEF TaskInv, TaskTypeOK, OnCpuOwnsCos, OnCpu
  <2>4. CASE rq' = rq /\ state' = [state EXCEPT ![tid] = "Blocked"]
    <3>1. state' \in [Tids -> RunStates] /\ Queued' = Queued /\ OnCpu' = OnCpu
      BY <2>2, <2>4 DEF TaskInv, TaskTypeOK, Queued, OnCpu, RunStates
    <3> QED  BY <2>1, <2>2, <2>4, <3>1 DEF TaskInv, TaskTypeOK, RqExact, OnCpuOwnsCos, OnCpu
  <2> QED  BY <2>1, <2>3, <2>4
<1> QED  BY <1>1, <1>2

LEMMA PreemptLemma ==
    ASSUME TaskInv, NEW tid \in Tids,
           consume_msg_task_preempt(tid) \/ consume_msg_task_preempt_cos(tid)
    PROVE  TaskInv' /\ status' \in {status, "kernel_bug", "assert_task"}
<1>1. CASE tid \notin alive
  BY <1>1, UnchangedLemma
     DEF consume_msg_task_preempt, consume_msg_task_preempt_cos, Stop
<1>2. CASE tid \in alive /\ state[tid] = "Blocked"
  BY <1>2, UnchangedLemma
     DEF consume_msg_task_preempt, consume_msg_task_preempt_cos, Stop
<1>3. CASE tid \in alive /\ state[tid] = "Queued"
  BY <1>3, UnchangedLemma
     DEF consume_msg_task_preempt, consume_msg_task_preempt_cos, Ignore
<1>4. CASE tid \in alive /\ state[tid] = "OnCpu"
  <2>1. /\ EnqueueTask(tid) /\ alive' = alive /\ cpu_id' = cpu_id
        /\ cpu_states' = cpu_states \/ SetCpuOf(tid, "NOCOS")
        /\ status' \in {status, IF cpu_states[cpu_id[tid]] = "COS" THEN status ELSE "assert_cpu"}
    BY <1>4 DEF consume_msg_task_preempt, consume_msg_task_preempt_cos
  <2>2. tid \in OnCpu
    BY <1>4 DEF OnCpu
  <2>3. status' = status
    BY <2>1, <2>2 DEF TaskInv, OnCpuOwnsCos
  <2>4. rq' \in Seq(Tids) /\ state' \in [Tids -> RunStates] /\ RqExact' /\ OnCpu' = OnCpu \ {tid}
    BY <1>4, <2>1, EnqueueTaskLemma DEF TaskInv, TaskTypeOK
  <2>5. /\ cpu_states' \in [Cpus -> CpuStates]
        /\ \A t \in OnCpu \ {tid} : cpu_states'[cpu_id[t]] = cpu_states[cpu_id[t]]
    BY <2>1, <2>2 DEF OnCpuOwnsCos, SetCpuOf, CpuStates, TaskInv, TaskTypeOK
  <2>6. OnCpuOwnsCos'
    BY <2>1, <2>4, <2>5 DEF OnCpuOwnsCos, TaskInv
  <2> QED  BY <2>1, <2>3, <2>4, <2>5, <2>6 DEF TaskInv, TaskTypeOK
<1> QED  BY <1>1, <1>2, <1>3, <1>4 DEF TaskInv, TaskTypeOK, RunStates

LEMMA ConsumeLemma ==
    ASSUME IInv, NEW msg \in CosMsg, Consume(msg)
    PROVE  IInv'
<1>1. TaskInv /\ msg.pid \in Tids /\ UNCHANGED loopVars /\ pc = "drain" /\ status = "running"
  BY DEF IInv, Consume, At, CosMsg
<1>2. TaskInv' /\ status' \in {status, "kernel_bug", "assert_task"}
  <2>1. CASE Ignore
    BY <1>1, <2>1, UnchangedLemma DEF Ignore
  <2>2. CASE Dispatch(msg)
    BY <1>1, <2>1, <2>2, RunnableLemma, BlockedLemma, NewLemma, DeadLemma, PreemptLemma
       DEF Dispatch
  <2> QED  BY <2>1, <2>2 DEF Consume
<1>3. ShotCpus = {} /\ LoopTypeOK /\ StopsOnlyOnKernelFault
  BY <1>1 DEF IInv, PassInv
<1>4. PassInv'
  BY <1>1, <1>3 DEF IInv, PassInv, Pending, ShotCpus, loopVars
<1> QED  BY <1>1, <1>2, <1>3, <1>4
     DEF IInv, LoopTypeOK, loopVars, StopsOnlyOnKernelFault

-----------------------------------------------------------------------------
(* The steps of schedule().                                                *)

\* The head of the queue is known, so schedule() never meets the exit.
LEMMA AssignHeadLemma ==
    ASSUME IInv, AssignHead
    PROVE  IInv'
<1> DEFINE tid == Peek(rq)
<1> USE LordAssumption DEF IInv, TaskInv, TaskTypeOK
<1>1. /\ pc = "pick" /\ status = "running" /\ cursor \in Cpus
      /\ cursor # LordCpu /\ cpu_states[cursor] # "COS"
      /\ tid # 0 /\ rq # <<>>
  BY DEF AssignHead, Loop, At, CanShootAt, Peek, LoopTypeOK, Cpus
<1>2. /\ tid \in ToSet(rq)
      /\ Dequeue(rq) \in Seq(Tids)
      /\ IsInjective(Dequeue(rq))
      /\ ToSet(Dequeue(rq)) = ToSet(rq) \ {tid}
  BY <1>1, DequeueLemma DEF RqExact
<1>3. tid \in Queued /\ tid \in alive /\ tid \in Tids /\ tid \notin OnCpu
  BY <1>2 DEF RqExact, Queued, OnCpu
<1>4. /\ assigned' = [assigned EXCEPT ![cursor] = tid]
      /\ state' = [state EXCEPT ![tid] = "OnCpu"]
      /\ cpu_id' = [cpu_id EXCEPT ![tid] = cursor]
      /\ cpu_states' = [cpu_states EXCEPT ![cursor] = "COS"]
      /\ old_cpu_states' = [old_cpu_states EXCEPT ![cursor] = cpu_states'[cursor]]
      /\ rq' = Dequeue(rq)
      /\ cursor' = cursor + 1
      /\ UNCHANGED <<alive, area, pc, status>>
  BY <1>3 DEF AssignHead
<1>5. TaskTypeOK' /\ LoopTypeOK'
  BY <1>1, <1>2, <1>3, <1>4 DEF LoopTypeOK, RunStates, CpuStates, Cpus
<1>6. /\ Queued' = Queued \ {tid}
      /\ OnCpu' = OnCpu \cup {tid}
  BY <1>3, <1>4 DEF Queued, OnCpu, RunStates
<1>7. RqExact'
  BY <1>2, <1>3, <1>4, <1>6 DEF RqExact
<1>8. /\ \A t \in OnCpu : cpu_id'[t] = cpu_id[t] /\ cpu_id[t] # cursor
      /\ cpu_id'[tid] = cursor
  BY <1>1, <1>3, <1>4 DEF OnCpuOwnsCos, OnCpu
<1>9. OnCpuOwnsCos'
  BY <1>1, <1>3, <1>4, <1>6, <1>8 DEF OnCpuOwnsCos
<1>10. /\ assigned'[cursor] = tid
       /\ \A c \in Cpus \ {cursor} : assigned'[c] = assigned[c]
  BY <1>1, <1>4 DEF LoopTypeOK
<1>11. ShotCpus' = ShotCpus \cup {cursor} /\ Pending' = ShotCpus' /\ Pending = ShotCpus
  BY <1>1, <1>4, <1>10 DEF ShotCpus, Pending, NoTask
<1>12. PassInv'
  <2>1. \A c \in ShotCpus : c < cursor /\ c \in Cpus
    BY <1>1 DEF PassInv, ShotCpus
  <2>2. \A c \in ShotCpus' : c < cursor'
    BY <1>1, <1>4, <1>11, <2>1 DEF Cpus
  <2>3. \A c \in ShotCpus' : assigned'[c] \in OnCpu' /\ cpu_id'[assigned'[c]] = c
    BY <1>1, <1>6, <1>8, <1>10, <1>11, <2>1 DEF PassInv
  <2>4. \A c \in Cpus : area'[c].info # "ERROR"
    BY <1>1, <1>4 DEF PassInv
  <2> QED  BY <1>1, <1>4, <1>11, <2>2, <2>3, <2>4 DEF PassInv
<1> QED  BY <1>4, <1>5, <1>7, <1>9, <1>12 DEF StopsOnlyOnKernelFault

\* Taking back the shot at the CPU of the loop.  The CPU may be restored to
\* any state: its only task has left it.
LEMMA TakeBackLemma ==
    ASSUME IInv, cursor \in Pending, TakeBack(assigned[cursor])
    PROVE  /\ TaskInv' /\ status' = status
           /\ OnCpu' = OnCpu \ {assigned[cursor]}
           /\ cpu_id' = cpu_id
<1> DEFINE pid == assigned[cursor]
<1> USE DEF IInv, TaskInv, TaskTypeOK
<1>1. /\ pid \in OnCpu /\ cpu_id[pid] = cursor
      /\ pid \in Tids /\ pid \in alive /\ state[pid] # "Queued"
      /\ cursor \in Cpus
  BY DEF PassInv, OnCpu, RqExact, Pending, ShotCpus
<1>2. /\ EnqueueTask(pid) /\ status' = status
      /\ RestoreCpu(cursor) /\ alive' = alive /\ cpu_id' = cpu_id
  BY <1>1 DEF TakeBack, Requeue, EnqueueTask
<1>3. rq' \in Seq(Tids) /\ state' \in [Tids -> RunStates] /\ RqExact' /\ OnCpu' = OnCpu \ {pid}
  BY <1>1, <1>2, EnqueueTaskLemma
<1>4. /\ cpu_states' \in [Cpus -> CpuStates]
      /\ \A c \in Cpus \ {cursor} : cpu_states'[c] = cpu_states[c]
  BY <1>1, <1>2 DEF RestoreCpu, LoopTypeOK
<1>5. OnCpuOwnsCos'
  BY <1>1, <1>2, <1>3, <1>4 DEF OnCpuOwnsCos
<1> QED  BY <1>2, <1>3, <1>4, <1>5

LEMMA RevertOneLemma ==
    ASSUME IInv, RevertOne
    PROVE  IInv'
<1>1. /\ pc = "revert" /\ status = "running" /\ cursor < CpuNum
      /\ cursor' = cursor + 1
      /\ UNCHANGED <<area, pc, assigned, old_cpu_states>>
  BY DEF RevertOne, Loop, At
<1>2. cursor \in Cpus /\ LoopTypeOK'
  BY <1>1, LordAssumption DEF IInv, LoopTypeOK, Cpus
<1>3. ShotCpus' = ShotCpus /\ Pending' = Pending \ {cursor}
  BY <1>1, <1>2, LordAssumption DEF ShotCpus, Pending, IInv, LoopTypeOK, Cpus
<1>4. CASE assigned[cursor] # NoTask
  <2>1. cursor \in Pending
    BY <1>1, <1>2, <1>4, LordAssumption DEF Pending, ShotCpus, Cpus
  <2>2. /\ TaskInv' /\ status' = status
        /\ OnCpu' = OnCpu \ {assigned[cursor]}
        /\ cpu_id' = cpu_id
    BY <1>4, <2>1, TakeBackLemma DEF RevertOne
  <2>3. \A c \in Pending' : assigned'[c] \in OnCpu' /\ cpu_id'[assigned'[c]] = c
    BY <1>1, <1>3, <2>1, <2>2 DEF IInv, PassInv
  <2> QED  BY <1>1, <1>2, <2>2, <2>3 DEF IInv, PassInv, StopsOnlyOnKernelFault
<1>5. CASE assigned[cursor] = NoTask
  <2>1. TaskInv' /\ OnCpu' = OnCpu /\ cpu_id' = cpu_id /\ status' = status
    BY <1>5, UnchangedLemma DEF RevertOne, taskVars, OnCpu, IInv
  <2>2. \A c \in Pending' : assigned'[c] \in OnCpu' /\ cpu_id'[assigned'[c]] = c
    BY <1>1, <1>3, <2>1 DEF IInv, PassInv
  <2> QED  BY <1>1, <1>2, <2>1, <2>2 DEF IInv, PassInv, StopsOnlyOnKernelFault
<1> QED  BY <1>4, <1>5

LEMMA CheckOneLemma ==
    ASSUME IInv, CheckOne
    PROVE  IInv'
<1>1. /\ pc = "check" /\ status = "running" /\ cursor < CpuNum
      /\ cursor' = cursor + 1
      /\ area' = [area EXCEPT ![cursor].info = "RIGHT"]
      /\ UNCHANGED <<pc, assigned, old_cpu_states>>
  BY DEF CheckOne, Loop, At
<1>2. cursor \in Cpus /\ LoopTypeOK'
  <2>1. cursor \in Cpus /\ cursor' \in 0 .. CpuNum
    BY <1>1, LordAssumption DEF IInv, LoopTypeOK, Cpus
  <2> DEFINE Entry == [pid : Tids \cup {NoTask}, info : {"RIGHT", "ERROR"}]
  <2>2. area \in [Cpus -> Entry] /\ area[cursor] \in Entry
    BY <2>1 DEF IInv, LoopTypeOK
  <2>3. [area[cursor] EXCEPT !.info = "RIGHT"] \in Entry
    BY <2>2
  <2>4. area' = [area EXCEPT ![cursor] = [area[cursor] EXCEPT !.info = "RIGHT"]]
    BY <1>1
  <2>5. area' \in [Cpus -> Entry]
    BY <2>2, <2>3, <2>4
  <2> QED  BY <1>1, <2>1, <2>5 DEF IInv, LoopTypeOK
<1>3. ShotCpus' = ShotCpus /\ Pending' = Pending \ {cursor}
  BY <1>1, <1>2, LordAssumption DEF ShotCpus, Pending, IInv, LoopTypeOK, Cpus
<1>4. /\ area'[cursor].info = "RIGHT"
      /\ \A c \in Cpus : area'[c].pid = area[c].pid
      /\ \A c \in Cpus \ {cursor} : area'[c] = area[c]
  BY <1>1, <1>2 DEF IInv, LoopTypeOK
<1>5. /\ TaskInv' /\ status' = status /\ cpu_id' = cpu_id
      /\ \A c \in Pending' : assigned[c] \in OnCpu'
  <2>1. CASE area[cursor].info # "RIGHT"
    <3>1. area[cursor].info = "ERROR"
      BY <1>2, <2>1 DEF IInv, LoopTypeOK
    <3>2. cursor \in Pending /\ area[cursor].pid = assigned[cursor]
      BY <1>1, <1>2, <3>1 DEF IInv, PassInv
    <3>3. /\ TaskInv' /\ status' = status
          /\ OnCpu' = OnCpu \ {assigned[cursor]}
          /\ cpu_id' = cpu_id
      BY <2>1, <3>2, TakeBackLemma DEF CheckOne
    <3> QED  BY <1>3, <3>2, <3>3 DEF IInv, PassInv
  <2>2. CASE area[cursor].info = "RIGHT"
    <3>1. TaskInv' /\ OnCpu' = OnCpu /\ cpu_id' = cpu_id /\ status' = status
      BY <2>2, UnchangedLemma DEF CheckOne, taskVars, OnCpu, IInv
    <3> QED  BY <1>3, <3>1 DEF IInv, PassInv
  <2> QED  BY <2>1, <2>2
<1>6. PassInv'
  <2>1. \A c \in Pending' : assigned'[c] \in OnCpu' /\ cpu_id'[assigned'[c]] = c
    BY <1>1, <1>3, <1>5 DEF IInv, PassInv
  <2>2. \A c \in Pending' : area'[c].pid = assigned'[c]
    BY <1>1, <1>3, <1>4 DEF IInv, PassInv, Pending, ShotCpus
  <2>3. \A c \in Cpus : area'[c].info = "ERROR" => c \in Pending'
    BY <1>1, <1>3, <1>4 DEF IInv, PassInv
  <2> QED  BY <1>1, <2>1, <2>2, <2>3 DEF PassInv
<1> QED  BY <1>2, <1>5, <1>6 DEF IInv, StopsOnlyOnKernelFault

\* The steps that touch neither the tasks nor the shots' threads.
LEMMA QuietLemma ==
    ASSUME IInv,
           SkipCpu \/ NothingQueued \/ NothingAssigned \/ EnterSchedule \/ Commit \/ Return
    PROVE  IInv'
<1> USE LordAssumption DEF IInv
<1>1. UNCHANGED taskVars /\ status' = status /\ TaskInv'
  BY UnchangedLemma DEF SkipCpu, NothingQueued, NothingAssigned, EnterSchedule, Commit, Return
<1>2. OnCpu' = OnCpu /\ cpu_id' = cpu_id
  BY <1>1 DEF OnCpu, taskVars
<1>3. CASE SkipCpu \/ NothingQueued
  <2>1. /\ pc = "pick" /\ cursor < CpuNum /\ cursor < cursor' /\ cursor' \in 0 .. CpuNum
        /\ UNCHANGED <<area, pc, assigned, old_cpu_states>>
    BY <1>3 DEF SkipCpu, NothingQueued, Loop, At, LoopTypeOK
  <2>2. ShotCpus' = ShotCpus /\ Pending = ShotCpus /\ Pending' = ShotCpus
    BY <2>1 DEF ShotCpus, Pending
  <2>3. \A c \in ShotCpus : c < cursor'
    BY <2>1 DEF PassInv, ShotCpus, Cpus, LoopTypeOK
  <2>4. PassInv'
    BY <1>2, <2>1, <2>2, <2>3 DEF PassInv
  <2> QED  BY <1>1, <2>1, <2>4 DEF LoopTypeOK, StopsOnlyOnKernelFault
<1>4. CASE NothingAssigned \/ EnterSchedule
  <2>1. /\ ShotCpus = {} /\ cursor' = 0 /\ pc \in {"pick", "drain"} /\ pc' \in {"pick", "drain"}
        /\ UNCHANGED <<area, assigned, old_cpu_states>>
    BY <1>4 DEF NothingAssigned, EnterSchedule, At, ShotCpus, NoneAssigned, PassInv
  <2>2. ShotCpus' = {} /\ Pending' = {}
    BY <2>1 DEF ShotCpus, Pending
  <2>3. PassInv'
    BY <2>1, <2>2 DEF PassInv
  <2> QED  BY <1>1, <2>1, <2>3 DEF LoopTypeOK, StopsOnlyOnKernelFault
<1>5. CASE Commit
  <2>1. /\ pc = "pick" /\ pc' = "shoot" /\ cursor' = 0
        /\ UNCHANGED <<assigned, old_cpu_states>>
        /\ area' = [c \in Cpus |-> IF assigned[c] # NoTask
                                   THEN [pid |-> assigned[c], info |-> "RIGHT"]
                                   ELSE area[c]]
    BY <1>5 DEF Commit, At
  <2>2. ShotCpus' = ShotCpus /\ Pending = ShotCpus /\ Pending' = ShotCpus
    BY <2>1 DEF ShotCpus, Pending
  <2>3. \A c \in Cpus : area'[c].info # "ERROR"
    BY <2>1 DEF PassInv
  <2>4. \A c \in ShotCpus : area'[c].pid = assigned'[c]
    BY <2>1 DEF ShotCpus
  <2>5. PassInv'
    BY <1>2, <2>1, <2>2, <2>3, <2>4 DEF PassInv
  <2>6. LoopTypeOK'
    BY <2>1 DEF LoopTypeOK
  <2> QED  BY <1>1, <2>5, <2>6 DEF StopsOnlyOnKernelFault
<1>6. CASE Return
  <2>1. /\ pc \in {"revert", "check"} /\ pc' = "drain" /\ cursor = CpuNum /\ cursor' = 0
        /\ assigned' = NoneAssigned /\ old_cpu_states' = NothingSaved /\ area' = area
    BY <1>6 DEF Return
  <2>2. ShotCpus' = {} /\ Pending' = {} /\ Pending = {}
    BY <2>1 DEF ShotCpus, Pending, NoneAssigned, Cpus
  <2>3. PassInv'
    BY <2>1, <2>2 DEF PassInv
  <2>4. LoopTypeOK'
    BY <2>1 DEF LoopTypeOK, NoneAssigned, NothingSaved
  <2> QED  BY <1>1, <2>3, <2>4 DEF StopsOnlyOnKernelFault
<1> QED  BY <1>3, <1>4, <1>5, <1>6

LEMMA ShootLemma ==
    ASSUME IInv, ErrLeavesInfo = FALSE, NEW bad \in SUBSET ShotCpus,
           ShootOk(bad) \/ ShootErr(bad)
    PROVE  IInv'
<1> USE DEF IInv
<1>1. /\ pc = "shoot" /\ cursor = 0 /\ UNCHANGED <<cursor, taskVars, assigned, old_cpu_states, status>>
      /\ Verdict(bad)
      /\ pc' = "check" \/ (pc' = "revert" /\ bad = {})
  BY DEF ShootOk, ShootErr, At, PassInv
<1>2. TaskInv' /\ OnCpu' = OnCpu /\ cpu_id' = cpu_id
  BY <1>1, UnchangedLemma DEF OnCpu, taskVars
<1>3. ShotCpus' = ShotCpus /\ Pending = ShotCpus /\ Pending' = ShotCpus
  BY <1>1, LordAssumption DEF ShotCpus, Pending, Cpus
<1>4. /\ \A c \in Cpus : area'[c].pid = area[c].pid
      /\ \A c \in Cpus : area'[c].info = "ERROR" => c \in bad
  BY <1>1 DEF Verdict, PassInv, LoopTypeOK
<1>5. LoopTypeOK'
  BY <1>1 DEF LoopTypeOK, Verdict
<1>6. PassInv'
  BY <1>1, <1>2, <1>3, <1>4 DEF PassInv, ShotCpus
<1> QED  BY <1>1, <1>2, <1>5, <1>6 DEF StopsOnlyOnKernelFault

LEMMA InitLemma ==
    ASSUME Init
    PROVE  IInv
<1> USE LordAssumption DEF Init
<1>1. TaskInv
  BY DEF TaskInv, TaskTypeOK, RqExact, OnCpuOwnsCos, Queued, OnCpu, IsInjective,
         ToSet, RunStates, CpuStates, InitCpuStates
<1>2. LoopTypeOK /\ PassInv
  BY DEF LoopTypeOK, PassInv, Pending, ShotCpus, NoneAssigned, NothingSaved, EmptyArea
<1> QED  BY <1>1, <1>2 DEF IInv, StopsOnlyOnKernelFault

LEMMA StepLemma ==
    ASSUME ErrLeavesInfo = FALSE, IInv, [Next]_lordVars
    PROVE  IInv'
<1>1. CASE \E msg \in CosMsg : Consume(msg)
  BY <1>1, ConsumeLemma
<1>2. CASE EnterSchedule
  BY <1>2, QuietLemma
<1>3. CASE ScheduleStep
  BY <1>3, AssignHeadLemma, RevertOneLemma, CheckOneLemma, QuietLemma DEF ScheduleStep
<1>4. CASE ShootStep
  BY <1>4, ShootLemma DEF ShootStep
<1>5. CASE UNCHANGED lordVars
  <2>1. TaskInv'
    BY <1>5, UnchangedLemma DEF IInv, lordVars
  <2> QED  BY <1>5, <2>1
           DEF IInv, LoopTypeOK, PassInv, Pending, ShotCpus, OnCpu,
               StopsOnlyOnKernelFault, lordVars, taskVars, loopVars
<1> QED  BY <1>1, <1>2, <1>3, <1>4, <1>5 DEF Next

-----------------------------------------------------------------------------
(* The theorems.                                                           *)

\* IInv is inductive: it holds at the start and every step keeps it.
THEOREM Inductive ==
    ASSUME ErrLeavesInfo = FALSE
    PROVE  Spec => []IInv
<1>1. Init => IInv
  BY InitLemma
<1>2. IInv /\ [Next]_lordVars => IInv'
  BY StepLemma
<1> QED  BY <1>1, <1>2, PTL DEF Spec

\* Every variable of the lord keeps its type: in particular no handler
\* writes cpu_states_ or a task outside their bounds.
THEOREM TypeCorrect ==
    ASSUME ErrLeavesInfo = FALSE
    PROVE  Spec => []TypeOK
<1>1. IInv => TypeOK
  BY DEF IInv, TaskInv, TaskTypeOK, LoopTypeOK, TypeOK, StopsOnlyOnKernelFault, Statuses
<1> QED  BY <1>1, Inductive, PTL

\* The run queue is exactly the Queued tasks, without duplicates, whatever
\* messages and verdicts the kernel produces.
THEOREM RunQueueExact ==
    ASSUME ErrLeavesInfo = FALSE
    PROVE  Spec => []RqExact
<1>1. IInv => RqExact
  BY DEF IInv, TaskInv
<1> QED  BY <1>1, Inductive, PTL

\* A running task owns a COS CPU of its own, whatever the kernel does.
THEOREM CpuOwnership ==
    ASSUME ErrLeavesInfo = FALSE
    PROVE  Spec => []OnCpuOwnsCos
<1>1. IInv => OnCpuOwnsCos
  BY DEF IInv, TaskInv
<1> QED  BY <1>1, Inductive, PTL

\* Every order committed to the shoot area is executable.
THEOREM ShotsAreSound ==
    ASSUME ErrLeavesInfo = FALSE
    PROVE  Spec => []ShotsSound
<1>1. IInv => ShotsSound
  <2> SUFFICES ASSUME IInv, pc = "shoot", NEW c \in ShotCpus
               PROVE  /\ c # LordCpu
                      /\ assigned[c] \in alive
                      /\ area[c] = [pid |-> assigned[c], info |-> "RIGHT"]
                      /\ \A d \in ShotCpus : assigned[c] = assigned[d] => c = d
    BY DEF ShotsSound
  <2>1. \A d \in ShotCpus : assigned[d] \in OnCpu /\ cpu_id[assigned[d]] = d
    BY DEF IInv, PassInv, Pending
  <2>2. c # LordCpu /\ assigned[c] \in alive
    BY <2>1 DEF IInv, TaskInv, RqExact, OnCpuOwnsCos
  <2>3. area[c] = [pid |-> assigned[c], info |-> "RIGHT"]
    <3>1. area[c].pid = assigned[c] /\ area[c].info # "ERROR"
      BY DEF IInv, PassInv, Pending, ShotCpus
    <3> QED  BY <3>1 DEF IInv, LoopTypeOK, ShotCpus
  <2> QED  BY <2>1, <2>2, <2>3
<1> QED  BY <1>1, Inductive, PTL

\* The lord's own bookkeeping never ends the process: only a message that
\* breaks the kernel's contract does.
THEOREM NoSelfInflictedStop ==
    ASSUME ErrLeavesInfo = FALSE
    PROVE  Spec => []StopsOnlyOnKernelFault
<1>1. IInv => StopsOnlyOnKernelFault
  BY DEF IInv
<1> QED  BY <1>1, Inductive, PTL

-----------------------------------------------------------------------------
(* The order of a queue without duplicates.                                *)

\* push_back puts a thread behind all the others and changes no order.
LEMMA EnqueueOrder ==
    ASSUME NEW S, NEW q \in Seq(S), NEW v \in S, NEW t \in ToSet(q), NEW u,
           Before(q, t, u) \/ u \notin ToSet(q), u \in ToSet(Enqueue(q, v))
    PROVE  Before(Enqueue(q, v), t, u)
<1>1. /\ Enqueue(q, v) \in Seq(S) /\ Len(Enqueue(q, v)) = Len(q) + 1
      /\ Enqueue(q, v)[Len(q) + 1] = v
      /\ \A i \in DOMAIN q : i < Len(q) + 1 /\ Enqueue(q, v)[i] = q[i]
  BY DEF Enqueue
<1>2. DOMAIN q \subseteq DOMAIN Enqueue(q, v) /\ Len(q) + 1 \in DOMAIN Enqueue(q, v)
  BY <1>1
<1>3. CASE Before(q, t, u)
  <2>1. PICK i, j \in DOMAIN q : i < j /\ q[i] = t /\ q[j] = u
    BY <1>3 DEF Before
  <2> QED
    BY <1>1, <1>2, <2>1 DEF Before
<1>4. CASE u \notin ToSet(q)
  <2>1. u = v
    <3>1. PICK j \in DOMAIN Enqueue(q, v) : Enqueue(q, v)[j] = u
      BY DEF ToSet
    <3>2. j \notin DOMAIN q
      BY <1>1, <1>4, <3>1 DEF ToSet
    <3>3. j = Len(q) + 1
      BY <1>1, <3>2
    <3> QED
      BY <1>1, <3>1, <3>3
  <2>2. PICK i \in DOMAIN q : q[i] = t
    BY DEF ToSet
  <2>3. i < Len(q) + 1 /\ Enqueue(q, v)[i] = t /\ Enqueue(q, v)[Len(q) + 1] = u
    BY <1>1, <2>1, <2>2
  <2> QED
    BY <1>2, <2>3 DEF Before
<1> QED
  BY <1>3, <1>4

\* pop_front takes the thread that is behind nobody.
LEMMA DequeueOrder ==
    ASSUME NEW S, NEW q \in Seq(S), IsInjective(q), q # <<>>, NEW t, NEW u,
           Before(q, t, u)
    PROVE  /\ u # Peek(q)
           /\ t \in ToSet(Dequeue(q)) => Before(Dequeue(q), t, u)
<1>1. /\ Peek(q) = q[1] /\ Dequeue(q) \in Seq(S) /\ Len(Dequeue(q)) = Len(q) - 1
      /\ \A i \in 1 .. Len(q) - 1 : Dequeue(q)[i] = q[i + 1]
      /\ 1 \in DOMAIN q
  BY DEF Peek, Dequeue
<1>2. PICK i, j \in DOMAIN q : i < j /\ q[i] = t /\ q[j] = u
  BY DEF Before
<1>3. u # Peek(q)
  BY <1>1, <1>2 DEF IsInjective
<1>4. ASSUME t \in ToSet(Dequeue(q)) PROVE Before(Dequeue(q), t, u)
  <2>1. PICK k \in DOMAIN Dequeue(q) : Dequeue(q)[k] = t
    BY <1>4 DEF ToSet
  <2>2. k + 1 \in DOMAIN q /\ q[k + 1] = t
    BY <1>1, <2>1
  <2>3. k + 1 = i
    BY <1>2, <2>2 DEF IsInjective
  <2>4. j - 1 \in DOMAIN Dequeue(q) /\ Dequeue(q)[j - 1] = u /\ k < j - 1
    BY <1>1, <1>2, <2>2, <2>3
  <2> QED
    BY <2>1, <2>4 DEF Before
<1> QED
  BY <1>3, <1>4

\* erase keeps the order of the others.
LEMMA RemoveOrder ==
    ASSUME NEW S, NEW q \in Seq(S), IsInjective(q), NEW v \in ToSet(q), NEW t, NEW u,
           Before(q, t, u), t # v, u # v
    PROVE  Before(RemoveFromRq(q, v), t, u)
<1> DEFINE r == RemoveFromRq(q, v)
<1>1. PICK k \in DOMAIN q :
        /\ q[k] = v
        /\ r \in Seq(S) /\ Len(r) = Len(q) - 1
        /\ \A i \in 1 .. Len(q) - 1 : r[i] = IF i < k THEN q[i] ELSE q[i + 1]
  BY RemoveShifts
<1> HIDE DEF r
<1>2. ASSUME NEW i \in DOMAIN q, q[i] # v
      PROVE  /\ i < k => i \in DOMAIN r /\ r[i] = q[i]
             /\ i > k => i - 1 \in DOMAIN r /\ r[i - 1] = q[i]
             /\ i # k
  BY <1>1, <1>2
<1>3. PICK i, j \in DOMAIN q : i < j /\ q[i] = t /\ q[j] = u
  BY DEF Before
<1> DEFINE place(n) == IF n < k THEN n ELSE n - 1
<1>4. /\ place(i) \in DOMAIN r /\ r[place(i)] = t
      /\ place(j) \in DOMAIN r /\ r[place(j)] = u
  BY <1>1, <1>2, <1>3
<1>5. place(i) < place(j)
  BY <1>1, <1>2, <1>3
<1> QED
  BY <1>4, <1>5 DEF Before, r

-----------------------------------------------------------------------------
(* What a step does to the queue.                                          *)

\* The action of NoOvertaking.
InOrder ==
    \A t \in ToSet(rq), u \in Tids :
        Before(rq, t, u) \/ u \notin ToSet(rq) =>
            /\ {t, u} \subseteq ToSet(rq') => Before(rq', t, u)
            /\ state'[u] = "OnCpu" /\ state[u] # "OnCpu" => t \notin ToSet(rq')

\* A thread joins at the end, one leaves without a CPU, the head leaves for a
\* CPU, or the queue stays as it is and nobody gets a CPU.
Joins(v)  == rq' = Enqueue(rq, v) /\ state' = [state EXCEPT ![v] = "Queued"]
Leaves(v) == /\ v \in ToSet(rq) /\ rq' = RemoveFromRq(rq, v)
             /\ state' = [state EXCEPT ![v] = "Blocked"]
HeadRuns  == /\ rq # <<>> /\ rq' = Dequeue(rq)
             /\ state' = [state EXCEPT ![Peek(rq)] = "OnCpu"]
Stays     == rq' = rq /\ \A u \in Tids : state'[u] = "OnCpu" => state[u] = "OnCpu"

QueueStep == HeadRuns \/ Stays \/ \E v \in Tids : Joins(v) \/ Leaves(v)

\* Every such step keeps to the order.
LEMMA QueueStepInOrder ==
    ASSUME TaskInv, QueueStep
    PROVE  InOrder
<1>1. rq \in Seq(Tids) /\ IsInjective(rq) /\ state \in [Tids -> RunStates]
  BY DEF TaskInv, TaskTypeOK, RqExact
<1> SUFFICES ASSUME NEW t \in ToSet(rq), NEW u \in Tids,
                    Before(rq, t, u) \/ u \notin ToSet(rq)
             PROVE  /\ {t, u} \subseteq ToSet(rq') => Before(rq', t, u)
                    /\ state'[u] = "OnCpu" /\ state[u] # "OnCpu" => t \notin ToSet(rq')
  BY Zenon DEF InOrder
<1>2. ASSUME NEW v \in Tids, Joins(v)
      PROVE  /\ {t, u} \subseteq ToSet(rq') => Before(rq', t, u)
             /\ state'[u] = "OnCpu" => state[u] = "OnCpu"
  <2>1. u \in ToSet(rq') => Before(rq', t, u)
    BY <1>1, <1>2, EnqueueOrder, Zenon DEF Joins
  <2>2. state'[u] = "OnCpu" => state[u] = "OnCpu"
    BY <1>1, <1>2 DEF Joins
  <2> QED
    BY <2>1, <2>2
<1>3. ASSUME NEW v \in Tids, Leaves(v)
      PROVE  /\ {t, u} \subseteq ToSet(rq') => Before(rq', t, u)
             /\ state'[u] = "OnCpu" => state[u] = "OnCpu"
  <2>1. ToSet(rq') = ToSet(rq) \ {v}
    BY <1>1, <1>3, RemoveLemma, Zenon DEF Leaves
  <2>2. ASSUME t # v, u # v, u \in ToSet(rq) PROVE Before(rq', t, u)
    BY <1>1, <1>3, <2>2, RemoveOrder, Zenon DEF Leaves
  <2>3. state'[u] = "OnCpu" => state[u] = "OnCpu"
    BY <1>1, <1>3 DEF Leaves
  <2> QED
    BY <2>1, <2>2, <2>3
<1>4. CASE HeadRuns
  <2>1. ToSet(rq') = ToSet(rq) \ {Peek(rq)} /\ Peek(rq) \in ToSet(rq)
    BY <1>1, <1>4, DequeueLemma, Zenon DEF HeadRuns
  <2>2. CASE Before(rq, t, u)
    <3>1. u # Peek(rq) /\ (t \in ToSet(rq') => Before(rq', t, u))
      BY <1>1, <1>4, <2>2, DequeueOrder, Zenon DEF HeadRuns
    <3>2. state'[u] = state[u]
      BY <1>1, <1>4, <3>1 DEF HeadRuns
    <3> QED
      BY <3>1, <3>2
  <2>3. CASE u \notin ToSet(rq)
    <3>1. u \notin ToSet(rq') /\ u # Peek(rq)
      BY <2>1, <2>3
    <3>2. state'[u] = state[u]
      BY <1>1, <1>4, <3>1 DEF HeadRuns
    <3> QED
      BY <3>1, <3>2
  <2> QED
    BY <2>2, <2>3
<1>5. CASE Stays
  BY <1>5 DEF Stays
<1> QED
  BY <1>2, <1>3, <1>4, <1>5, Zenon DEF QueueStep

\* The handlers of messages.
LEMMA ConsumeQueueStep ==
    ASSUME IInv, NEW msg \in CosMsg, Consume(msg)
    PROVE  QueueStep
<1> DEFINE tid == msg.pid
<1>1. TaskInv /\ tid \in Tids
  BY DEF IInv, CosMsg
<1>2. Ignore \/ (\E why : Stop(why)) => Stays
  BY DEF Ignore, Stop, Stays, taskVars
<1>3. EnqueueTask(tid) => Joins(tid)
  BY DEF EnqueueTask, Joins
<1>4. ASSUME Vacate(tid), state' = [state EXCEPT ![tid] = "Blocked"]
      PROVE  Stays \/ Leaves(tid)
  <2>1. CASE state[tid] = "Queued"
    <3>1. Removal(tid) /\ tid \in ToSet(rq)
      BY <1>1, <1>4, <2>1 DEF Vacate, TaskInv, RqExact, Queued
    <3> QED
      BY <1>4, <3>1 DEF Removal, Leaves
  <2>2. CASE state[tid] # "Queued"
    <3>1. rq' = rq
      BY <1>1, <1>4, <2>2 DEF Vacate, TaskInv, TaskTypeOK, RunStates
    <3> QED
      BY <1>1, <1>4, <3>1 DEF Stays, TaskInv, TaskTypeOK
  <2> QED
    BY <2>1, <2>2
<1>5. consume_msg_task_runnable(tid) => QueueStep
  BY <1>1, <1>2, <1>3, Zenon DEF consume_msg_task_runnable, QueueStep
<1>6. consume_msg_task_blocked(tid) => QueueStep
  BY <1>1, <1>2, <1>4, Zenon DEF consume_msg_task_blocked, QueueStep
<1>7. consume_msg_task_new(tid) => QueueStep
  BY <1>1, <1>2, <1>3, Zenon DEF consume_msg_task_new, QueueStep
<1>8. consume_msg_task_dead(tid) => QueueStep
  BY <1>1, <1>2, <1>4, Zenon DEF consume_msg_task_dead, QueueStep
<1>9. consume_msg_task_new_blocked(tid) => QueueStep
  <2>1. state' = [state EXCEPT ![tid] = "Blocked"] /\ rq' = rq => Stays
    BY <1>1 DEF Stays, TaskInv, TaskTypeOK
  <2> QED
    BY <1>2, <2>1, Zenon DEF consume_msg_task_new_blocked, QueueStep
<1>10. consume_msg_task_preempt(tid) => QueueStep
  <2>1. tid \notin alive \/ state[tid] \in RunStates
    BY <1>1 DEF TaskInv, TaskTypeOK
  <2> QED
    BY <1>1, <1>2, <1>3, <2>1 DEF consume_msg_task_preempt, QueueStep, RunStates
<1>11. consume_msg_task_preempt_cos(tid) => QueueStep
  <2>1. tid \notin alive \/ state[tid] \in RunStates
    BY <1>1 DEF TaskInv, TaskTypeOK
  <2> QED
    BY <1>1, <1>2, <1>3, <2>1 DEF consume_msg_task_preempt_cos, QueueStep, RunStates
<1>12. Ignore => QueueStep
  BY <1>2 DEF QueueStep
<1> QED
  BY <1>5, <1>6, <1>7, <1>8, <1>9, <1>10, <1>11, <1>12, Zenon DEF Consume, Dispatch

\* Taking back a shot puts its thread at the end.
LEMMA TakeBackQueueStep ==
    ASSUME IInv, cursor \in Pending, TakeBack(assigned[cursor])
    PROVE  QueueStep
<1>1. assigned[cursor] \in Tids /\ assigned[cursor] \in alive
  BY DEF IInv, TaskInv, PassInv, OnCpu, RqExact
<1>2. Joins(assigned[cursor])
  BY <1>1 DEF TakeBack, Requeue, Joins
<1> QED
  BY <1>1, <1>2 DEF QueueStep

\* schedule().
LEMMA ScheduleQueueStep ==
    ASSUME IInv, ScheduleStep
    PROVE  QueueStep
<1>1. UNCHANGED taskVars => QueueStep
  BY DEF taskVars, QueueStep, Stays
<1>2. CASE SkipCpu \/ NothingQueued \/ NothingAssigned \/ Commit \/ Return
  BY <1>1, <1>2, Zenon DEF SkipCpu, NothingQueued, NothingAssigned, Commit, Return
<1>3. CASE AssignHead
  <2>1. rq # <<>>
    BY <1>3 DEF AssignHead, Peek
  <2>2. HeadRuns \/ UNCHANGED taskVars
    BY <1>3, <2>1, Zenon DEF AssignHead, HeadRuns, Stop
  <2> QED
    BY <1>1, <2>2 DEF QueueStep
<1>4. CASE RevertOne
  <2>1. cursor \in Cpus /\ pc = "revert"
    BY <1>4, LordAssumption DEF RevertOne, Loop, At, IInv, LoopTypeOK, Cpus
  <2>2. CASE assigned[cursor] # NoTask
    <3>1. cursor \in Pending
      BY <2>1, <2>2, LordAssumption DEF Pending, ShotCpus, Cpus
    <3> QED
      BY <1>4, <2>2, <3>1, TakeBackQueueStep, Zenon DEF RevertOne
  <2>3. CASE assigned[cursor] = NoTask
    BY <1>1, <1>4, <2>3, Zenon DEF RevertOne
  <2> QED
    BY <2>2, <2>3
<1>5. CASE CheckOne
  <2>1. cursor \in Cpus /\ pc = "check"
    BY <1>5, LordAssumption DEF CheckOne, Loop, At, IInv, LoopTypeOK, Cpus
  <2>2. CASE area[cursor].info # "RIGHT"
    <3>1. area[cursor].info = "ERROR"
      BY <2>1, <2>2 DEF IInv, LoopTypeOK
    <3>2. cursor \in Pending /\ area[cursor].pid = assigned[cursor]
      BY <2>1, <3>1 DEF IInv, PassInv
    <3> QED
      BY <1>5, <2>2, <3>2, TakeBackQueueStep, Zenon DEF CheckOne
  <2>3. CASE area[cursor].info = "RIGHT"
    BY <1>1, <1>5, <2>3, Zenon DEF CheckOne
  <2> QED
    BY <2>2, <2>3
<1> QED
  BY <1>2, <1>3, <1>4, <1>5, Zenon DEF ScheduleStep

\* The FIFO order holds through revert, removal and requeue: nothing in the
\* queue is overtaken (fifo_lord.h:33, :86, :105, :139).
THEOREM ServesInOrder ==
    ASSUME ErrLeavesInfo = FALSE
    PROVE  Spec => NoOvertaking
<1>1. IInv /\ [Next]_lordVars => [InOrder]_lordVars
  <2> SUFFICES ASSUME IInv, Next PROVE InOrder
    OBVIOUS
  <2>1. TaskInv
    BY DEF IInv
  <2>2. UNCHANGED taskVars => QueueStep
    BY DEF taskVars, QueueStep, Stays
  <2>3. EnterSchedule \/ ShootStep => QueueStep
    BY <2>2, Zenon DEF EnterSchedule, ShootStep, ShootOk, ShootErr
  <2>4. QueueStep
    BY <2>3, ConsumeQueueStep, ScheduleQueueStep, Zenon DEF Next
  <2> QED
    BY <2>1, <2>4, QueueStepInOrder
<1>2. [][InOrder]_lordVars => NoOvertaking
  BY PTL DEF NoOvertaking, InOrder
<1> QED
  BY <1>1, <1>2, Inductive, PTL DEF Spec

-----------------------------------------------------------------------------
(* The lord and the kernel.                                                *)

\* The shots whose threads, in the lord's books, are still to be taken back:
\* after the call only those that were refused.
Unsettled == IF pc = "check" THEN {c \in Pending : area[c].info = "ERROR"} ELSE Pending

Shot(pid) == \E c \in Unsettled : assigned[c] = pid

\* Where the lord knows a thread to be: one it has shot at a CPU is runnable
\* until the call has succeeded.
Know(pid) ==
    IF pid \notin alive THEN "absent"
    ELSE IF state[pid] = "Blocked" THEN "blocked"
    ELSE IF state[pid] = "Queued" \/ Shot(pid) THEN "runnable"
    ELSE "running"

\* The unread messages lead from where the lord knows each thread to be to
\* where it is, and of a thread on a CPU there is nothing to be told.
SysInv ==
    /\ IInv
    /\ KernelInv
    /\ status = "running"
    /\ alive \subseteq {PidOf(t) : t \in Threads}
    /\ \A t \in Threads : Leads(t, Know(PidOf(t)))
    /\ \A c \in Cpus : kcur[c] # NoThread =>
          Know(PidOf(kcur[c])) = "running" /\ cpu_id[PidOf(kcur[c])] = c
-----------------------------------------------------------------------------
(* The lord alone learns nothing: where it knows each thread to be changes *)
(* with a message or a shot that is taken, and with nothing else.          *)

LEMMA KnowLemma ==
    ASSUME NEW p, p \in alive' <=> p \in alive, state'[p] = state[p], Shot(p)' <=> Shot(p)
    PROVE  Know(p)' = Know(p)
BY DEF Know

LEMMA UnsettledLemma ==
    ASSUME IInv
    PROVE  /\ Unsettled \subseteq Pending /\ Pending \subseteq ShotCpus
           /\ \A c \in Unsettled : /\ c \in Cpus /\ assigned[c] \in OnCpu
                                   /\ cpu_id[assigned[c]] = c
                                   /\ assigned[c] \in Tids /\ assigned[c] \in alive
           /\ \A c, d \in Unsettled : assigned[c] = assigned[d] => c = d
<1>1. Unsettled \subseteq Pending /\ Pending \subseteq ShotCpus /\ ShotCpus \subseteq Cpus
  BY DEF Unsettled, Pending, ShotCpus
<1>2. \A c \in Pending : assigned[c] \in OnCpu /\ cpu_id[assigned[c]] = c
  BY DEF IInv, PassInv
<1>3. \A t \in OnCpu : t \in Tids /\ t \in alive
  BY DEF IInv, TaskInv, RqExact, OnCpu
<1> QED  BY <1>1, <1>2, <1>3

LEMMA QuietKnows ==
    ASSUME ErrLeavesInfo = FALSE, IInv,
           \/ SkipCpu \/ NothingQueued \/ NothingAssigned \/ EnterSchedule \/ Commit \/ Return
           \/ \E bad \in SUBSET ShotCpus : ShootErr(bad)
    PROVE  /\ UNCHANGED <<alive, status, cpu_id>>
           /\ \A p \in Tids : Know(p)' = Know(p)
<1>1. UNCHANGED <<alive, state, status, cpu_id>>
  BY DEF SkipCpu, NothingQueued, NothingAssigned, EnterSchedule, Commit, Return, ShootErr, taskVars
<1>2. Unsettled' = Unsettled /\ \A c \in Unsettled : assigned'[c] = assigned[c]
  <2>1. CASE SkipCpu \/ NothingQueued \/ Commit
    BY <2>1 DEF SkipCpu, NothingQueued, Commit, Loop, At, Unsettled, Pending, ShotCpus
  <2>2. CASE NothingAssigned \/ EnterSchedule
    <3>1. /\ ShotCpus = {} /\ assigned' = assigned
          /\ pc \in {"pick", "drain"} /\ pc' \in {"pick", "drain"}
      BY <2>2 DEF NothingAssigned, EnterSchedule, At, ShotCpus, NoneAssigned, IInv, PassInv
    <3> QED  BY <3>1 DEF Unsettled, Pending, ShotCpus
  <2>3. CASE Return
    <3>1. /\ pc \in {"revert", "check"} /\ pc' = "drain" /\ cursor = CpuNum
          /\ assigned' = NoneAssigned
      BY <2>3 DEF Return
    <3>2. Pending = {} /\ ShotCpus' = {}
      BY <3>1, LordAssumption DEF Pending, ShotCpus, NoneAssigned, Cpus
    <3> QED  BY <3>1, <3>2 DEF Unsettled, Pending
  <2>4. CASE \E bad \in SUBSET ShotCpus : ShootErr(bad)
    <3>1. /\ pc = "shoot" /\ pc' = "revert" /\ cursor = 0 /\ cursor' = 0 /\ assigned' = assigned
      BY <2>4 DEF ShootErr, At, IInv, PassInv
    <3> QED  BY <3>1, LordAssumption DEF Unsettled, Pending, ShotCpus, Cpus
  <2> QED  BY <2>1, <2>2, <2>3, <2>4
<1>3. \A p \in Tids : Shot(p)' <=> Shot(p)
  BY <1>2 DEF Shot
<1> QED  BY <1>1, <1>3, KnowLemma

LEMMA AssignHeadKnows ==
    ASSUME IInv, AssignHead
    PROVE  /\ UNCHANGED <<alive, status>>
           /\ \A p \in Tids : /\ Know(p)' = Know(p)
                              /\ Know(p) = "running" => cpu_id'[p] = cpu_id[p]
<1> DEFINE tid == Peek(rq)
<1>1. /\ pc = "pick" /\ cursor \in Cpus /\ tid # 0 /\ rq # <<>>
  BY LordAssumption DEF AssignHead, Loop, At, CanShootAt, Peek, IInv, LoopTypeOK, Cpus
<1>2. tid \in ToSet(rq)
  BY <1>1, DequeueLemma DEF IInv, TaskInv, TaskTypeOK, RqExact
<1>3. tid \in Tids /\ tid \in alive /\ state[tid] = "Queued"
  BY <1>2 DEF IInv, TaskInv, RqExact, Queued
<1>4. /\ assigned' = [assigned EXCEPT ![cursor] = tid]
      /\ state' = [state EXCEPT ![tid] = "OnCpu"]
      /\ cpu_id' = [cpu_id EXCEPT ![tid] = cursor]
      /\ UNCHANGED <<alive, pc, status>>
  BY <1>3 DEF AssignHead
<1> HIDE DEF tid
<1>5. /\ assigned'[cursor] = tid
      /\ \A c \in Cpus : c # cursor => assigned'[c] = assigned[c]
      /\ \A p \in Tids : p # tid => state'[p] = state[p] /\ cpu_id'[p] = cpu_id[p]
      /\ state'[tid] = "OnCpu"
  BY <1>1, <1>3, <1>4 DEF IInv, LoopTypeOK, TaskInv, TaskTypeOK
<1>6. cursor \notin ShotCpus
  BY <1>1, LordAssumption DEF IInv, PassInv, ShotCpus, Cpus
<1>7. Unsettled = ShotCpus /\ Unsettled' = ShotCpus \cup {cursor}
  BY <1>1, <1>4, <1>5 DEF Unsettled, Pending, ShotCpus, NoTask, tid
<1>8. \A c \in ShotCpus : assigned'[c] = assigned[c]
  BY <1>5, <1>6 DEF ShotCpus
<1>9. ASSUME NEW p \in Tids
      PROVE  Know(p)' = Know(p) /\ (Know(p) = "running" => cpu_id'[p] = cpu_id[p])
  <2>1. CASE p = tid
    <3>1. Know(p) = "runnable"
      BY <1>3, <2>1 DEF Know
    <3>2. Know(p)' = "runnable"
      BY <1>3, <1>4, <1>5, <1>7, <2>1 DEF Know, Shot
    <3> QED  BY <3>1, <3>2
  <2>2. CASE p # tid
    <3>1. Shot(p)' <=> Shot(p)
      BY <1>5, <1>7, <1>8, <2>2 DEF Shot
    <3> QED  BY <1>4, <1>5, <2>2, <3>1, KnowLemma
  <2> QED  BY <2>1, <2>2
<1> QED  BY <1>4, <1>9

LEMMA SettleKnows ==
    ASSUME IInv, RevertOne \/ CheckOne
    PROVE  /\ UNCHANGED <<alive, status, cpu_id>>
           /\ \A p \in Tids : Know(p)' = Know(p)
<1>1. /\ pc \in {"revert", "check"} /\ cursor < CpuNum /\ cursor' = cursor + 1
      /\ UNCHANGED <<pc, assigned>> /\ cursor \in Cpus
  BY LordAssumption DEF RevertOne, CheckOne, Loop, At, IInv, LoopTypeOK, Cpus
<1>2. ShotCpus' = ShotCpus /\ Pending' = Pending \ {cursor}
  BY <1>1, LordAssumption DEF ShotCpus, Pending, IInv, LoopTypeOK, Cpus
<1>3. Unsettled' = Unsettled \ {cursor}
  <2>1. CASE RevertOne
    BY <1>1, <1>2, <2>1 DEF Unsettled, RevertOne, Loop, At
  <2>2. CASE CheckOne
    <3>1. pc = "check" /\ area' = [area EXCEPT ![cursor].info = "RIGHT"]
      BY <2>2 DEF CheckOne, Loop, At
    <3>2. \A c \in Cpus : c # cursor => area'[c] = area[c]
      BY <1>1, <3>1 DEF IInv, LoopTypeOK
    <3> QED  BY <1>1, <1>2, <3>1, <3>2, UnsettledLemma DEF Unsettled, Pending, ShotCpus
  <2> QED  BY <2>1, <2>2
<1>4. CASE cursor \in Unsettled
  <2>0. PICK pid : pid = assigned[cursor]
    OBVIOUS
  <2>1. /\ cursor \in Pending /\ TakeBack(pid)
    <3>1. CASE RevertOne
      BY <1>4, <2>0, <3>1, UnsettledLemma DEF RevertOne, ShotCpus
    <3>2. CASE CheckOne
      <4>1. pc = "check"
        BY <3>2 DEF CheckOne, Loop, At
      <4>2. area[cursor].info = "ERROR" /\ area[cursor].pid = pid /\ cursor \in Pending
        BY <1>4, <2>0, <4>1 DEF Unsettled, IInv, PassInv
      <4> QED  BY <3>2, <4>2 DEF CheckOne
    <3> QED  BY <3>1, <3>2
  <2>2. UNCHANGED <<status, cpu_id>>
    BY <2>0, <2>1, TakeBackLemma
  <2>3. pid \in OnCpu /\ pid \in Tids /\ pid \in alive /\ Shot(pid)
    BY <1>4, <2>0, UnsettledLemma DEF Shot
  <2>4. alive' = alive /\ state' = [state EXCEPT ![pid] = "Queued"]
    BY <2>1, <2>3 DEF TakeBack, Requeue
  <2>5. /\ state'[pid] = "Queued"
        /\ \A p \in Tids : p # pid => state'[p] = state[p]
    BY <2>3, <2>4 DEF IInv, TaskInv, TaskTypeOK
  <2>6. \A p \in Tids : p # pid => (Shot(p)' <=> Shot(p))
    BY <1>1, <1>3, <2>0 DEF Shot
  <2>7. Know(pid) = "runnable" /\ Know(pid)' = "runnable"
    <3>1. Know(pid) = "runnable"
      BY <2>3 DEF Know, OnCpu
    <3>2. Know(pid)' = "runnable"
      BY <1>1, <2>3, <2>4, <2>5 DEF Know
    <3> QED  BY <3>1, <3>2
  <2>8. \A p \in Tids : p # pid => Know(p)' = Know(p)
    BY <2>4, <2>5, <2>6, KnowLemma
  <2> QED  BY <2>2, <2>4, <2>7, <2>8
<1>5. CASE cursor \notin Unsettled
  <2>1. UNCHANGED <<taskVars, status>>
    <3>1. CASE RevertOne
      <4>1. assigned[cursor] = NoTask
        BY <1>1, <1>5, <3>1, LordAssumption
           DEF Unsettled, Pending, ShotCpus, RevertOne, Loop, At, Cpus
      <4> QED  BY <3>1, <4>1 DEF RevertOne
    <3>2. CASE CheckOne
      <4>1. pc = "check"
        BY <3>2 DEF CheckOne, Loop, At
      <4>2. area[cursor].info # "ERROR" /\ area[cursor].info \in {"RIGHT", "ERROR"}
        BY <1>1, <1>5, <4>1 DEF Unsettled, IInv, PassInv, LoopTypeOK
      <4> QED  BY <3>2, <4>2 DEF CheckOne
    <3> QED  BY <3>1, <3>2
  <2>2. Unsettled' = Unsettled
    BY <1>3, <1>5
  <2>3. \A p \in Tids : Shot(p)' <=> Shot(p)
    BY <1>1, <2>2 DEF Shot
  <2> QED  BY <2>1, <2>3, KnowLemma DEF taskVars
<1> QED  BY <1>4, <1>5

\* A shot that is taken: the thread is known to run.
LEMMA ShootOkKnows ==
    ASSUME IInv, NEW bad \in SUBSET ShotCpus, ShootOk(bad)
    PROVE  /\ UNCHANGED <<alive, status, cpu_id>>
           /\ \A p \in Tids : Know(p)' = IF \E c \in ShotCpus \ bad : assigned[c] = p
                                         THEN "running" ELSE Know(p)
<1>1. /\ pc = "shoot" /\ pc' = "check" /\ cursor = 0
      /\ UNCHANGED <<cursor, assigned, alive, state, cpu_id, status>>
      /\ Verdict(bad)
  BY DEF ShootOk, At, IInv, PassInv, taskVars
<1>2. Pending = ShotCpus /\ Pending' = ShotCpus /\ Unsettled = ShotCpus
  BY <1>1, LordAssumption DEF Pending, Unsettled, ShotCpus, Cpus
<1>3. \A c \in Cpus : area'[c].info = "ERROR" <=> c \in bad
  <2> SUFFICES ASSUME NEW c \in Cpus PROVE area'[c].info = "ERROR" <=> c \in bad
    OBVIOUS
  <2>1. area[c].info # "ERROR" /\ area[c] \in [pid : Tids \cup {NoTask}, info : {"RIGHT", "ERROR"}]
    BY <1>1 DEF IInv, PassInv, LoopTypeOK
  <2>2. area'[c] = IF c \in bad THEN [area[c] EXCEPT !.info = "ERROR"] ELSE area[c]
    BY <1>1 DEF Verdict
  <2> QED  BY <2>1, <2>2
<1>4. Unsettled' = bad
  BY <1>1, <1>2, <1>3 DEF Unsettled, ShotCpus
<1>5. ASSUME NEW p \in Tids
      PROVE  Know(p)' = IF \E c \in ShotCpus \ bad : assigned[c] = p THEN "running" ELSE Know(p)
  <2>1. CASE \E c \in ShotCpus \ bad : assigned[c] = p
    <3>1. PICK c \in ShotCpus \ bad : assigned[c] = p
      BY <2>1
    <3>2. p \in alive /\ state[p] = "OnCpu" /\ \A d \in bad : assigned[d] # p
      BY <1>2, <3>1, UnsettledLemma DEF OnCpu
    <3>3. ~Shot(p)'
      BY <1>1, <1>4, <3>2 DEF Shot
    <3> QED  BY <1>1, <2>1, <3>2, <3>3 DEF Know
  <2>2. CASE \A c \in ShotCpus \ bad : assigned[c] # p
    <3>1. Shot(p)' <=> Shot(p)
      BY <1>1, <1>2, <1>4, <2>2 DEF Shot
    <3> QED  BY <1>1, <2>2, <3>1, KnowLemma
  <2> QED  BY <2>1, <2>2
<1> QED  BY <1>1, <1>5

\* While the lord reads messages no shot is under way.
LEMMA DrainLemma ==
    ASSUME IInv, pc = "drain"
    PROVE  \A p : ~Shot(p)
<1>1. ShotCpus = {}
  BY DEF IInv, PassInv
<1> QED  BY <1>1 DEF Shot, Unsettled, Pending

\* A message that tells of a change of the thread: the lord ends up knowing
\* what it tells, and nothing else changes.
LEMMA ConsumeKnows ==
    ASSUME IInv, NEW msg \in CosMsg, Consume(msg), ~IsOwn(msg),
           NEW l, <<Know(msg.pid), msg.type, l>> \in Changes
    PROVE  /\ status' = "running"
           /\ alive' \subseteq alive \cup {msg.pid}
           /\ Know(msg.pid)' = l
           /\ \A p \in Tids : p # msg.pid => Know(p)' = Know(p) /\ cpu_id'[p] = cpu_id[p]
<1>1. PICK pid \in Tids : pid = msg.pid
  BY DEF CosMsg
<1>2. /\ status = "running" /\ pc = "drain" /\ UNCHANGED loopVars /\ Dispatch(msg)
  BY DEF Consume, At
<1>3. (\A p : ~Shot(p)) /\ (\A p : ~Shot(p)')
  <2>1. \A p : ~Shot(p)
    BY <1>2, DrainLemma
  <2>2. \A p : Shot(p)' <=> Shot(p)
    BY <1>2 DEF Shot, Unsettled, Pending, ShotCpus, loopVars
  <2> QED  BY <2>1, <2>2
<1>4. \A p \in Tids : /\ state[p] \in RunStates
                      /\ Know(p) = "absent" <=> p \notin alive
                      /\ Know(p) = "blocked" <=> p \in alive /\ state[p] = "Blocked"
                      /\ Know(p) = "runnable" <=> p \in alive /\ state[p] = "Queued"
                      /\ Know(p) = "running" <=> p \in alive /\ state[p] = "OnCpu"
  BY <1>3 DEF Know, IInv, TaskInv, TaskTypeOK, RunStates
<1>5. /\ state \in [Tids -> RunStates] /\ cpu_id \in [Tids -> Cpus \cup {NoCpu}]
      /\ alive \subseteq Tids
  BY DEF IInv, TaskInv, TaskTypeOK
\* What is left to show of each handler.
<1> DEFINE Only(k) ==
             /\ status' = "running"
             /\ pid \in alive' <=> k # "absent"
             /\ k = "blocked" => state'[pid] = "Blocked"
             /\ k = "runnable" => state'[pid] = "Queued"
             /\ \A p \in Tids : p # pid => /\ p \in alive' <=> p \in alive
                                           /\ state'[p] = state[p]
                                           /\ cpu_id'[p] = cpu_id[p]
             /\ alive' \subseteq alive \cup {pid}
             /\ k \in {"absent", "blocked", "runnable"}
<1>6. Only(l)
  <2> DEFINE k == Know(pid)
             type == msg.type
  <2>0. <<k, type, l>> \in Changes
    BY <1>1
  <2>1. CASE type = "NEW"
    <3>1. k = "absent" /\ l = "runnable"
      BY <2>0, <2>1 DEF Changes
    <3>2. consume_msg_task_new(pid) /\ pid \notin alive
      BY <1>1, <1>2, <1>4, <2>1, <3>1 DEF Dispatch, MsgTypes
    <3> QED  BY <1>2, <1>5, <3>1, <3>2 DEF consume_msg_task_new, CreateTask, EnqueueTask
  <2>2. CASE type = "NEW_BLOCKED"
    <3>1. k = "absent" /\ l = "blocked"
      BY <2>0, <2>2 DEF Changes
    <3>2. consume_msg_task_new_blocked(pid) /\ pid \notin alive
      BY <1>1, <1>2, <1>4, <2>2, <3>1 DEF Dispatch, MsgTypes
    <3> QED  BY <1>2, <1>5, <3>1, <3>2 DEF consume_msg_task_new_blocked, CreateTask
  <2>3. CASE type = "RUNNABLE"
    <3>1. (k = "absent" /\ l = "absent") \/ (k = "blocked" /\ l = "runnable")
      BY <2>0, <2>3 DEF Changes
    <3>2. consume_msg_task_runnable(pid)
      BY <1>1, <1>2, <2>3 DEF Dispatch, MsgTypes
    <3>3. CASE k = "absent"
      BY <1>2, <1>4, <1>5, <3>1, <3>2, <3>3 DEF consume_msg_task_runnable, Ignore, taskVars
    <3>4. CASE k = "blocked"
      BY <1>2, <1>4, <1>5, <3>1, <3>2, <3>4 DEF consume_msg_task_runnable, EnqueueTask
    <3> QED  BY <3>1, <3>3, <3>4
  <2>4. CASE type = "BLOCKED"
    <3>1. (k = "absent" /\ l = "absent") \/ (k = "running" /\ l = "blocked")
      BY <2>0, <2>4 DEF Changes
    <3>2. consume_msg_task_blocked(pid)
      BY <1>1, <1>2, <2>4 DEF Dispatch, MsgTypes
    <3>3. CASE k = "absent"
      BY <1>2, <1>4, <1>5, <3>1, <3>2, <3>3 DEF consume_msg_task_blocked, Ignore, taskVars
    <3>4. CASE k = "running"
      <4>1. pid \in alive /\ state[pid] = "OnCpu"
        BY <1>4, <3>4
      <4> QED  BY <1>2, <1>5, <3>1, <3>2, <3>4, <4>1 DEF consume_msg_task_blocked, Vacate
    <3> QED  BY <3>1, <3>3, <3>4
  <2>5. CASE type = "DEAD"
    <3>1. k \in {"running", "blocked", "runnable"} /\ l = "absent"
      BY <2>0, <2>5 DEF Changes
    <3>2. consume_msg_task_dead(pid) /\ pid \in alive
      BY <1>1, <1>2, <1>4, <2>5, <3>1 DEF Dispatch, MsgTypes
    <3>3. /\ Vacate(pid) /\ alive' = alive \ {pid}
          /\ state' = [state EXCEPT ![pid] = "Blocked"]
          /\ cpu_id' = [cpu_id EXCEPT ![pid] = NoCpu]
      BY <3>2 DEF consume_msg_task_dead
    <3>4. status' = "running"
      BY <1>2, <3>2, <3>3, VacateLemma DEF IInv
    <3> QED  BY <1>5, <3>1, <3>3, <3>4
  <2>6. CASE type = "PREEMPT"
    <3>1. k = "running" /\ l = "runnable"
      BY <2>0, <2>6 DEF Changes
    <3>2. consume_msg_task_preempt(pid) /\ pid \in alive /\ state[pid] = "OnCpu"
      BY <1>1, <1>2, <1>4, <2>6, <3>1 DEF Dispatch, MsgTypes
    <3>3. EnqueueTask(pid) /\ UNCHANGED <<alive, cpu_id, status>>
      BY <3>2 DEF consume_msg_task_preempt
    <3> QED  BY <1>2, <1>5, <3>1, <3>2, <3>3 DEF EnqueueTask
  <2>7. CASE type = "COS_PREEMPT"
    <3>1. k = "running" /\ l = "runnable"
      BY <2>0, <2>7 DEF Changes
    <3>2. consume_msg_task_preempt_cos(pid) /\ pid \in alive /\ state[pid] = "OnCpu"
      BY <1>1, <1>2, <1>4, <2>7, <3>1 DEF Dispatch, MsgTypes
    <3>3. cpu_states[cpu_id[pid]] = "COS"
      BY <3>2 DEF IInv, TaskInv, OnCpuOwnsCos, OnCpu
    <3>4. EnqueueTask(pid) /\ UNCHANGED <<alive, cpu_id, status>>
      BY <3>2, <3>3 DEF consume_msg_task_preempt_cos
    <3> QED  BY <1>2, <1>5, <3>1, <3>2, <3>4 DEF EnqueueTask
  <2>8. type \in {"NEW", "NEW_BLOCKED", "RUNNABLE", "BLOCKED", "DEAD", "PREEMPT", "COS_PREEMPT"}
    BY <2>0 DEF Changes
  <2> HIDE DEF Only, type
  <2> QED  BY <2>1, <2>2, <2>3, <2>4, <2>5, <2>6, <2>7, <2>8
<1>7. Know(pid)' = l
  BY <1>3, <1>6 DEF Know
<1>8. ASSUME NEW p \in Tids, p # pid
      PROVE  Know(p)' = Know(p) /\ cpu_id'[p] = cpu_id[p]
  BY <1>3, <1>6, <1>8, KnowLemma
<1> QED  BY <1>1, <1>6, <1>7, <1>8

-----------------------------------------------------------------------------
(* The steps of the two together.                                          *)

LEMMA SysInitLemma ==
    ASSUME SysInit
    PROVE  SysInv
<1>1. IInv /\ KernelInv /\ \A t \in Threads : Leads(t, "absent")
  BY InitLemma, KernelInitLemma DEF SysInit
<1>2. alive = {} /\ status = "running" /\ \A c \in Cpus : kcur[c] = NoThread
  BY DEF SysInit, Init, KernelInit
<1>3. \A p : Know(p) = "absent"
  BY <1>2 DEF Know
<1> QED  BY <1>1, <1>2, <1>3 DEF SysInv

\* A step after which the lord knows each thread to be where it knew before.
LEMMA KnownLemma ==
    ASSUME SysInv, IInv', KernelInv', UNCHANGED <<alive, status>>,
           \A p \in Tids : /\ Know(p)' = Know(p)
                           /\ Know(p) = "running" => cpu_id'[p] = cpu_id[p],
           \A t \in Threads : \A k : Leads(t, k) => Leads(t, k)',
           \A c \in Cpus : kcur'[c] \in {kcur[c], NoThread}
    PROVE  SysInv'
<1>1. \A t \in Threads : PidOf(t) \in Tids
  BY PidsLemma
<1>2. \A t \in Threads : Leads(t, Know(PidOf(t)))'
  <2> SUFFICES ASSUME NEW t \in Threads PROVE Leads(t, Know(PidOf(t)))'
    OBVIOUS
  <2>1. PICK k : k = Know(PidOf(t))
    OBVIOUS
  <2>2. Leads(t, k)' /\ Know(PidOf(t))' = k
    BY <1>1, <2>1 DEF SysInv, PidOf
  <2> QED  BY <2>2 DEF Leads
<1>3. ASSUME NEW c \in Cpus, kcur'[c] # NoThread
      PROVE  Know(PidOf(kcur[c]))' = "running" /\ cpu_id'[PidOf(kcur'[c])] = c
  <2>1. PICK t \in Threads : t = kcur[c] /\ t = kcur'[c] /\ t # NoThread
    BY <1>3 DEF SysInv, KernelInv, KernelTypeOK
  <2>2. Know(PidOf(t)) = "running" /\ cpu_id[PidOf(t)] = c
    BY <2>1 DEF SysInv
  <2>3. Know(PidOf(t))' = "running" /\ cpu_id'[PidOf(t)] = c
    BY <1>1, <2>2 DEF PidOf
  <2> QED  BY <2>1, <2>3 DEF Know, PidOf
<1> QED  BY <1>2, <1>3 DEF SysInv, PidOf

LEMMA SysReceiveLemma ==
    ASSUME ErrLeavesInfo = FALSE, PidsDistinct, SysInv, Receive
    PROVE  SysInv'
<1>1. PICK msg \in CosMsg : msg = Head(mq) /\ msg.pid \in Pids
  BY DEF Receive, SysInv, KernelInv, KernelTypeOK
<1>2. /\ mq # <<>> /\ mq' = Tail(mq) /\ UNCHANGED <<kstate, kcur>> /\ Consume(msg)
  BY <1>1 DEF Receive
<1>3. IInv' /\ KernelInv'
  BY <1>2, ConsumeLemma, ReceiveLemma DEF SysInv
<1>4. \A t \in Threads : PidOf(t) \in Tids
  BY PidsLemma
<1>5. ASSUME NEW t \in Threads
      PROVE  \E l \in KStates :
                /\ Leads(t, l)'
                /\ IF msg.pid = PidOf(t) THEN <<Know(PidOf(t)), msg.type, l>> \in Changes
                                         ELSE l = Know(PidOf(t))
  <2>1. KernelTypeOK /\ Leads(t, Know(PidOf(t)))
    BY DEF SysInv, KernelInv
  <2>2. PICK k : k = Know(PidOf(t))
    OBVIOUS
  <2> QED  BY <1>1, <1>2, <2>1, <2>2, LeadsTail
<1>6. CASE IsOwn(msg)
  <2>1. UNCHANGED <<taskVars, status, loopVars>>
    BY <1>2, <1>6 DEF Consume, Ignore
  <2>2. UNCHANGED <<alive, status, cpu_id>> /\ \A p \in Tids : Know(p)' = Know(p)
    BY <2>1 DEF Know, Shot, Unsettled, Pending, ShotCpus, taskVars, loopVars
  <2>3. \A t \in Threads : msg.pid # PidOf(t)
    <3> SUFFICES ASSUME NEW t \in Threads, msg.pid = PidOf(t) PROVE FALSE
      OBVIOUS
    <3>1. PidOf(t) = PidOf(LordPid) /\ t # LordPid
      BY <1>6, KernelAssumption DEF IsOwn, PidsDistinct
    <3> QED  BY <3>1 DEF PidsDistinct
  <2>4. \A t \in Threads : Leads(t, Know(PidOf(t)))'
    <3> SUFFICES ASSUME NEW t \in Threads PROVE Leads(t, Know(PidOf(t)))'
      OBVIOUS
    <3>1. PICK l : Leads(t, l)' /\ l = Know(PidOf(t))
      BY <1>5, <2>3
    <3>2. Know(PidOf(t))' = l
      BY <1>4, <2>2, <3>1 DEF PidOf
    <3> QED  BY <3>1, <3>2 DEF Leads
  <2>5. ASSUME NEW c \in Cpus, kcur'[c] # NoThread
        PROVE  Know(PidOf(kcur[c]))' = "running" /\ cpu_id'[PidOf(kcur'[c])] = c
    <3>1. PICK t \in Threads : t = kcur[c] /\ t = kcur'[c] /\ t # NoThread
      BY <1>2, <2>5 DEF SysInv, KernelInv, KernelTypeOK
    <3>2. Know(PidOf(t)) = "running" /\ cpu_id[PidOf(t)] = c
      BY <3>1 DEF SysInv
    <3>3. Know(PidOf(t))' = "running" /\ cpu_id'[PidOf(t)] = c
      BY <1>4, <2>2, <3>2 DEF PidOf
    <3> QED  BY <3>1, <3>3 DEF Know, PidOf
  <2> QED  BY <1>3, <2>2, <2>4, <2>5 DEF SysInv, PidOf
<1>7. CASE ~IsOwn(msg)
  <2>1. PICK u \in Threads : msg.pid = PidOf(u)
    BY <1>1, <1>7 DEF Pids, IsOwn, PidsDistinct
  <2>2. PICK l \in KStates : Leads(u, l)' /\ <<Know(msg.pid), msg.type, l>> \in Changes
    BY <1>5, <2>1
  <2>3. /\ status' = "running"
        /\ alive' \subseteq alive \cup {msg.pid}
        /\ Know(msg.pid)' = l
        /\ \A p \in Tids : p # msg.pid => Know(p)' = Know(p) /\ cpu_id'[p] = cpu_id[p]
    BY <1>2, <1>7, <2>2, ConsumeKnows DEF SysInv
  <2>4. \A t \in Threads : Leads(t, Know(PidOf(t)))'
    <3> SUFFICES ASSUME NEW t \in Threads PROVE Leads(t, Know(PidOf(t)))'
      OBVIOUS
    <3>1. CASE t = u
      <4>1. Know(PidOf(t))' = l
        BY <2>1, <2>3, <3>1 DEF Know, PidOf
      <4> QED  BY <2>2, <3>1, <4>1 DEF Leads
    <3>2. CASE t # u
      <4>1. PidOf(t) # msg.pid
        BY <2>1, <3>2 DEF PidsDistinct
      <4>2. PICK k : Leads(t, k)' /\ k = Know(PidOf(t))
        BY <1>5, <4>1
      <4>3. Know(PidOf(t))' = k
        BY <1>4, <2>3, <4>1, <4>2 DEF PidOf
      <4> QED  BY <4>2, <4>3 DEF Leads
    <3> QED  BY <3>1, <3>2
  <2>5. ASSUME NEW c \in Cpus, kcur'[c] # NoThread
        PROVE  Know(PidOf(kcur[c]))' = "running" /\ cpu_id'[PidOf(kcur'[c])] = c
    <3>1. PICK t \in Threads : t = kcur[c] /\ t = kcur'[c] /\ t # NoThread
      BY <1>2, <2>5 DEF SysInv, KernelInv, KernelTypeOK
    <3>2. Know(PidOf(t)) = "running" /\ cpu_id[PidOf(t)] = c /\ Silent(PidOf(t))
      BY <3>1 DEF SysInv, KernelInv
    <3>3. PidOf(t) # msg.pid
      BY <1>1, <1>2, <3>2 DEF Silent, SysInv, KernelInv, KernelTypeOK
    <3>4. Know(PidOf(t))' = "running" /\ cpu_id'[PidOf(t)] = c
      BY <1>4, <2>3, <3>2, <3>3 DEF PidOf
    <3> QED  BY <3>1, <3>4 DEF Know, PidOf
  <2>6. alive' \subseteq {PidOf(t) : t \in Threads}
    BY <2>1, <2>3 DEF SysInv
  <2> QED  BY <1>3, <2>3, <2>4, <2>5, <2>6 DEF SysInv, PidOf
<1> QED  BY <1>6, <1>7

\* The order is executable, and takes no CPU from a thread of the class.
LEMMA OrderLemma ==
    ASSUME SysInv, pc = "shoot", NEW bad
    PROVE  /\ Executable(assigned)
           /\ Displaced(assigned, bad) = {}
           /\ \A c \in ShotCpus : c # LordCpu
<1>1. Unsettled = ShotCpus
  BY DEF Unsettled, Pending
<1>2. \A c \in ShotCpus : /\ c \in Cpus /\ assigned[c] \in OnCpu /\ cpu_id[assigned[c]] = c
                          /\ assigned[c] \in alive /\ Shot(assigned[c])
  BY <1>1, UnsettledLemma DEF SysInv, Shot
<1>3. Executable(assigned)
  <2>1. \A c \in Cpus : assigned[c] # 0 => \E u \in Threads : assigned[c] = PidOf(u)
    BY <1>2 DEF ShotCpus, NoTask, SysInv
  <2>2. \A c, d \in Cpus : assigned[c] # 0 /\ assigned[c] = assigned[d] => c = d
    BY <1>2 DEF ShotCpus, NoTask
  <2> QED  BY <2>1, <2>2 DEF Executable
<1>4. ASSUME NEW c \in Taken(assigned, bad), kcur[c] # NoThread
      PROVE  FALSE
  <2>1. c \in Cpus /\ c \in ShotCpus
    BY DEF Taken, ShotCpus, NoTask
  <2> DEFINE p == PidOf(kcur[c])
             q == assigned[c]
  <2>2. Know(p) = "running" /\ cpu_id[p] = c
    BY <1>4, <2>1 DEF SysInv
  <2>3. p \in OnCpu
    <3>1. p \in alive /\ p \in Tids /\ state[p] \in RunStates
      BY <2>2 DEF Know, SysInv, IInv, TaskInv, TaskTypeOK
    <3> QED  BY <2>2, <3>1 DEF Know, OnCpu, RunStates
  <2>4. q \in OnCpu /\ cpu_id[q] = c /\ Shot(q)
    BY <1>2, <2>1
  <2>5. p = q
    BY <2>2, <2>3, <2>4 DEF SysInv, IInv, TaskInv, OnCpuOwnsCos
  <2>6. Know(p) # "running"
    BY <2>4, <2>5 DEF Know
  <2> QED  BY <2>2, <2>6
<1>5. Displaced(assigned, bad) = {}
  BY <1>4 DEF Displaced
<1>6. \A c \in ShotCpus : c # LordCpu
  BY <1>2 DEF SysInv, IInv, TaskInv, OnCpuOwnsCos
<1> QED  BY <1>3, <1>5, <1>6

LEMMA SysShootLemma ==
    ASSUME ErrLeavesInfo = FALSE, PidsDistinct, SeqBarrier # "none", SysInv,
           NEW bad \in SUBSET ShotCpus, ShootOk(bad), Shoot(assigned, bad)
    PROVE  SysInv'
<1>1. PICK shots : shots = assigned
  OBVIOUS
<1>2. /\ pc = "shoot" /\ Executable(shots) /\ Displaced(shots, bad) = {}
      /\ Shoot(shots, bad) /\ KernelInv
  BY <1>1, OrderLemma DEF ShootOk, At, SysInv
<1>3. /\ KernelInv'
      /\ \A c \in Taken(shots, bad) :
            /\ shots[c] \in Threads
            /\ PidOf(shots[c]) = shots[c]
            /\ Leads(shots[c], "running")'
      /\ \A t \in Threads : (\A c \in Taken(shots, bad) : shots[c] # t) =>
            \A k : Leads(t, k) => Leads(t, k)'
      /\ kcur' = [c \in Cpus |-> IF c \in Taken(shots, bad) THEN shots[c] ELSE kcur[c]]
  BY <1>2, KernelShootLemma
<1>4. PICK T : T = Taken(shots, bad)
  OBVIOUS
<1>5. T = ShotCpus \ bad /\ T \subseteq Cpus
  BY <1>1, <1>4 DEF Taken, ShotCpus, NoTask
<1>6. /\ UNCHANGED <<alive, status, cpu_id>>
      /\ \A p \in Tids : Know(p)' = IF \E c \in T : shots[c] = p THEN "running" ELSE Know(p)
  BY <1>1, <1>5, ShootOkKnows DEF SysInv
<1>7. IInv'
  BY ShootLemma DEF SysInv
<1>8. \A t \in Threads : PidOf(t) \in Tids
  BY PidsLemma
<1>9. \A t \in Threads : Leads(t, Know(PidOf(t)))'
  <2> SUFFICES ASSUME NEW t \in Threads PROVE Leads(t, Know(PidOf(t)))'
    OBVIOUS
  <2>1. CASE \E c \in T : shots[c] = t
    <3>1. PICK c \in T : shots[c] = t
      BY <2>1
    <3>2. PidOf(t) = t /\ Leads(t, "running")'
      BY <1>3, <1>4, <3>1
    <3>3. Know(t)' = "running"
      BY <1>6, <1>8, <3>1, <3>2
    <3>4. Know(PidOf(t))' = "running"
      BY <3>2, <3>3 DEF PidOf, Know
    <3> QED  BY <3>2, <3>4 DEF Leads
  <2>2. CASE \A c \in T : shots[c] # t
    <3>1. PICK k : k = Know(PidOf(t)) /\ Leads(t, k)'
      BY <1>3, <1>4, <2>2 DEF SysInv
    <3>2. \A c \in T : shots[c] # PidOf(t)
      BY <1>3, <1>4, <2>2 DEF PidsDistinct
    <3>3. Know(PidOf(t))' = k
      BY <1>6, <1>8, <3>1, <3>2 DEF PidOf
    <3> QED  BY <3>1, <3>3 DEF Leads
  <2> QED  BY <2>1, <2>2
<1>10. ASSUME NEW c \in Cpus, kcur'[c] # NoThread
       PROVE  Know(PidOf(kcur[c]))' = "running" /\ cpu_id'[PidOf(kcur'[c])] = c
  <2>1. CASE c \in T
    <3>1. PICK t \in Threads : t = shots[c] /\ kcur'[c] = t /\ PidOf(t) = t
      BY <1>3, <1>4, <2>1
    <3>2. cpu_id[t] = c
      <4>1. c \in Unsettled
        BY <1>2, <1>5, <2>1 DEF Unsettled, Pending
      <4> QED  BY <1>1, <3>1, <4>1, UnsettledLemma DEF SysInv
    <3>3. Know(t)' = "running"
      BY <1>6, <1>8, <2>1, <3>1
    <3> QED  BY <1>6, <3>1, <3>2, <3>3 DEF PidOf, Know
  <2>2. CASE c \notin T
    <3>1. PICK t \in Threads : t = kcur[c] /\ kcur'[c] = t /\ t # NoThread
      BY <1>3, <1>4, <1>10, <2>2 DEF SysInv, KernelInv, KernelTypeOK
    <3>2. Know(PidOf(t)) = "running" /\ cpu_id[PidOf(t)] = c
      BY <3>1 DEF SysInv
    <3>3. Know(PidOf(t))' = "running"
      BY <1>6, <1>8, <3>2 DEF PidOf
    <3> QED  BY <1>6, <3>1, <3>2, <3>3 DEF PidOf, Know
  <2> QED  BY <2>1, <2>2
<1> QED  BY <1>3, <1>6, <1>7, <1>9, <1>10 DEF SysInv, PidOf

LEMMA SysStepLemma ==
    ASSUME ErrLeavesInfo = FALSE, PidsDistinct, SeqBarrier # "none",
           SysInv, [SysNext]_sysVars
    PROVE  SysInv'
<1>1. CASE Receive
  BY <1>1, SysReceiveLemma
<1>2. CASE SeeEmpty \/ LordAlone \/ \E bad \in SUBSET ShotCpus : ShootErr(bad) /\ ShootFails
  <2>1. /\ UNCHANGED kernelVars
        /\ \/ EnterSchedule \/ ScheduleStep
           \/ \E bad \in SUBSET ShotCpus : ShootErr(bad)
    BY <1>2 DEF SeeEmpty, LordAlone, ShootFails
  <2>2. IInv'
    BY <2>1, StepLemma DEF SysInv, Next, ShootStep
  <2>3. /\ UNCHANGED <<alive, status>>
        /\ \A p \in Tids : /\ Know(p)' = Know(p)
                           /\ Know(p) = "running" => cpu_id'[p] = cpu_id[p]
    <3>1. CASE AssignHead
      BY <3>1, AssignHeadKnows DEF SysInv
    <3>2. CASE RevertOne \/ CheckOne
      BY <3>2, SettleKnows DEF SysInv
    <3>3. CASE ~(AssignHead \/ RevertOne \/ CheckOne)
      <4>1. \/ SkipCpu \/ NothingQueued \/ NothingAssigned \/ EnterSchedule \/ Commit \/ Return
            \/ \E bad \in SUBSET ShotCpus : ShootErr(bad)
        BY <2>1, <3>3 DEF ScheduleStep
      <4> QED  BY <4>1, QuietKnows DEF SysInv
    <3> QED  BY <3>1, <3>2, <3>3
  <2>4. KernelInv' /\ \A t \in Threads : \A k : Leads(t, k) => Leads(t, k)'
    BY <2>1 DEF kernelVars, SysInv, KernelInv, KernelTypeOK, Silent, PidOf, Pids, Leads, Follows
  <2>5. \A c \in Cpus : kcur'[c] \in {kcur[c], NoThread}
    BY <2>1 DEF kernelVars
  <2> QED  BY <2>2, <2>3, <2>4, <2>5, KnownLemma
<1>3. CASE \E bad \in SUBSET ShotCpus : ShootOk(bad) /\ Shoot(assigned, bad)
  BY <1>3, SysShootLemma
<1>4. CASE KernelEvent /\ UNCHANGED lordVars
  <2>1. /\ KernelInv'
        /\ \A t \in Threads : \A k : Leads(t, k) => Leads(t, k)'
        /\ \A c \in Cpus : kcur'[c] \in {kcur[c], NoThread}
    BY <1>4, EventLemma DEF SysInv
  <2>2. IInv'
    BY <1>4, StepLemma DEF SysInv
  <2>3. UNCHANGED <<alive, status, cpu_id>> /\ \A p \in Tids : Know(p)' = Know(p)
    BY <1>4 DEF lordVars, taskVars, loopVars, Know, Shot, Unsettled, Pending, ShotCpus
  <2> QED  BY <2>1, <2>2, <2>3, KnownLemma
<1>5. CASE UNCHANGED sysVars
  <2>1. UNCHANGED lordVars /\ UNCHANGED kernelVars
    BY <1>5 DEF sysVars
  <2>2. IInv'
    BY <2>1, StepLemma DEF SysInv
  <2>3. UNCHANGED <<alive, status, cpu_id>> /\ \A p \in Tids : Know(p)' = Know(p)
    BY <2>1 DEF lordVars, taskVars, loopVars, Know, Shot, Unsettled, Pending, ShotCpus
  <2>4. KernelInv' /\ \A t \in Threads : \A k : Leads(t, k) => Leads(t, k)'
    BY <2>1 DEF kernelVars, SysInv, KernelInv, KernelTypeOK, Silent, PidOf, Pids, Leads, Follows
  <2>5. \A c \in Cpus : kcur'[c] \in {kcur[c], NoThread}
    BY <2>1 DEF kernelVars
  <2> QED  BY <2>2, <2>3, <2>4, <2>5, KnownLemma
<1> QED  BY <1>1, <1>2, <1>3, <1>4, <1>5 DEF SysNext, LordStep, ShootTask

-----------------------------------------------------------------------------
(* The theorems.                                                           *)

\* SysInv is inductive.
THEOREM SysInductive ==
    ASSUME ErrLeavesInfo = FALSE, PidsDistinct, SeqBarrier # "none"
    PROVE  SysSpec => []SysInv
<1>1. SysInit => SysInv
  BY SysInitLemma
<1>2. SysInv /\ [SysNext]_sysVars => SysInv'
  BY SysStepLemma
<1> QED  BY <1>1, <1>2, PTL DEF SysSpec

\* With a kernel that keeps its contract the lord never ends, however many
\* threads and CPUs there are and however their steps interleave.
THEOREM LordNeverStops ==
    ASSUME ErrLeavesInfo = FALSE, PidsDistinct, SeqBarrier # "none"
    PROVE  SysSpec => []NeverStops
<1>1. SysInv => NeverStops
  BY DEF SysInv, NeverStops
<1> QED  BY <1>1, SysInductive, PTL

\* When every message is read and no shot is under way, what the lord
\* believes of every thread is the truth, its CPU included.
THEOREM LordKnowsTruth ==
    ASSUME ErrLeavesInfo = FALSE, PidsDistinct, SeqBarrier # "none"
    PROVE  SysSpec => []ViewExact
<1>1. SysInv => ViewExact
  <2> SUFFICES ASSUME SysInv, pc = "drain", mq = <<>>, NEW t \in Threads
               PROVE  Agrees(t)
    BY DEF ViewExact
  <2> DEFINE p == PidOf(t)
  <2>1. Know(p) = kstate[t]
    <3>1. KernelTypeOK /\ Leads(t, Know(p))
      BY DEF SysInv, KernelInv
    <3> QED  BY <3>1, LeadsNowhere
  <2>2. ~Shot(p)
    BY DrainLemma DEF SysInv
  <2>3. kstate[t] \in {"absent", "blocked", "runnable", "running"} /\ p \in Tids
    BY PidsLemma DEF SysInv, KernelInv, KernelTypeOK
  <2>4. state[p] \in RunStates
    BY <2>3 DEF SysInv, IInv, TaskInv, TaskTypeOK
  <2>5. CASE kstate[t] = "running"
    <3>1. p \in OnCpu
      BY <2>1, <2>3, <2>4, <2>5 DEF Know, OnCpu, RunStates
    <3>2. PICK c \in Cpus : kcur[c] = t
      BY <2>5 DEF SysInv, KernelInv
    <3>3. t # NoThread
      BY KernelAssumption DEF NoThread
    <3>4. cpu_id[p] = c
      BY <3>2, <3>3 DEF SysInv
    <3> QED  BY <2>5, <3>1, <3>2, <3>4 DEF Agrees
  <2>6. CASE kstate[t] = "runnable"
    BY <2>1, <2>2, <2>3, <2>6 DEF Know, Agrees, Queued
  <2>7. CASE kstate[t] \in {"absent", "blocked"}
    BY <2>1, <2>7 DEF Know, Agrees
  <2> QED  BY <2>3, <2>5, <2>6, <2>7
<1> QED  BY <1>1, SysInductive, PTL

\* A step of a thread is a move of the class, or none.
LEMMA EventImplements ==
    ASSUME SysInv, KernelEvent
    PROVE  [Class!Next]_Class!classVars
<1> DEFINE ClassCpus == Cpus \ {LordCpu}
           running == [c \in ClassCpus |-> kcur[c]]
<1>1. CASE LordMessage
  BY <1>1 DEF LordMessage, Class!classVars
<1>2. ASSUME NEW u \in Threads, NEW from \in KStates, NEW to \in KStates,
             NEW type \in MsgTypes, to # "running",
             <<from, type, to>> \in Changes, Event(u, {from}, to, type)
      PROVE  [Class!Next]_Class!classVars
  <2>1. /\ kstate[u] = from /\ kstate' = [kstate EXCEPT ![u] = to]
        /\ kcur' = [c \in Cpus |-> IF kcur[c] = u THEN NoThread ELSE kcur[c]]
    BY <1>2 DEF Event
  <2>2. CASE from = to
    <3>1. from = "absent"
      BY <1>2, <2>2 DEF Changes
    <3>2. \A c \in Cpus : kcur[c] # u
      BY <2>1, <3>1, KernelAssumption DEF SysInv, KernelInv, NoThread
    <3>3. kstate' = kstate /\ kcur' = kcur
      BY <2>1, <2>2, <3>2 DEF SysInv, KernelInv, KernelTypeOK
    <3> QED  BY <3>3 DEF Class!classVars
  <2>3. CASE from # to
    <3>1. <<from, to>> \in Class!Moves /\ to \in {"absent", "blocked", "runnable"}
      BY <1>2, <2>3 DEF Changes, Class!Moves
    <3>2. running' = [c \in ClassCpus |-> IF running[c] = u THEN 0 ELSE running[c]]
      BY <2>1 DEF NoThread
    <3>3. Class!Move(u, to)
      BY <2>1, <3>1, <3>2 DEF Class!Move
    <3> QED  BY <3>1, <3>3 DEF Class!Next
  <2> QED  BY <2>2, <2>3
<1> QED  BY <1>1, <1>2, EventsTell

\* A shot is an order of the class: runnable threads on free CPUs.
LEMMA ShootImplements ==
    ASSUME ErrLeavesInfo = FALSE, PidsDistinct, SeqBarrier # "none", SysInv,
           NEW bad \in SUBSET ShotCpus, ShootOk(bad), Shoot(assigned, bad)
    PROVE  Class!Next
<1> DEFINE ClassCpus == Cpus \ {LordCpu}
           running == [c \in ClassCpus |-> kcur[c]]
<1>1. PICK order : order = assigned
  OBVIOUS
<1>2. PICK T : T = Taken(order, bad)
  OBVIOUS
<1>3. /\ Executable(order) /\ Displaced(order, bad) = {} /\ Shoot(order, bad) /\ KernelInv
      /\ T \subseteq ClassCpus
  BY <1>1, <1>2, OrderLemma DEF ShootOk, At, SysInv, Taken, ShotCpus, NoTask
<1>4. /\ \A c \in T : /\ order[c] \in Threads /\ order[c] # 0
                      /\ kstate[order[c]] = "runnable" /\ kstate'[order[c]] = "running"
      /\ \A t \in Threads : (\A c \in T : order[c] # t) => kstate'[t] = kstate[t]
      /\ kcur' = [c \in Cpus |-> IF c \in T THEN order[c] ELSE kcur[c]]
      /\ KernelTypeOK'
  <2>1. \A c \in T : order[c] # 0
    BY <1>2 DEF Taken
  <2> QED  BY <1>2, <1>3, <2>1, KernelShootLemma DEF KernelInv
<1>5. PICK shots \in [ClassCpus -> Threads \cup {0}] :
         \A c \in ClassCpus : shots[c] = IF c \in T THEN order[c] ELSE 0
  <2> DEFINE f == [c \in ClassCpus |-> IF c \in T THEN order[c] ELSE 0]
  <2>1. f \in [ClassCpus -> Threads \cup {0}]
    BY <1>4
  <2> QED  BY <2>1
<1>6. {c \in ClassCpus : shots[c] # 0} = T
  BY <1>3, <1>4, <1>5
<1>7. \A c \in T : shots[c] = order[c]
  BY <1>3, <1>5
<1>8. {running[c] : c \in T} \ {0} = {}
  <2>1. \A c \in T : kcur[c] = 0
    BY <1>2, <1>3 DEF Displaced, NoThread
  <2> QED  BY <1>3, <2>1
<1>9. /\ \A c \in T : kstate[shots[c]] = "runnable"
      /\ \A c, d \in T : shots[c] = shots[d] => c = d
  BY <1>3, <1>4, <1>7 DEF Executable
<1>10. running' = [c \in ClassCpus |-> IF c \in T THEN shots[c] ELSE running[c]]
  BY <1>4, <1>7
<1>11. kstate' = [t \in Threads |-> IF \E c \in T : shots[c] = t THEN "running" ELSE kstate[t]]
  <2>1. \A t \in Threads : kstate'[t] = IF \E c \in T : shots[c] = t THEN "running" ELSE kstate[t]
    BY <1>4, <1>7
  <2>2. kstate' = [t \in Threads |-> kstate'[t]]
    BY <1>4 DEF KernelTypeOK
  <2> QED  BY <2>1, <2>2
<1>12. Class!Run(shots)
  BY <1>6, <1>8, <1>9, <1>10, <1>11 DEF Class!Run
<1> QED  BY <1>12 DEF Class!Next

\* The lord, its queue and the kernel implement the class as its threads see
\* it: runnable threads get free CPUs, never the lord's, and one each.
THEOREM FifoImplementsClass ==
    ASSUME ErrLeavesInfo = FALSE, PidsDistinct, SeqBarrier # "none"
    PROVE  SysSpec => ImplementsClass
<1>1. SysInit => Class!Init
  BY DEF SysInit, KernelInit, Class!Init, NoThread
<1>2. SysInv /\ [SysNext]_sysVars => [Class!Next]_Class!classVars
  <2> SUFFICES ASSUME SysInv, [SysNext]_sysVars
               PROVE  [Class!Next]_Class!classVars
    OBVIOUS
  <2>1. CASE UNCHANGED <<kstate, kcur>>
    BY <2>1 DEF Class!classVars
  <2>2. CASE KernelEvent
    BY <2>2, EventImplements
  <2>3. CASE \E bad \in SUBSET ShotCpus : ShootOk(bad) /\ Shoot(assigned, bad)
    BY <2>3, ShootImplements
  <2> QED  BY <2>1, <2>2, <2>3
           DEF SysNext, LordStep, Receive, SeeEmpty, LordAlone, ShootTask, ShootFails,
               sysVars, kernelVars
<1> QED  BY <1>1, <1>2, SysInductive, PTL DEF SysSpec, ImplementsClass, Class!Spec

-----------------------------------------------------------------------------
(* The programs.  Whatever their threads do, they do as threads of the     *)
(* class may: the theorems on the system are theorems on the programs.     *)

LEMMA ProgStepLemma ==
    ASSUME prog \in Programs, [ProgNext]_allVars
    PROVE  [SysNext]_sysVars /\ UNCHANGED prog
<1>1. 1 .. NumThreads \subseteq Threads
  <2>1. NumThreads \in {0, 1, 2}
    BY DEF Programs, NumThreads, Work, SimpleTest, DelegationLoad, CgroupLoad
  <2> QED  BY <2>1, ProgramsAssumption
<1>2. CASE UNCHANGED allVars
  BY <1>2 DEF allVars, progVars
<1>3. CASE LordStep /\ UNCHANGED progVars
  BY <1>3 DEF SysNext, progVars
<1>4. CASE OtherThreads
  BY <1>4 DEF OtherThreads, SysNext, progVars
<1>5. CASE Main \/ SpinnersEnd
  BY <1>5 DEF Main, SpinnersEnd, CreateGroup, AdjustRate, CreateThread, JoinThread,
              StopSpinners, JoinSpinners
<1>6. ASSUME NEW t \in Threads, ThreadStep(t) PROVE [SysNext]_sysVars /\ UNCHANGED prog
  <2>1. CASE SetTid(t) \/ Spin(t) \/ Calculate(t) \/ AddToGroup(t) \/ End(t)
    BY <2>1 DEF SetTid, Spin, Calculate, AddToGroup, End, Does
  <2>2. CASE SetClass(t)
    <3>1. UNCHANGED <<lordVars, prog>> /\ (JoinRunnable(t) \/ UNCHANGED kernelVars)
      BY <2>2 DEF SetClass, Does
    <3> QED  BY <3>1 DEF SysNext, KernelEvent, sysVars
  <2>3. CASE Sleep(t)
    <3>1. UNCHANGED <<lordVars, prog>> /\ (Block(t) \/ UNCHANGED kernelVars)
      BY <2>3 DEF Sleep, Does
    <3> QED  BY <3>1 DEF SysNext, KernelEvent, LeaveCpu, sysVars
  <2>4. CASE Gone(t)
    BY <2>4 DEF Gone, progVars, SysNext, KernelEvent, LeaveCpu
  <2> QED  BY <1>6, <2>1, <2>2, <2>3, <2>4 DEF ThreadStep
<1>7. ASSUME NEW t \in Threads, WakeUp(t) PROVE [SysNext]_sysVars /\ UNCHANGED prog
  BY <1>7 DEF WakeUp, progVars, SysNext, KernelEvent
<1>8. CASE Elsewhere
  <2>1. UNCHANGED <<lordVars, prog>>
    BY <1>8 DEF Elsewhere, progVars
  <2>2. LordMessage \/ \E t \in Threads : CfsPreempt(t) \/ Stray(t)
    BY <1>1, <1>8 DEF Elsewhere
  <2> QED  BY <2>1, <2>2 DEF SysNext, KernelEvent, LeaveCpu
<1> QED  BY <1>2, <1>3, <1>4, <1>5, <1>6, <1>7, <1>8 DEF ProgNext

\* The programs of src/workload that start COS threads do nothing a thread of
\* the class may not do.
THEOREM ProgramsAreThreads == ProgSpec => SysSpec
<1>1. ProgInit => SysInit /\ prog \in Programs
  BY DEF ProgInit
<1>2. prog \in Programs /\ [ProgNext]_allVars => [SysNext]_sysVars /\ (prog \in Programs)'
  BY ProgStepLemma DEF Programs
<1> QED  BY <1>1, <1>2, PTL DEF ProgSpec, SysSpec

\* So the lord survives each of them, knows the truth about their threads, and
\* displaces none of them (simple_exp.cpp, task_delegation_latency_load.cpp,
\* cgroup_latency_load.cpp).
THEOREM ProgramsAreSafe ==
    ASSUME ErrLeavesInfo = FALSE, PidsDistinct, SeqBarrier # "none"
    PROVE  ProgSpec => []NeverStops /\ []ViewExact /\ ImplementsClass
BY ProgramsAreThreads, LordNeverStops, LordKnowsTruth, FifoImplementsClass, PTL

=============================================================================
